SPECIFICATION Spec
CONSTANTS
    Clients <- MCClients
    Speeches <- MCSpeeches
    Msg <- MCMsg
    Speaks <- MCSpeaks
    AddrOf <- MCAddrOf
    PortOf <- MCPortOf
    num_connections = 1
    Cuts = {13}
    MaxFaults = 1
INVARIANTS ClosedBeforeDrop
CHECK_DEADLOCK FALSE
