SPECIFICATION FairSpec
CONSTANTS
    Clients <- MCClients
    Speeches <- MCSpeeches
    Msg <- MCMsg
    Speaks <- MCSpeaks
    AddrOf <- MCAddrOf
    PortOf <- MCPortOf
    num_connections = 1
    Cuts = {13}
    MaxFaults = 2
INVARIANTS TypeOK CarriedOutAsSaid AcknowledgedIsDone RejectsOnlyTheDead
PROPERTIES ServedToTheEnd
CHECK_DEADLOCK FALSE
