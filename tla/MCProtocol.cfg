SPECIFICATION FairSpec
CONSTANTS
    Peers = {p1}
    Requests <- MCRequests
    KeyOf <- MCKeyOf
    UsersOf <- MCUsersOf
    CtrlResources = {"ctrl"}
    Policies <- MCPolicies
    L4 = {"tcp", "udp"}
    FaultSets <- MCFaultSets
    None = None
    MaxNonce = 3
CHECK_DEADLOCK FALSE
INVARIANTS TypeOK StealthyErrors
PROPERTIES ImplementsKnocking EverybodyLeaves AuthorisedSucceed
