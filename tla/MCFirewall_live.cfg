SPECIFICATION FairSpec
CONSTANTS
    Addrs = {a1}
    ValidAddrs = {a1}
    Matchable = {a1}
    Any = Any
    Ports <- MCPorts
    Configured <- MCConfigured
    CtrlPort = 9
    CtrlProtos = {"tcp", "udp"}
    TypesOf <- MCTypesOfEdited
    Timeout = 2
    Debug = FALSE
    NftFaults <- MCCloseWorks
    MaxCopies = 3
INVARIANTS NoOrphanRules
PROPERTIES RepliesAreTrue KnockedPortsCloseAgain
