SPECIFICATION FairSpec
CONSTANTS
    Addrs = {a1}
    ValidAddrs = {a1}
    Matchable = {a1}
    Any = Any
    Ports <- MCPorts
    Configured <- MCConfigured
    CtrlPort = 9
    CtrlProtos = {"tcp", "udp"}
    TypesOf <- MCTypesOf
    Timeout = 1
    Debug = FALSE
    NftFaults <- MCCloseFaults
    MaxCopies = 2
PROPERTIES KnockedPortsCloseAgain
