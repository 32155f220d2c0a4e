SPECIFICATION Spec
CONSTANTS
    Addrs = {a0, a1, a2, a3}
    ValidAddrs = {a1, a2, a3}
    Matchable = {a0, a1, a3}
    Any = Any
    Ports <- MCPorts
    Configured <- MCConfigured
    CtrlPort = 9
    CtrlProtos = {"tcp", "udp"}
    TypesOf <- MCTypesOf
    Timeout = 1
    Debug = FALSE
    NftFaults <- MCAllFaults
    MaxCopies = 2
INVARIANTS TypeOK LeasedPortsAreOpen ControlPortOpen FirewallAssertions
PROPERTIES NeverClosedEarly ImplementsLeases
SYMMETRY MCSymmetry
