SPECIFICATION Spec
CONSTANTS
    Users = {"u0", "u1"}
    Resources = {"r1", "r2"}
    Ports = {"ssh", "web"}
    Keys = {"k0", "k1"}
    DefaultUser = "u0"
    NoResource = "none"
    NoUser = "none"
    Cases <- MCCases
    MaxRuns = 3
CHECK_DEADLOCK FALSE
INVARIANTS TypeOK OrderIndependent PortUnambiguous NoClientPanic ExitAsDocumented CloseUndoesKnock KnockOpens
