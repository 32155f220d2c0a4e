SPECIFICATION Spec
CONSTANTS
    Peers = {p1}
    Sessions = {s1}
    MAX_NR_CONN = 1
    Q_SIZE = 1
    Sizes = {TRUE, FALSE}
    MaxBurst = 2
    MaxSent = 3
    MaxTotal = 3
CHECK_DEADLOCK FALSE
INVARIANTS NoPanic
