SPECIFICATION FairSpec
CONSTANTS
    Peers = {p1, p2}
    Sessions = {s1, s2}
    MAX_NR_CONN = 2
    Q_SIZE = 2
    Sizes = {TRUE}
    MaxBurst = 2
    MaxSent = 2
    MaxTotal = 4
CHECK_DEADLOCK FALSE
PROPERTIES EventuallyAccepted EventuallyReceived
INVARIANTS TypeOK NoPanic SessionOwnsConn
