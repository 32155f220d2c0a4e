SPECIFICATION Spec
CONSTANTS
    Peers = {p1, p2, p3}
    Sessions = {s1, s2}
    MAX_NR_CONN = 2
    Q_SIZE = 2
    Sizes = {TRUE, FALSE}
    MaxBurst = 3
    MaxSent = 4
    MaxTotal = 5
CHECK_DEADLOCK FALSE
SYMMETRY MCSymmetry
INVARIANTS CounterCoversQueues WithinLimits
PROPERTIES DeliveredInOrder
