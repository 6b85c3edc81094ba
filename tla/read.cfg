SPECIFICATION FairSpec
CONSTANTS
    Readers = {r1}
    Pollers = {q1}
    Producers = {p1}
    MaxBatch = 2
    MaxQueued = 3
INVARIANT NoLostWakeup
PROPERTIES Served CloseEndsRead
CHECK_DEADLOCK FALSE
