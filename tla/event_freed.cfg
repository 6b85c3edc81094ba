SPECIFICATION Spec
CONSTANTS
    NrEvents = 2
    Waiters = {w1, w2}
    Aborters = {a1}
    Readers = {r1}
    Writers = {v1}
    NoEvent = NoEvent
    MaxSn = 3
    MaxFaults = 0
    Timeouts = TRUE
INVARIANT EventOwned
CHECK_DEADLOCK FALSE
