SPECIFICATION Spec
CONSTANTS
    NrEvents = 2
    Waiters = {w1, w2}
    Aborters = {}
    Readers = {r1, r2}
    Writers = {v1, v2}
    NoEvent = NoEvent
    MaxSn = 3
    MaxFaults = 1
    Timeouts = TRUE
SYMMETRY Symmetry
INVARIANTS EventOwned LinkedOwned PoolWhole Honest
CHECK_DEADLOCK FALSE
