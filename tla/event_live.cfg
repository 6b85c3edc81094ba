SPECIFICATION FairSpec
CONSTANTS
    NrEvents = 1
    Waiters = {w1}
    Aborters = {a1}
    Readers = {r1}
    Writers = {v1}
    NoEvent = NoEvent
    MaxSn = 2
    MaxFaults = 0
    Timeouts = TRUE
PROPERTY HandlerReturns
CHECK_DEADLOCK FALSE
