SPECIFICATION EhFairSpec
CONSTANTS
    NrCmds = 2
    Scs = {s1, s2}
    Readers = {r1}
    Writers = {w1}
    Drainers = {x1}
    NoTag = NoTag
    NoCmd = NoCmd
    MaxBatch = 2
    SnMod = 8
    MaxSn = 3
    CopyFaults = FALSE
    MaxLate = 2
    EventsRunOut = TRUE
    LateVerdicts = TRUE
INVARIANTS EhCustody EhSlots AbortRightCommand
PROPERTY Recovers
CHECK_DEADLOCK FALSE
