SPECIFICATION DrainSpec
CONSTANTS
    NrCmds = 2
    Scs = {s1, s2}
    Readers = {r1}
    Writers = {w1}
    Drainers = {d1}
    NoTag = NoTag
    NoCmd = NoCmd
    MaxBatch = 2
    SnMod = 8
    MaxSn = 3
    CopyFaults = FALSE
INVARIANTS TypeOK NoDoubleDone Custody SlotAccounting IoRunningExact DrainComplete
PROPERTIES DrainEnds KeepsPromise
CHECK_DEADLOCK FALSE
