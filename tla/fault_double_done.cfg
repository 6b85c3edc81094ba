SPECIFICATION Spec
CONSTANTS
    NrCmds = 2
    Scs = {s1, s2}
    Readers = {r1}
    Writers = {w1}
    Drainers = {d1}
    NoTag = NoTag
    NoCmd = NoCmd
    MaxBatch = 2
    SnMod = 8
    MaxSn = 2
    CopyFaults = TRUE
INVARIANT NoDoubleDone
CHECK_DEADLOCK FALSE
