SPECIFICATION FairSpec
CONSTANTS
    NrCmds = 3
    Scs = {s1, s2, s3}
    Readers = {r1, r2}
    Writers = {w1}
    Drainers = {}
    NoTag = NoTag
    NoCmd = NoCmd
    MaxBatch = 2
    SnMod = 8
    MaxSn = 3
    CopyFaults = TRUE
INVARIANTS AnswerRightCommand CopiesLive
PROPERTY Completes
CHECK_DEADLOCK FALSE
