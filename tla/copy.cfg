SPECIFICATION Spec
CONSTANTS
    MaxSegs = 3
    MaxBuf = 4
    MaxIovs = 3
    MaxVec = 4
    Word = 7
INVARIANTS InPlace AllCopied WholeCommand
CHECK_DEADLOCK FALSE
