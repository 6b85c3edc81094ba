SPECIFICATION FairSpec
CONSTANTS
    Threads = {t1, t2}
    Disks = {d1, d2}
    Addrs = {a1}
    Names = {n1}
    Stats = {"running", "offline"}
    NoDisk = NoDisk
    NoThread = NoThread
    NoName = NoName
    NoAddr = NoAddr
INVARIANTS TypeOK MarkSticks
PROPERTY RemovalEnds
CHECK_DEADLOCK FALSE
