SPECIFICATION OutageFairSpec
CONSTANTS
    Files = {f1, f2, f3}
    NoFile = NoFile
    Overlap = FALSE
    Scs = {s1, s2}
    Foreign = {s2}
    Allowed = 1
INVARIANTS TypeOK SyncNeverStuck OfflineWithoutTarget BlockedIffSuspended SweptClean
PROPERTIES TakenOverOrOffline EndsAtLast
CHECK_DEADLOCK FALSE
