SPECIFICATION FairSpec
CONSTANTS
    Threads = {t1}
    MaxAge = 5
    EofGrace = 2
    DetachBudget = 2
    QueryLimit = 0
    UnloadWait = 0
    JoinLimit = 0
    MaxSends = 3
    MaxStall = 0
    IdleAfter = 9
    DrainFor = 1
    IdleFor = 9
    Warn = 1
    Recycle = 2
    Hard = 3
PROPERTY ArchiveLeavesNoThread
CHECK_DEADLOCK FALSE
