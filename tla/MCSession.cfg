SPECIFICATION FairSpec
CONSTANTS
    Threads = {t1}
    MaxAge = 5
    EofGrace = 2
    DetachBudget = 2
    QueryLimit = 1
    UnloadWait = 1
    JoinLimit = 1
    MaxSends = 2
    MaxStall = 2
    IdleAfter = 2
    DrainFor = 1
    IdleFor = 2
    Warn = 1
    Recycle = 2
    Hard = 3
INVARIANTS TypeOK AgeBounded LeaseBounded ReclaimSparesWork
PROPERTIES DrainIsSilent SessionEnds
CHECK_DEADLOCK FALSE
