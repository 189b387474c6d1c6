SPECIFICATION Spec
CONSTANTS
    Pids = {1, 2, 3}
    Root = 1
    Proxy = 2
    Outside = 0
    MaxStarts = 4
    EofGrace = 1
    TermGrace = 1
    MaxActivity = 1
    IdleAfter = 2
    DrainFor = 1
    Warn = 1
    Recycle = 2
    Hard = 3
    IdleFor = 1
INVARIANTS
    KnownIsOurs
    SampledIsReaped
    GroupIsGone
PROPERTIES
    TargetsAreOurs
    CleanupEnds
CHECK_DEADLOCK FALSE
