SPECIFICATION Spec
CONSTANTS
    Managers = {m1, m2}
    Shared = Shared
    None = None
    Timeout = 2
INVARIANTS
    NoThreadLost
    ArchiveNeedsIdle
    TakeoverBounded
PROPERTIES
    LateRequests
    TakeoverEnds
CHECK_DEADLOCK FALSE
