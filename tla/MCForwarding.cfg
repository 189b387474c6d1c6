SPECIFICATION Spec
CONSTANTS
    x = x
    r = r
    o = o
    Letters = {x, r, o}
    Resume = r
    Own = o
    Streams <- MCStreams
    MaxWire = 3
    MaxOwn = 1
INVARIANTS
    ReadsWhatIsMeant
    FailsForCause
    AheadOfServer
    ResumeIsPrepared
PROPERTIES
    OwnerReturns
    Detaches
CHECK_DEADLOCK FALSE
