SPECIFICATION Spec
CONSTANTS
    Threads = {t1, t2}
    Turns = {u1, u2}
    Ids = {i1, i2}
    ServerIds = {i1}
    MaxTerminal = 2
    MaxQueue = 3
    MaxRequests = 3
    None = None
INVARIANT CommandsCounted
CHECK_DEADLOCK FALSE
