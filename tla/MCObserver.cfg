SPECIFICATION Spec
CONSTANTS
    Threads = {t1, t2}
    Turns = {u1, u2}
    Ids = {i1, i2}
    ServerIds = {j1}
    MaxTerminal = 2
    MaxQueue = 3
    MaxRequests = 3
    None = None
INVARIANTS TypeOK TurnsCounted CommandsCounted IdleConverges ThreadsConverge
SYMMETRY Symmetry
CHECK_DEADLOCK FALSE
