SPECIFICATION Spec
CONSTANTS
    Clients = {c1, c2}
    Stoppers = {s1}
    Owners = {o1, o2}
    Faults = {}
    None = None
INVARIANT StopIsFinal
CHECK_DEADLOCK FALSE
