SPECIFICATION Spec
CONSTANTS
    Clients = {c1, c2}
    Stoppers = {s1}
    Owners = {o1, o2}
    Faults = {"owner", "guardian", "boot", "blind"}
    None = None
INVARIANT DocumentedFence
CHECK_DEADLOCK FALSE
