SPECIFICATION FairSpec
CONSTANTS
    Clients = {c1, c2}
    Stoppers = {s1}
    Owners = {o1, o2}
    Faults = {"owner", "guardian"}
    None = None
INVARIANTS TypeOK SingleWorker SingleWriter StopFindsNothing
PROPERTIES StopHoldsOffSpawns StartupReleased WorkerReaped FenceReleased ImplementsFence
CHECK_DEADLOCK FALSE
