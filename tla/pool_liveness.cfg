SPECIFICATION FairSpec
CONSTANTS
    Callers = {c1}
    Keys = {k1, k2}
    Adapters <- FiveAdapters
    MaxSize = 1
    IdleTimeout = 1
    MaxTime = 2
    Faults = {"create", "die"}
    Reaper = reaper
    Lifespan = lifespan
    None = None

CHECK_DEADLOCK FALSE
INVARIANTS
    OnlyFailureLeaks
PROPERTIES
    IdleIsClosed
