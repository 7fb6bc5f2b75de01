SPECIFICATION Spec
CONSTANTS
    Callers = {c1, c2}
    Keys = {k1, k2, k3}
    Adapters <- FourAdapters
    MaxSize = 2
    IdleTimeout = 1
    MaxTime = 2
    Faults = {"create"}
    Reaper = reaper
    Lifespan = lifespan
    None = None
SYMMETRY Symmetry
CHECK_DEADLOCK FALSE
INVARIANTS
    PoolBounded
    SweepTakesEveryIdle
    TakenOutOnce
