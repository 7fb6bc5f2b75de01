SPECIFICATION Spec
CONSTANTS
    d1 = d1
    d2 = d2
    s1 = s1
    s2 = s2
    Absent = Absent
    NoRow = NoRow
    Unread = Unread
    NoDb = NoDb
    DefaultDb = d1
    Databases = {d1, d2}
    Requests = {d2, NoDb}
    Names <- TwoNames
    Shapes = {s1}
    Options <- FreshOnly
    Faults = {}
    PageSize = 2
    MaxScans = 2
    MaxUpstream = 0
    MaxCrashes = 0
CHECK_DEADLOCK FALSE
INVARIANTS
    NoFabricatedRemoval
