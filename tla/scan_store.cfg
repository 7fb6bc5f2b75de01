SPECIFICATION FairSpec
CONSTANTS
    d1 = d1
    d2 = d2
    s1 = s1
    s2 = s2
    Absent = Absent
    NoRow = NoRow
    Unread = Unread
    NoDb = NoDb
    DefaultDb = d1
    Databases = {d1}
    Requests = {d1}
    Names <- TwoNames
    Shapes = {s1, s2}
    Options <- ResumeOrForce
    Faults <- AllFaults
    PageSize = 1
    MaxScans = 2
    MaxUpstream = 1
    MaxCrashes = 0
CHECK_DEADLOCK FALSE
INVARIANTS
    TypeOK
    HistoryMatchesStore
    HashVouchesForColumns
PROPERTIES
    ScanEnds
    RequestIsFreed
