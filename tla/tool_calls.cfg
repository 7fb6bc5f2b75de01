SPECIFICATION FairSpec
CONSTANTS
    sales = sales
    crm = crm
    users = users
    c1 = c1
    scan = scan
    Callers = {c1}
    Scanner = scan
    Tools <- SomeTools
    Names <- TwoNames
    Asked <- AskedNames
    Columns = {col}
    Start <- OnlySales
    Absent = Absent
    Nothing = Nothing
    Nobody = Nobody
    Ttl = 1
    ReadTime = 0
    MaxTime = 1
    MaxCalls = 2
    MaxChanges = 1
CHECK_DEADLOCK FALSE
INVARIANTS
    RecordIsComplete
PROPERTIES
    NamesAreTimely
    CallEnds
