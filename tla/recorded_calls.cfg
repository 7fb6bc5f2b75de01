SPECIFICATION FairSpec
CONSTANTS
    Threads = {t1, t2}
    Writers = {t1, t2}
    Closer = closer
    Nobody = Nobody
    Unlocked = Unlocked
    Faults = {"timeout", "refuse"}
    MaxCalls = 4
    Backups = 2
    Capacity = 2
    Before = {2}
    MaxRecords = 6
    MaxInterrupts = 1
CHECK_DEADLOCK FALSE
INVARIANTS
    OnlyLateEntriesStay
    RetentionHolds
PROPERTIES
    TrailIsAJournal
    EveryCallReturns
