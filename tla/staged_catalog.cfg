SPECIFICATION Spec
CONSTANTS
    Keys <- TwoDatabases
    Permitted = {1, 2}
    PageSize = 1
    Columns = 2
    NameMentions = {2, 3}
    ColumnMentions = {1}
    Checks = {"require", "warn", "off"}
    Formats = {"markdown", "dbt_yaml", "listing"}
    MaxWrites = 2
    MaxStarts = 2
    None = None
INVARIANTS
    OnlyNamesakesAreSkipped
    EachIsShownOnce
    ShortSearchIsComplete
PROPERTIES
    NobodyElsesFileIsWritten
CHECK_DEADLOCK FALSE
