SPECIFICATION Spec
CONSTANTS
    d1 = d1
    d2 = d2
    secret = secret
    plain = plain
    None = None
    Bad = Bad
    Databases <- MCDatabases
    Containers <- MCContainers
    Files <- MCFiles
    Roles <- MCRoles
    Flags <- MCFlags
    Settings <- MCSettings
    MaxEdits = 1
    MaxProvisions = 2
CHECK_DEADLOCK FALSE
INVARIANTS
    LastWordDecides
    SkillTellsTheTruth
PROPERTY
    FlagsTakeWhatTheyList
