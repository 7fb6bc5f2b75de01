SPECIFICATION Spec
CONSTANTS
    Kids = {a}
    MaxKeys = 2
    Lifetime = 1
    Ttl = 1
    ReadTime = 1
    MaxTime = 3
    MaxCrashes = 2
    MaxLosses = 2
    Losses <- KeyVolumes
    Missing = Missing
    Torn = Torn
    Nobody = Nobody
CHECK_DEADLOCK FALSE
INVARIANTS
    TypeOK
    RevokedWithinTtl
    TokensOutliveRestarts
    AllowedCanSign
