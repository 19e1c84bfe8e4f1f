SPECIFICATION FairSpec
CONSTANTS
    s1 = s1  s2 = s2  s3 = s3
    Setups = {s1, s2}
    NoLock = NoLock
    NoPid = NoPid
    UserModules <- MCUserModules
    MaxAttempts = 2
    MaxSignals = 1
    MaxKills = 1
    MaxFailures = 1
INVARIANTS
    TwoSetupsExclude
    ReadyMeansInstalled
PROPERTIES
    FingerprintIsEarned
    UserDirectoryKept
    EverySetupEnds
CHECK_DEADLOCK FALSE
