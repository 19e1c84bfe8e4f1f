SPECIFICATION Spec
CONSTANTS
    s1 = s1  s2 = s2  s3 = s3
    Setups = {s1}
    NoLock = NoLock
    NoPid = NoPid
    UserModules <- MCUserModules
    MaxAttempts = 2
    MaxSignals = 0
    MaxKills = 0
    MaxFailures = 0
PROPERTIES
    UserEnvironmentKept
CHECK_DEADLOCK FALSE
