SPECIFICATION MCFairSpec
CONSTANTS
    o1 = o1  o2 = o2  loader = loader  analyst = analyst
    Objects = {o1, o2}
    Unknown = Unknown
    Schema = Schema
    Fits <- MCFits
    Views <- MCViews
    Roles = {loader, analyst}
    NoRole = NoRole
    RunRole = loader
    SessionRole = analyst
    InitialGrants <- MCInitialGrants
    MaxChanges = 1
    Node = {1, 2, 3, 4}
    MaxDepth = 2
    MaxResults = 3
    Schemas = {"db.a"}
    Messages <- MCMessages
    Parents <- MCParents
INVARIANTS
    VerdictsHaveGrounds
    OneIdentity
    LadderIsRespected
    NearestOriginFound
    NearestFailureBlamed
    NoFailureGetsLost
PROPERTIES
    DiagnosisEnds
CHECK_DEADLOCK FALSE
