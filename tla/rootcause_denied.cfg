SPECIFICATION MCSpec
CONSTANTS
    o1 = o1  o2 = o2  loader = loader  analyst = analyst
    Objects = {o1, o2}
    Unknown = Unknown
    Schema = Schema
    Fits <- MCFits
    Views <- MCViews
    Roles = {loader, analyst}
    NoRole = NoRole
    RunRole = loader
    SessionRole = analyst
    InitialGrants <- MCInitialGrants
    MaxChanges = 0
    Node = {1}
    MaxDepth = 1
    MaxResults = 0
    Schemas = {}
    Messages = {}
    Parents <- MCParents
INVARIANTS
    DeniedMeansBuilt
CHECK_DEADLOCK FALSE
