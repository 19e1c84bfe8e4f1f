SPECIFICATION MCSpec
CONSTANTS
    p1 = p1  p2 = p2  c1 = c1  c2 = c2
    Paths = {p1, p2}
    MaxTime = 1
    MaxEdits = 2
    Semantic = {p1, p2}
    Explicit = {{}, {p1, p2}}
    Sha = {c1, c2}
    NoCommit = NoCommit
    MaxPosts = 2
    MaxPushes = 2
    Branches <- MCBranches
    MaxScripts = 4
    MaxAdmin = 2
SYMMETRY Symmetry
INVARIANTS
    NoNeedlessBlock
    NoChangeSlipsBy
    UsableMeansHookAgrees
    CleanReviewIsClean
    ReplacedIsKept
PROPERTIES
    CoveredMeansSound
CHECK_DEADLOCK FALSE
