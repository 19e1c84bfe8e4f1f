SPECIFICATION MCSpec
CONSTANTS
    i1 = 1  bug = bug  m1 = m1  m2 = m2  b1 = b1  b2 = b2
    r1 = r1  r2 = r2  lockFile = lockFile  otherLockFile = otherLockFile
    Issues = {1, 2}
    feature = feature
    Labels = {bug, feature}
    Milestones = {m1, m2}
    NoMilestone = NoMilestone
    Batches = {b1}
    Stages = {b1, b2}
    NoPlan = NoPlan
    NoApproval = NoApproval
    NoOperation = NoOperation
    Free = Free
    Runs = {r1, r2}
    LockPath <- MCLockPath
    Policies <- MCChangingPolicy
    InitialIssues <- MCOneIssue
    MaxPlans = 2
    MaxApprovals = 2
    MaxEdits = 0
    Names <- MCNames
    LiveName <- MCLiveName
    NoLabel = NoLabel
    Titles = {"fix", "plain"}
    Unset = Unset
    NoSuchMilestone = NoSuchMilestone
    Governance <- MCGovernance
    Trackers <- MCTrackers
    Bodies <- MCBodies
    MaxTouches = 1
SYMMETRY Symmetry
INVARIANTS
    PlanSettles
PROPERTIES
    GovernedSpec
CHECK_DEADLOCK FALSE
