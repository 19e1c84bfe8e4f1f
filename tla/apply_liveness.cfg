SPECIFICATION FairSpec
CONSTANTS
    i1 = i1  bug = bug  m1 = m1  m2 = m2  b1 = b1  b2 = b2
    r1 = r1  r2 = r2  lockFile = lockFile  otherLockFile = otherLockFile
    Issues = {i1}
    Labels = {bug}
    Milestones = {m1, m2}
    NoMilestone = NoMilestone
    Batches = {b1, b2}
    NoPlan = NoPlan
    NoApproval = NoApproval
    NoOperation = NoOperation
    Free = Free
    Runs = {r1, r2}
    LockPath <- MCLockPath
    Policies <- MCTwoBatches
    InitialIssues <- MCOneIssue
    MaxPlans = 1
    MaxApprovals = 1
    MaxEdits = 0
PROPERTIES
    EveryRunEnds
    LockIsReleased
CHECK_DEADLOCK FALSE
