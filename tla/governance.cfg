SPECIFICATION Spec
CONSTANTS
    Node = {1, 2, 3}
    Kinds = {"governance", "test_verification"}
    OwnKeys = {"external_requirements", "official_docs"}
    Levels = {1, 2, 3}
    OwnWords = {"external", "migration", "scope", "provider"}
    MaxSections = 2
    MaxRounds = 4
    MaxFills = 1
    Issue = {1, 2, 3}
    Pull = {4}
    Absent = {5}
    Claims = {"scope"}
    Seeds = {1}
    Starts <- MCStarts
    MaxChanges = 2
    Title <- MCTitle
    Context <- MCContext
    Splits = {3}
    Hypothesis <- MCHypothesis
    Filters <- MCFilters
    Weights <- MCWeights
    Item = {1, 2, 3, 4}
    PullItem = {2, 3}
    Late = {4}
    PageSize = 1
    MaxEdits = 2
    Shell = {h1, h2}
    WarningAge = 1
    HardAge = 2
    Ages = {2, 3}
    MaxCommands = 4
    MaxNow = 2
    MaxVersion = 1
SYMMETRY Symmetry
INVARIANTS
    CycleReportIsRight
    FilledProposalIsConformant
    ReadyIssuesAreIndependent
    ReadyIsEarned
    NothingFallsBetween
    GateComesFirst
    EvidenceResolves
    BudgetIsExact
    UntouchedIsSeen
    AcceptedReviewIsCoherent
PROPERTIES
    ProposalKeepsText
CHECK_DEADLOCK FALSE
