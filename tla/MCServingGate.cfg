CONSTANTS
    Versions = {1, 2, 3}
    Datasets = {"large", "small"}
    Rows <- GateRows
    Predicts <- GatePredicts
    Limit = 4
    MinFail = 1
    MinPass = 1
    MinPrimary = 0
    MinRecall <- RecallDelta
    MinPrecision <- PrecisionDelta
    MaxEvaluations = 2
    s1 = s1
    s2 = s2
    Scripts = {s1, s2}
    InitialChampion = 1
    MaxProcesses = 3
    Alias = Alias
    MaxUpsets = 1
    None = None
SPECIFICATION Spec
INVARIANTS VerdictIsTrue
PROPERTIES RequestsSound NewestEvaluationCounts RejectionsEarned PromotionsApproved
SYMMETRY Symmetry
CHECK_DEADLOCK FALSE
