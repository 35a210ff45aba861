CONSTANTS
    Snapshots <- AllSnapshots
    Labels <- AllLabels
    Decisions <- AllDecisions
    Late <- LateRows
    Configs <- Windows
    Maturity = 1
    MinLabeled = 2
    MinCoverage = 66
    MinFail = 1
    MinPass = 1
    MinDecisions = 2
    MaxBuilds = 3
    MaxFaults <- FaultBounds
    MaxLate = 1
    None = None
SPECIFICATION Spec
INVARIANTS ReportedLoads LoadedIsSound TrainedOnce
PROPERTIES PublishedSpec
CHECK_DEADLOCK FALSE
