CONSTANTS
    v0 = v0
    v1 = v1
    v2 = v2
    r1 = r1
    r2 = r2
    None = None
    Versions = {v0, v1, v2}
    InitialVersion = v0
    Requests = {r1, r2}
    Percents = {0}
    FaultKinds <- RestartFaults
    Trainable = {}
    Scripts <- ReleaseScripts
    MaxFaults = 1
    MaxActive = 2
SYMMETRY Symmetry
SPECIFICATION Spec
INVARIANTS TypeOK OnlyApprovedServed DeployedHasEvidence
PROPERTIES StagedRolloutSpec EvaluatedLineage
CONSTRAINT FewReloads
CHECK_DEADLOCK FALSE
