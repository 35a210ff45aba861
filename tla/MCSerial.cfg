CONSTANTS
    v0 = v0
    v1 = v1
    v2 = v2
    r1 = r1
    r2 = r2
    None = None
    Versions = {v0, v1, v2}
    InitialVersion = v0
    Requests = {r1, r2}
    Percents <- MCPercents
    FaultKinds <- ScriptFaults
    Trainable = {v1, v2}
    Scripts <- Ops
    MaxFaults = 1
    MaxActive = 1
SYMMETRY Symmetry
SPECIFICATION Spec
PROPERTIES CompletionConsistent RolledBackIsFinal WithdrawnTakesNoTraffic
CHECK_DEADLOCK FALSE
