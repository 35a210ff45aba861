CONSTANTS
    v0 = v0
    v1 = v1
    v2 = v2
    r1 = r1
    r2 = r2
    None = None
    Versions = {v0, v1, v2}
    InitialVersion = v0
    Requests = {r1, r2}
    Percents = {0}
    FaultKinds <- ReloadFaults
    Trainable = {}
    Scripts <- Ops
    MaxFaults = 1
    MaxActive = 1
SPECIFICATION FairSpec
PROPERTIES ReloadingResolves
CHECK_DEADLOCK FALSE
