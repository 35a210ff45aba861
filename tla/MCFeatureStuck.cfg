CONSTANTS
    a = a
    b = b
    c = c
    g1 = g1
    g2 = g2
    v = v
    w = w
    Null = Null
    NoOffset = NoOffset
    Samples = {a, b, c}
    ValidSamples = {a, b}
    Keys = {g1, g2}
    Values = {v, w, Null}
    Inputs <- TwoRunsOnly
    FreshGroups = FALSE
    MaxAssemblerRestarts = 1
    MaxMaterializerRestarts = 0
SPECIFICATION FairSpec
CHECK_DEADLOCK FALSE
PROPERTIES EveryUpdateCommitted
