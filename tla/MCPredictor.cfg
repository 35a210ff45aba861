CONSTANTS
    c1 = c1
    c2 = c2
    d = d
    p1 = p1
    p2 = p2
    s1 = s1
    s2 = s2
    d1 = d1
    d2 = d2
    None = None
    Paths = {"primary"}
    Items <- SoloItems
    Traced <- SoloTraced
    Calls <- MCCalls
    Primary <- MCPrimary
    Shadow <- SoloShadow
    EventQueueMax = 1
    EventBatchMax = 2
    QueueMax = 2
    BatchMax = 3
SPECIFICATION Spec
INVARIANTS OwnPrediction EventOnlyForAnswered
PROPERTIES OutcomesSpec
CHECK_DEADLOCK FALSE
