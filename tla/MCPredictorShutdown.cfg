CONSTANTS
    c1 = c1
    c2 = c2
    d = d
    p1 = p1
    p2 = p2
    s1 = s1
    s2 = s2
    d1 = d1
    d2 = d2
    None = None
    Paths = {"primary", "shadow"}
    Items <- CopiedItems
    Traced <- CopiedItems
    Calls <- CopiedCalls
    Primary <- CopiedPrimary
    Shadow <- CopiedShadow
    EventQueueMax = 1
    EventBatchMax = 2
    QueueMax = 1
    BatchMax = 2
SPECIFICATION FairSpec
INVARIANTS DrainedAtShutdown NothingLeftPending
PROPERTIES CallsEnd ShutdownEnds
CHECK_DEADLOCK FALSE
