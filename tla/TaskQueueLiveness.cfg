CONSTANTS
    t1 = t1
    t2 = t2
    Tasks = {t1, t2}
    Workers = {w1, w2}
    NoTask = NoTask
    NoWorker = NoWorker
    Priority <- MCPriority
    MaxAttempts = 2
    MaxPending = 1
    Lease = 1
    RetryBase = 1
    SubmitSlots = 1
    Late = 0
SPECIFICATION ObedientSpec
INVARIANTS
    PendingBound
PROPERTIES
    EventuallySettled
    LostRunEnds
