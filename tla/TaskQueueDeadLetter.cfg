CONSTANTS
    t1 = t1
    t2 = t2
    Tasks = {t1}
    Workers = {w1, w2}
    NoTask = NoTask
    NoWorker = NoWorker
    Priority <- MCPriority
    MaxAttempts = 2
    MaxPending = 2
    Lease = 1
    RetryBase = 1
    SubmitSlots = 1
    Late = 0
SPECIFICATION FairSpec
PROPERTIES
    ExhaustedIsBuried
