CONSTANTS
    t1 = t1
    t2 = t2
    Tasks = {t1, t2}
    Workers = {w1, w2}
    NoTask = NoTask
    NoWorker = NoWorker
    Priority <- MCPriority
    MaxAttempts = 2
    MaxPending = 2
    Lease = 3
    RetryBase = 1
    SubmitSlots = 1
    Late = 1
SPECIFICATION Spec
SYMMETRY WorkerSymmetry
INVARIANTS
    Fencing
    AttemptBudget
    NoEarlyTakeover
PROPERTIES
    ImplementsContract
