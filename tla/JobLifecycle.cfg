CONSTANTS
    api = api
    worker = worker
    x1 = x1
    Tasks = {t1}
    Workers = {e1, e2, x1}
    Processes = {api, worker}
    Api = api
    Home <- MCHome
    NoTask = NoTask
    NoWorker = NoWorker
    MaxAttempts = 2
SPECIFICATION Spec
INVARIANTS
    ActiveIsRuns
    TablesAgree
    NeverRefused

    
