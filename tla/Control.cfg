CONSTANTS
    Runs = {1, 2, 3}
    Threshold = 2
    SharePercent = 100
    DropPercent = 50
    Qualities <- MCQualities
    MaxRunning = 2
    Handled <- MCHandled
    Jobs = {j1, j2, j3}
    Handlers = {h1, h2}
    MaxJobs = 1
SPECIFICATION Spec

    
    
PROPERTY SignalEnds
CHECK_DEADLOCK FALSE
