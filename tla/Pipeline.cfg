CONSTANTS
    NodeIds = {1, 2, 3}
    Plans <- MCPlans
    MaxTest = 2
    BatchSize = 1
    Engine = "both"
    DialTTL = 6
    Failing = {3}
    Scores = {5000, 7000}
    Hours = {6}
    MaxList = 5
SPECIFICATION MCSpec
INVARIANTS
    TagsAgree
    CutIsReported
    FairTesting
    PickSpread
    ScoreMonotone
    
    
    HarvestExact
    
CHECK_DEADLOCK FALSE
