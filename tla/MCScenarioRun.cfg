SPECIFICATION FairSpec
CONSTANTS
    Page <- Pages
    Image = {1, 2}
    MaxAttempts = 2
    VisionCap = 1
    Ref = {e1, e2}
    MaxSteps = 3
    MaxRetries = 2
    Scenarios <- AllScenarios
    Steps <- AllSteps
CHECK_DEADLOCK FALSE
INVARIANTS
    TypeOK
    RefsAreFresh
    FailureIsTold
    ActsOnSeen
    TypedCodeOnce
    ScopeRestored
PROPERTIES
    IsRecordStream
    RunEnds
