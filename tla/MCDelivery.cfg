\* One session of at most two records; each POST is tried twice.
SPECIFICATION FairSpec
CONSTANTS
    MaxSteps = 2
    MaxAttempts = 2
PROPERTIES
    NoAskAfterEnd
    DoneHasResult
CHECK_DEADLOCK FALSE
