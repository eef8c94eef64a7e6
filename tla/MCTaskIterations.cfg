SPECIFICATION FairSpec
CONSTANTS
    Post = {p1, p2}
    Caller = {c1}
    HardCap = 1
    Workers = 2
    MaxSteps = 1
    Callback = {p1}
    MaxFaults = 1
CHECK_DEADLOCK FALSE
INVARIANTS
    TypeOK
    UniqueIteration
    EarlierIsCancelled
    CancelHitsLatest
PROPERTY EarlierEnds
