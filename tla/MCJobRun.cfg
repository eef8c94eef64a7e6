SPECIFICATION FairSpec
CONSTANTS
    Canceller = {c1}
    Answerer = {a1}
    Admin = {k1}
    CallbackMode = {TRUE, FALSE}
    MaxSteps = 3
    MaxCrashes = 1
CHECK_DEADLOCK FALSE
INVARIANTS
    TypeOK
    OneVerdict
    ResultIsAnnounced
    WaitingCancelArrives
PROPERTIES
    OneStepAfterCancel
    SseRunEnds
    LifecycleHolds
