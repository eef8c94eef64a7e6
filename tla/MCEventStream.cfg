SPECIFICATION FairSpec
CONSTANTS
    Client = {c1}
    MaxEvents = 4
    BufferMax = 2
    MaxCrashes = 2
    MaxDrops = 1
CHECK_DEADLOCK FALSE
INVARIANTS
    TypeOK
    InOrder
    SubscriberMissesNothing
PROPERTY LateStreamEnds
