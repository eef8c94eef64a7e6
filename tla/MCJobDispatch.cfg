SPECIFICATION Spec
CONSTANTS
    w1 = w1
    w2 = w2
    s1 = s1
    s2 = s2
    NoWorker = NoWorker
    NoSession = NoSession
    Worker <- Workers
    Session <- Sessions
    HbPeriod = 1
    WorkerTTL = 2
    DeadAge = 3
    LockTTL = 4
    RecPeriod = 2
    FlagTTL = 4
    MaxFaults = 1
    MaxKills = 0
SYMMETRY Symmetry
INVARIANTS
    TypeOK
    OneHolder
    NoLiveSessionRecovered
    LockOwnership
