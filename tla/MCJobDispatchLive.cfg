SPECIFICATION FairSpec
CONSTANTS
    w1 = w1
    w2 = w2
    s1 = s1
    s2 = s2
    NoWorker = NoWorker
    NoSession = NoSession
    Worker = {w1}
    Session <- OneSession
    HbPeriod = 1
    WorkerTTL = 2
    DeadAge = 3
    LockTTL = 4
    RecPeriod = 2
    FlagTTL = 4
    MaxFaults = 2
    MaxKills = 1
PROPERTY OrphanRunEnds
