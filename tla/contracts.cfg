SPECIFICATION FairSpec
CONSTANTS
    w1 = w1
    p1 = p1
    p2 = p2
    MaxContracts = 2
    Workers <- OneWorker
    Replicas <- TwoReplicas
    Weathers <- SomeWeathers
INVARIANTS
    TypeOK
    SyncedWasAnnounced
    LatestIsAnnounced
PROPERTIES
    ContractIsSent
CHECK_DEADLOCK FALSE
