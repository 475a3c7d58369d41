SPECIFICATION FairSpec
CONSTANTS
    r1 = r1
    w1 = w1
    w2 = w2
    Requests <- OneRequest
    Workers <- TwoWorkers
    Moves <- SomeMoves
    Weathers <- SomeWeathers
    MaxReports = 2
INVARIANTS
    TypeOK
    RequestMatchesTask
    StatusFollowsTask
    DatedIsComplete
    NoOrphanDemand
PROPERTIES
    RequestIsSent
CHECK_DEADLOCK FALSE
