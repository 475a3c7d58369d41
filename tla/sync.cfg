CONSTANTS
    s1 = s1
    d1 = d1
    d2 = d2
    w1 = w1
    w2 = w2
    w3 = w3
    Sales <- OneSale
    Documents <- OneDocument
    Required <- OneRequired
    Workers <- TwoWorkers
    Happens <- Everything
SPECIFICATION FairSpec
INVARIANTS
    TypeOK
    QueueMatchesSale
CHECK_DEADLOCK FALSE
PROPERTY
    ApprovedIsSynced
