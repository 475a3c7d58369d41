CONSTANTS
    s1 = s1
    s2 = s2
    w1 = w1
    w2 = w2
    Sales <- OneSale
    Rows <- NoRows
    Workers <- TwoWorkers
    Targets <- EndTargets
    Overlap = TRUE
    MaxAttempts = 2
    MaxActivations = 2
SPECIFICATION FairSpec
INVARIANTS
    TypeOK
    ActivationIsCovered
PROPERTIES
    LedgerSpec
    EventsAreSettled
