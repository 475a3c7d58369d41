SPECIFICATION FairSpec
CONSTANTS
    s1 = s1
    r1 = r1
    r2 = r2
    Sales <- OneSale
    Replicas <- TwoReplicas
    Posts = 2
INVARIANTS
    TypeOK
    OneRunAtATime
    SentOnce
PROPERTY ConcludedIsSent
