CONSTANTS
    s1 = s1
    d1 = d1
    d2 = d2
    w1 = w1
    w2 = w2
    w3 = w3
    Sales <- OneSale
    Documents <- TwoDocuments
    Required <- OneRequired
    Workers <- ThreeWorkers
    Happens <- Delivery
SPECIFICATION Spec
INVARIANT
    DocumentsDelivered
SYMMETRY WorkerSymmetry
CHECK_DEADLOCK FALSE
