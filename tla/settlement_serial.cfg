CONSTANTS
    s1 = s1
    s2 = s2
    w1 = w1
    w2 = w2
    Sales <- TwoSales
    Rows <- SecondIsRow
    Workers <- TwoWorkers
    Targets <- EndTargets
    Overlap = FALSE
    MaxAttempts = 2
    MaxActivations = 2
SPECIFICATION Spec
SYMMETRY WorkerSymmetry
INVARIANTS
    CommissionMatchesStatus
    ActivatedIsSettled
PROPERTIES
    PaidStaysPaid
    EndedSaleNotRevived
