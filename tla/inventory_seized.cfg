SPECIFICATION Spec
CONSTANTS
    p1 = p1
    p2 = p2
    l1 = l1
    s1 = s1
    s2 = s2
    w1 = w1
    w2 = w2
    None = None
    Partners <- TwoPartners
    Lines <- OneLine
    Sales <- TwoSales
    Workers <- TwoWorkers
    Weathers <- Sheet
PROPERTY
    ImportSeizesNothing
CHECK_DEADLOCK FALSE
