SPECIFICATION Spec
CONSTANTS
    photo = photo
    contract = contract
    d1 = d1
    d2 = d2
    f1 = f1
    f2 = f2
    f3 = f3
    w1 = w1
    w2 = w2
    None = None
    Types <- TwoTypes
    RequiredTypes <- OneType
    Documents <- TwoDocuments
    TypeOf <- SameType
    Files <- ThreeFiles
    Workers <- TwoWorkers
    Weathers <- SomeWeathers
SYMMETRY Alike
INVARIANTS
    TypeOK
    DocumentHasFile
    NoOrphanFile
    FulfilledHasDocument

    
CHECK_DEADLOCK FALSE
