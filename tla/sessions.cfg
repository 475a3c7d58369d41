SPECIFICATION Spec
CONSTANTS
    b1 = b1
    l1 = l1
    w1 = w1
    w2 = w2
    None = None
    MaxTokens = 4
    Links <- OneLink
    Browsers <- OneBrowser
    Tabs <- TwoTabs
    BrowserOf <- OfOneBrowser
    Weathers <- SomeWeathers
SYMMETRY Alike
INVARIANTS
    TypeOK
    EndedStaysEnded
    StoredIsLive
    LinkResetsOnce
PROPERTIES
    StaysSignedIn
CHECK_DEADLOCK FALSE
