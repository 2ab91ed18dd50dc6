SPECIFICATION Spec
CONSTANTS
    NoCursor = NoCursor
    NoPin = NoPin
    Kinds = {"stdio", "http"}
    Tools = {t1}
    Allowlists = {{t1}}
    Cursors = {c1}
    MaxPages = 2
    SurfacedCap = 1
    QueueCap = 2
    MaxId = 3
    MaxListing = 1
    Shapes = {0, 1}
    MaxPushed = 2
    MaxUnread = 1
    MaxConns = 1
    MaxVersion = 1
INVARIANTS OutcomeTrue FreshUnlessStale
PROPERTIES OpReturns
CHECK_DEADLOCK FALSE
