SPECIFICATION FairSpec
CONSTANTS
    p = p
    h1 = h1
    h2 = h2
    b1 = b1
    b2 = b2
    b3 = b3
    Caller = {p, h1, h2}
    RangeCaller = {p}
    Block = {b1, b2, b3}
    None = None
    QueueSize = 1
    MayClose = TRUE
INVARIANTS
    OwnBlock
    OwnCallback
PROPERTIES
    WholeBatch
    CallReturnsWhileOpen
CHECK_DEADLOCK FALSE
