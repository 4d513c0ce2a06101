SPECIFICATION FairSpec
CONSTANTS
    p = p
    h1 = h1
    h2 = h2
    b1 = b1
    b2 = b2
    b3 = b3
    Caller = {p, h1}
    RangeCaller = {p}
    Block = {b1, b2}
    None = None
    QueueSize = 2
    MayClose = TRUE
PROPERTIES
    CallReturns
CHECK_DEADLOCK FALSE
