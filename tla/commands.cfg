SPECIFICATION TxSpec
CONSTANTS
    Handler = {h1, h2}
    Tx = {t1, t2}
    Key = {k1}
    Memo <- MCMemo
    Nothing = Nothing
    ChunkSize = 2
    MaxDescriptors = 5
    MaxRequests = 2
INVARIANTS
    OkMeansAccepted
    ConfirmedOnce
    SignsOwn
    DescriptorsReturned
    MemoKept
PROPERTIES
    RequestAnswered
CHECK_DEADLOCK FALSE
