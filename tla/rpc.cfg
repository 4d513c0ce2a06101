SPECIFICATION RpcSpec
CONSTANTS
    Block <- MCBlock
    Origin = 0
    NoHash = NoHash
    Parent <- MCParent
    Chain <- MCChain
    Slot <- MCSlot
    Boundary = {2}
    Number <- MCNumber
    Tx = {"u", "v"}
    TxsOf <- MCTxsOf
    BlockBatchSize = 2
    ReorgWindow = 1
    Byron = {1, 2, 3}
INVARIANTS
    IndexInv
    AnswerHoldsTx
    AnswerHeight
    LatestNotBehind
    NoSpuriousMiss
    ListedConfirmed
