SPECIFICATION Spec
CONSTANTS
    Parents <- LineParents
    Slots <- LineSlots
    Txs <- LineTxs
    Block <- MCBlock
    Origin = 0
    NoHash = NoHash
    Parent <- MCParent
    Chain <- MCChain
    Slot <- MCSlot
    Boundary = {}
    Number <- MCNumber
    Tx <- MCTx
    TxsOf <- MCTxsOf
    BlockBatchSize = 2
    ReorgWindow = 1
    Gen = {g1}
    InitialTip = 0
    MaxReorgs = 0
    MaxStarts = 2
    MayDrop = FALSE
INVARIANTS
    TxRecorded
CHECK_DEADLOCK FALSE
