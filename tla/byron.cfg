SPECIFICATION Spec
CONSTANTS
    Parents <- EpochParents
    Slots <- EpochSlots
    Txs <- EpochTxs
    Block <- MCBlock
    Origin = 0
    NoHash = NoHash
    Parent <- MCParent
    Chain <- MCChain
    Slot <- MCSlot
    Boundary = {1, 5, 9}
    Number <- MCNumber
    Tx <- MCTx
    TxsOf <- MCTxsOf
    BlockBatchSize = 3
    ReorgWindow = 3
    Gen = {g1, g2}
    InitialTip = 10
    MaxReorgs = 0
    MaxStarts = 2
    MayDrop = TRUE
INVARIANTS
    HeightTrue
CHECK_DEADLOCK FALSE
