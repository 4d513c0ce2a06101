SPECIFICATION Spec
CONSTANTS
    Parents <- ByronParents
    Slots <- ByronSlots
    Txs <- ByronTxs
    Block <- MCBlock
    Origin = 0
    NoHash = NoHash
    Parent <- MCParent
    Chain <- MCChain
    Slot <- MCSlot
    Boundary = {1, 4}
    Number <- MCNumber
    Tx <- MCTx
    TxsOf <- MCTxsOf
    BlockBatchSize = 2
    ReorgWindow = 1
    Gen = {g1, g2}
    InitialTip = 6
    MaxReorgs = 0
    MaxStarts = 1
    MayDrop = FALSE
INVARIANTS
    HeightTrue
CHECK_DEADLOCK FALSE
