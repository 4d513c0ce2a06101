SPECIFICATION FairSpec
CONSTANTS
    Parents <- ShallowParents
    Slots <- ShallowSlots
    Txs <- ShallowTxs
    Block <- MCBlock
    Origin = 0
    NoHash = NoHash
    Parent <- MCParent
    Chain <- MCChain
    Slot <- MCSlot
    Boundary = {}
    Number <- MCNumber
    Tx <- MCTx
    TxsOf <- MCTxsOf
    BlockBatchSize = 2
    ReorgWindow = 2
    Gen = {g1}
    InitialTip = 3
    MaxReorgs = 1
    MaxStarts = 1
    MayDrop = FALSE
PROPERTIES
    TrailsByWindow
CHECK_DEADLOCK FALSE
