------------------------------ MODULE PointDb ------------------------------
(***************************************************************************)
(* The SQLite database of the follower (db_sqlite.go): the tables point,   *)
(* point_rollback and tx and the queries of the Database interface.  Every *)
(* method takes the mutex mu and runs one SQL transaction, so a query is a *)
(* function of the tables and an update is one step.  A table is a         *)
(* function from its key to the stored height, or to a value that says     *)
(* that there is no row.                                                   *)
(***************************************************************************)
EXTENDS ChainData, FiniteSetsExt

CONSTANTS
    BlockBatchSize,   \* points per processing batch and per flush
    ReorgWindow       \* points kept unprocessed behind the node's tip

ASSUME BatchAssumption ==
    /\ BlockBatchSize \in Nat \ {0}
    /\ ReorgWindow \in Nat

VARIABLES
    point,       \* table point: hash -> height
    rolledBack,  \* table point_rollback: hash -> height
    tx,          \* table tx: transaction hash -> block number
    leaked       \* AddTxsForBlock left its SQL transaction open

dbVars == <<point, rolledBack, tx, leaked>>

Absent == -2        \* no row
Unprocessed == -1   \* the column default: no height yet

Heights == {Absent, Unprocessed} \cup Nat

DbTypeOK ==
    /\ point \in [Block -> Heights]
    /\ rolledBack \in [Block -> Heights]
    /\ tx \in [Tx -> {Absent} \cup Nat]
    /\ leaked \in BOOLEAN

DbInit ==
    /\ point = [b \in Block |-> Absent]
    /\ rolledBack = [b \in Block |-> Absent]
    /\ tx = [t \in Tx |-> Absent]
    /\ leaked = FALSE

-----------------------------------------------------------------------------
(* Queries *)

(* A boundary block and its successor have the same slot. *)
SameSlot(b, c) == b # c /\ b \in Chain[c] /\ Slot[b] = Slot[c]

(* The rows "ORDER BY slot" puts before c: equal slots come in the order   *)
(* of their insertion, which is open between forks.  On one chain it is    *)
(* chain order, but for the rows in early.                                 *)
Before(b, c, early) ==
    \/ Slot[b] < Slot[c]
    \/ SameSlot(b, c) /\ c \notin early
    \/ SameSlot(c, b) /\ b \in early

Pending == {b \in Block : point[b] = Unprocessed}

(* Faulty variant: the window is not cut off. *)
BatchLengthUncut == Min({Cardinality(Pending), BlockBatchSize + ReorgWindow})

(* How many points a pass works on once the window is cut off. *)
BatchLength == Min({Cardinality(Pending), BlockBatchSize + ReorgWindow}) - ReorgWindow

(* The pending points that may be the k-th of the ordered result. *)
PendingAt(k, early) ==
    {b \in Pending : /\ Cardinality({c \in Pending : Before(c, b, early)}) < k
                     /\ Cardinality({c \in Pending : Before(b, c, early)}) <= Cardinality(Pending) - k}

(* Faulty variant: the result is indexed from one instead of zero. *)
BatchEndsShifted(early) ==
    {e \in PendingAt(2, early) \X PendingAt(BatchLength + 1, early) : (e[1] = e[2]) <=> (BatchLength = 1)}

(* First and last point of the batch GetPointsForProcessing gives.  The    *)
(* points between them are read and never used.                            *)
BatchEnds(early) ==
    {e \in PendingAt(1, early) \X PendingAt(BatchLength, early) : (e[1] = e[2]) <=> (BatchLength = 1)}

(* Faulty variant: any row of the greatest height or the one below it. *)
GetHighestPointLoosely(table) ==
    {b \in Block \ Boundary : table[b] >= 0 /\ \A c \in Block : table[c] <= table[b] + 1}

(* GetHighestPoint: a row of the greatest height that is not a boundary    *)
(* block; the empty set is sql.ErrNoRows.                                  *)
GetHighestPoint(table) ==
    {b \in Block \ Boundary : table[b] >= 0 /\ \A c \in Block : table[c] <= table[b]}

(* GetBlockNumForTx: the height recorded for a transaction. *)
GetBlockNumForTx(t) == {h \in {tx[t]} : h # Absent}

(* Faulty variant: boundary blocks are not left out. *)
GetPointByHeightAnyType(h) == {b \in Block : point[b] = h}

(* GetPointByHeight: the first of these rows is taken. *)
GetPointByHeight(h) == {b \in Block \ Boundary : point[b] = h}

(* GetPointByHash: a row that is not processed yet is an error too, since  *)
(* its height -1 does not fit the uint64 of a PointRef.                    *)
GetPointByHash(b) == {c \in {b} : point[c] >= 0}

(* Faulty variant: transactions that are not recorded are not left out. *)
GetTxsUnfiltered(ts) == ts

(* GetTxs: those of the transactions that are recorded. *)
GetTxs(ts) == {t \in ts : tx[t] # Absent}

(* GetBoundaryPointBehind returns no error but sql.ErrNoRows.  It fails    *)
(* when the block has no row, and when it does find a row: the height -1   *)
(* of that row cannot be scanned into the uint64 of a PointRef.            *)
BoundaryLookupOK(b) ==
    /\ point[b] # Absent
    /\ \A c \in Pending : Slot[c] >= Slot[b]

-----------------------------------------------------------------------------
(* Updates *)

(* The last place of block b in the points of one call, 0 for none. *)
LastAt(inserted, b) == Max({0} \cup {i \in DOMAIN inserted : inserted[i] = b})

(* INSERT OR REPLACE makes a row that exists the last one inserted: its    *)
(* successor of the same slot, when it has a row, then comes before it.    *)
RowsEarly(early, inserted) ==
    {c \in Block : \E b \in Block :
        /\ SameSlot(b, c)
        /\ IF LastAt(inserted, b) = 0 /\ LastAt(inserted, c) = 0
             THEN c \in early
             ELSE /\ LastAt(inserted, c) < LastAt(inserted, b)
                  /\ point[c] # Absent \/ LastAt(inserted, c) > 0}

(* INSERT OR REPLACE that keeps the height of an existing row. *)
AddPoints(blocks) ==
    point' = [b \in Block |-> IF b \in blocks /\ point[b] = Absent THEN Unprocessed ELSE point[b]]

(* UPDATE point SET height: refs[b] is the height to set, Absent when b is *)
(* not among the updates.  A missing row stays missing.                    *)
SetPointHeights(refs) ==
    point' = [b \in Block |-> IF point[b] # Absent /\ refs[b] # Absent THEN refs[b] ELSE point[b]]

(* The blocks of a batch that hold transaction t. *)
Holders(refs, t) == {b \in Block : refs[b] # Absent /\ t \in TxsOf[b]}

(* The plain INSERT fails on a transaction that is already recorded. *)
TxConflict(refs) ==
    \E t \in Tx : /\ Holders(refs, t) # {}
                  /\ tx[t] # Absent \/ Cardinality(Holders(refs, t)) > 1

(* Faulty variant: only the transactions of the last block are kept. *)
AddTxsForBlockLast(refs) ==
    /\ tx' = [t \in Tx |-> IF \E b \in Holders(refs, t) : \A c \in Block : refs[c] <= refs[b]
                           THEN refs[CHOOSE b \in Block : b \in Holders(refs, t)] ELSE tx[t]]
    /\ UNCHANGED leaked

(* On failure the SQL transaction is neither committed nor rolled back and *)
(* keeps the write lock: every later write fails.                          *)
AddTxsForBlock(refs) ==
    IF TxConflict(refs)
      THEN leaked' = TRUE /\ UNCHANGED tx
      ELSE /\ tx' = [t \in Tx |-> IF Holders(refs, t) = {} THEN tx[t]
                                  ELSE refs[CHOOSE b \in Block : b \in Holders(refs, t)]]
           /\ UNCHANGED leaked

(* Rows HandleRollback moves: the point rolled back to is one of them. *)
MovedRows(fromSlot) == {b \in Block : point[b] # Absent /\ Slot[b] >= fromSlot}

(* The plain INSERT into point_rollback fails on a row moved before. *)
RollbackConflict(fromSlot) == \E b \in MovedRows(fromSlot) : rolledBack[b] # Absent

(* Faulty variant: the transactions are not deleted. *)
DbHandleRollbackKeepingTxs(fromSlot) ==
    /\ rolledBack' = [b \in Block |-> IF b \in MovedRows(fromSlot) THEN point[b] ELSE rolledBack[b]]
    /\ point' = [b \in Block |-> IF b \in MovedRows(fromSlot) THEN Absent ELSE point[b]]
    /\ UNCHANGED tx

(* Move the rows, then delete the transactions at any height recorded in   *)
(* point_rollback at or after the slot, by this or an earlier rollback.    *)
DbHandleRollback(fromSlot) ==
    LET moved == MovedRows(fromSlot)
        log == [b \in Block |-> IF b \in moved THEN point[b] ELSE rolledBack[b]]
        heights == {log[b] : b \in {c \in Block : Slot[c] >= fromSlot /\ log[c] >= 0}}
    IN  /\ rolledBack' = log
        /\ point' = [b \in Block |-> IF b \in moved THEN Absent ELSE point[b]]
        /\ tx' = [t \in Tx |-> IF tx[t] \in heights THEN Absent ELSE tx[t]]

-----------------------------------------------------------------------------
(* What the readers of the database rely on *)

Processed == {b \in Block : point[b] >= 0}

(* Every height that processBlocks stores is the block's height on its     *)
(* chain, across batches, crashes and restarts.                            *)
HeightTrue == \A b \in Processed : point[b] = Number[b]

(* No block is processed before its parent: the batches that are cut out   *)
(* of the point table by slot leave no gap in the chain.                   *)
NoGaps == \A b \in Processed : Parent[b] \in Processed \cup {Origin}

(* The processed blocks lie on one chain: no rollback leaves a block of    *)
(* the abandoned fork beside one of the new fork.                          *)
OneChain == \A a, b \in Processed : a \in Chain[b] \/ b \in Chain[a]

(* A recorded transaction points to the height of a processed block that   *)
(* holds it, so GetTransaction finds it there.                             *)
TxBacked ==
    \A t \in Tx : tx[t] # Absent => \E b \in Processed : t \in TxsOf[b] /\ point[b] = tx[t]
=============================================================================
