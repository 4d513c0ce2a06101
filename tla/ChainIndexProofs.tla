-------------------------- MODULE ChainIndexProofs --------------------------
(***************************************************************************)
(* What the readers of the database rely on, proved of the abstract index  *)
(* for every block tree, batch and order of steps.  The invariant is       *)
(* inductive: heights and transactions are tied to rows, rows to the       *)
(* chain, and each step touches one of the ties.                           *)
(***************************************************************************)
EXTENDS ChainIndex, TLAPS

(* The parent of a block of a chain is on the chain, or is the origin. *)
LEMMA ChainHasParents ==
    ASSUME NEW top \in Block, NEW b \in Chain[top]
    PROVE  b \in Block /\ Parent[b] \in Chain[top] \cup {Origin}
<1>1. b \in Block
    BY TreeAssumption DEF Point
<1>2. CASE Parent[b] = Origin
    BY <1>1, <1>2
<1>3. CASE Parent[b] # Origin
  <2>1. Parent[b] \in Block
      BY <1>1, <1>3, TreeAssumption DEF Point
  <2>2. Chain[Parent[b]] = {Parent[b]} \cup Chain[Parent[Parent[b]]]
      BY <2>1, TreeAssumption
  <2>3. Chain[b] = {b} \cup Chain[Parent[b]]
      BY <1>1, TreeAssumption
  <2>4. Chain[b] \subseteq Chain[top]
      BY ChainAssumption
  <2>. QED BY <1>1, <2>2, <2>3, <2>4
<1>. QED BY <1>2, <1>3

(* A step that leaves the processed rows and the transactions alone keeps  *)
(* all of the invariant but the types.                                     *)
LEMMA SameRowsKeepIndex ==
    ASSUME IndexInv, Processed' = Processed, tx' = tx,
           \A b \in Processed : point'[b] = point[b]
    PROVE  HeightTrue' /\ NoGaps' /\ OneChain' /\ TxBacked'
<1>1. HeightTrue'
    BY DEF IndexInv, HeightTrue
<1>2. NoGaps' /\ OneChain'
    BY DEF IndexInv, NoGaps, OneChain
<1>3. TxBacked'
    BY DEF IndexInv, TxBacked
<1>. QED BY <1>1, <1>2, <1>3

(* AddPoints stores rows without a height. *)
LEMMA LearnKeeps ==
    ASSUME IndexInv, NEW blocks \in SUBSET Block, Learn(blocks)
    PROVE  IndexInv'
<1>1. DbTypeOK'
    BY DEF IndexInv, DbTypeOK, Learn, AddPoints, Heights, Unprocessed, Absent
<1>2. \A b \in Block : point'[b] = point[b] \/ (point[b] = Absent /\ point'[b] = Unprocessed)
    BY DEF Learn, AddPoints
<1>3. Processed' = Processed
    BY <1>2 DEF Processed, Absent, Unprocessed
<1>4. \A b \in Processed : point'[b] = point[b]
    BY <1>2 DEF Processed, Absent
<1>. QED BY <1>1, <1>3, <1>4, SameRowsKeepIndex DEF Learn, IndexInv

(* A batch gets its heights: the processed blocks are the chain of its     *)
(* last block, and so have no gap and no fork.                             *)
LEMMA ProcessKeeps ==
    ASSUME IndexInv, NEW blocks \in SUBSET Block, Process(blocks)
    PROVE  IndexInv'
<1>. DEFINE refs == [b \in Block |-> IF b \in blocks THEN Number[b] ELSE Absent]
<1>0. PICK top \in blocks : Processed \cup blocks = Chain[top]
    BY DEF Process
<1>1. \A b \in blocks : point'[b] = Number[b] /\ Number[b] \in Nat /\ point[b] = Unprocessed
    BY NumberAssumption DEF Process, SetPointHeights, Pending, Absent, Unprocessed
<1>2. \A b \in Block \ blocks : point'[b] = point[b]
    BY DEF Process, SetPointHeights, Absent
<1>3. DbTypeOK'
  <2>1. point' = [b \in Block |-> IF point[b] # Absent /\ refs[b] # Absent THEN refs[b] ELSE point[b]]
      BY DEF Process, SetPointHeights
  <2>2. \A b \in Block : refs[b] \in Heights
      BY NumberAssumption DEF Heights
  <2>. QED BY <2>1, <2>2 DEF IndexInv, DbTypeOK, Process, Heights
<1>4. Processed' = Chain[top]
    BY <1>0, <1>1, <1>2 DEF Processed
<1>5. Processed \subseteq Processed' /\ \A b \in Processed : point'[b] = point[b]
    BY <1>0, <1>1, <1>2, <1>4 DEF Processed, Unprocessed
<1>6. HeightTrue'
    BY <1>0, <1>1, <1>4, <1>5 DEF IndexInv, HeightTrue
<1>7. NoGaps'
    BY <1>0, <1>4, ChainHasParents DEF NoGaps
<1>8. OneChain'
    BY <1>0, <1>4, ChainAssumption DEF OneChain
<1>9. TxBacked'
    BY <1>5 DEF IndexInv, TxBacked, Process
<1>. QED BY <1>3, <1>6, <1>7, <1>8, <1>9 DEF IndexInv

(* AddTxsForBlock records the height of a processed block that holds the   *)
(* transaction, or nothing.                                                *)
LEMMA RecordKeeps ==
    ASSUME IndexInv, NEW blocks \in SUBSET Block, Record(blocks)
    PROVE  IndexInv'
<1>. DEFINE refs == [b \in Block |-> IF b \in blocks THEN point[b] ELSE Absent]
<1>1. point' = point /\ rolledBack' = rolledBack /\ Processed' = Processed
    BY DEF Record, Processed
<1>2. CASE TxConflict(refs)
  <2>1. tx' = tx /\ leaked' = TRUE
      BY <1>2 DEF Record, AddTxsForBlock
  <2>2. DbTypeOK'
      BY <1>1, <2>1 DEF IndexInv, DbTypeOK
  <2>. QED BY <1>1, <2>1, <2>2, SameRowsKeepIndex DEF IndexInv
<1>3. CASE ~TxConflict(refs)
  <2>1. /\ tx' = [t \in Tx |-> IF Holders(refs, t) = {} THEN tx[t]
                               ELSE refs[CHOOSE b \in Block : b \in Holders(refs, t)]]
        /\ leaked' = leaked
      BY <1>3 DEF Record, AddTxsForBlock
  <2>2. ASSUME NEW t \in Tx, Holders(refs, t) # {}
        PROVE  \E b \in Processed : t \in TxsOf[b] /\ point[b] = tx'[t] /\ point[b] \in Nat
    <3>1. PICK b \in Block : b = (CHOOSE c \in Block : c \in Holders(refs, t)) /\ b \in Holders(refs, t)
        BY <2>2 DEF Holders
    <3>2. b \in blocks /\ t \in TxsOf[b] /\ tx'[t] = point[b]
        BY <2>1, <2>2, <3>1 DEF Holders
    <3>3. b \in Processed /\ point[b] \in Nat
        BY <3>2 DEF Record, Processed, IndexInv, DbTypeOK, Heights, Absent, Unprocessed
    <3>. QED BY <3>2, <3>3
  <2>3. DbTypeOK'
      BY <1>1, <2>1, <2>2 DEF IndexInv, DbTypeOK
  <2>4. TxBacked'
      BY <1>1, <2>1, <2>2 DEF IndexInv, TxBacked
  <2>5. HeightTrue' /\ NoGaps' /\ OneChain'
      BY <1>1 DEF IndexInv, HeightTrue, NoGaps, OneChain
  <2>. QED BY <2>3, <2>4, <2>5 DEF IndexInv
<1>. QED BY <1>2, <1>3

(* A rollback takes away the end of the chain, and every transaction at a  *)
(* height that it takes away.                                              *)
LEMMA RollbackKeeps ==
    ASSUME IndexInv, NEW fromSlot \in Nat, Rollback(fromSlot)
    PROVE  IndexInv'
<1>. DEFINE moved == MovedRows(fromSlot)
            log == [b \in Block |-> IF b \in moved THEN point[b] ELSE rolledBack[b]]
            heights == {log[b] : b \in {c \in Block : Slot[c] >= fromSlot /\ log[c] >= 0}}
<1>1. /\ rolledBack' = log
      /\ point' = [b \in Block |-> IF b \in moved THEN Absent ELSE point[b]]
      /\ tx' = [t \in Tx |-> IF tx[t] \in heights THEN Absent ELSE tx[t]]
      /\ leaked' = leaked
    BY DEF Rollback, DbHandleRollback
<1>2. DbTypeOK'
  <2>1. log \in [Block -> Heights]
      BY DEF IndexInv, DbTypeOK
  <2>2. point' \in [Block -> Heights]
      BY <1>1 DEF IndexInv, DbTypeOK, Heights
  <2>3. tx' \in [Tx -> {Absent} \cup Nat]
      BY <1>1 DEF IndexInv, DbTypeOK
  <2>. QED BY <1>1, <2>1, <2>2, <2>3 DEF IndexInv, DbTypeOK
<1>3. \A b \in Block : b \in Processed' <=> b \in Processed /\ Slot[b] < fromSlot
    BY <1>1, SlotAssumption DEF Processed, MovedRows, Absent
<1>4. Processed' \subseteq Processed /\ \A b \in Processed' : point'[b] = point[b]
    BY <1>1, <1>3, SlotAssumption DEF Processed, MovedRows, Absent
<1>5. HeightTrue'
    BY <1>4 DEF IndexInv, HeightTrue
<1>6. OneChain'
    BY <1>4 DEF IndexInv, OneChain
<1>7. NoGaps'
  <2>. SUFFICES ASSUME NEW b \in Processed', Parent[b] # Origin
                PROVE  Parent[b] \in Processed'
      BY DEF NoGaps
  <2>1. b \in Block /\ b \in Processed /\ Slot[b] < fromSlot
      BY <1>3 DEF Processed
  <2>2. Parent[b] \in Processed /\ Parent[b] \in Block
      BY <2>1 DEF IndexInv, NoGaps, Processed
  <2>3. Parent[b] \in Chain[Parent[b]]
      BY <2>2, TreeAssumption
  <2>4. Slot[Parent[b]] <= Slot[b]
      BY <2>1, <2>2, <2>3, SlotAssumption
  <2>5. Slot[Parent[b]] < fromSlot
      BY <2>1, <2>2, <2>4, SlotAssumption
  <2>. QED BY <1>3, <2>2, <2>5
<1>8. TxBacked'
  <2>. SUFFICES ASSUME NEW t \in Tx, tx'[t] # Absent
                PROVE  \E b \in Processed' : t \in TxsOf[b] /\ point'[b] = tx'[t]
      BY DEF TxBacked
  <2>1. tx'[t] = tx[t] /\ tx[t] # Absent /\ tx[t] \notin heights
      BY <1>1
  <2>2. PICK b \in Processed : t \in TxsOf[b] /\ point[b] = tx[t]
      BY <2>1 DEF IndexInv, TxBacked
  <2>3. b \in Block /\ point[b] >= 0 /\ point[b] # Absent
      BY DEF Processed, Absent
  <2>4. b \notin moved
    <3>1. SUFFICES ASSUME b \in moved PROVE FALSE
        OBVIOUS
    <3>2. log[b] = point[b] /\ Slot[b] >= fromSlot
        BY <2>3, <3>1 DEF MovedRows
    <3>. QED BY <2>1, <2>2, <2>3, <3>2
  <2>5. b \in Processed'
      BY <1>1, <2>3, <2>4 DEF Processed
  <2>. QED BY <1>4, <2>1, <2>2, <2>5
<1>. QED BY <1>2, <1>5, <1>6, <1>7, <1>8 DEF IndexInv

(* The empty database satisfies the invariant. *)
LEMMA EmptyIndex == DbInit => IndexInv
<1>. SUFFICES ASSUME DbInit PROVE IndexInv
    OBVIOUS
<1>1. Processed = {}
    BY DEF DbInit, Processed, Absent
<1>2. DbTypeOK
    BY DEF DbInit, DbTypeOK, Heights
<1>3. TxBacked
    BY DEF DbInit, TxBacked
<1>. QED BY <1>1, <1>2, <1>3 DEF IndexInv, HeightTrue, NoGaps, OneChain

(* Every step of the index keeps the invariant. *)
LEMMA IndexStepKeeps == IndexInv /\ [IndexNext]_dbVars => IndexInv'
<1>. SUFFICES ASSUME IndexInv, [IndexNext]_dbVars PROVE IndexInv'
    OBVIOUS
<1>1. CASE UNCHANGED dbVars
  <2>1. DbTypeOK'
      BY <1>1 DEF IndexInv, DbTypeOK, dbVars
  <2>2. Processed' = Processed /\ tx' = tx /\ point' = point
      BY <1>1 DEF Processed, dbVars
  <2>. QED BY <2>1, <2>2, SameRowsKeepIndex DEF IndexInv
<1>2. CASE Reopen
  <2>1. DbTypeOK'
      BY <1>2 DEF IndexInv, DbTypeOK, Reopen
  <2>2. Processed' = Processed /\ tx' = tx /\ point' = point
      BY <1>2 DEF Processed, Reopen
  <2>. QED BY <2>1, <2>2, SameRowsKeepIndex DEF IndexInv
<1>3. ASSUME NEW blocks \in SUBSET Block, Learn(blocks) \/ Process(blocks) \/ Record(blocks)
      PROVE  IndexInv'
    BY <1>3, LearnKeeps, ProcessKeeps, RecordKeeps
<1>4. ASSUME NEW b \in Block, Rollback(Slot[b])
      PROVE  IndexInv'
    BY <1>4, RollbackKeeps, SlotAssumption
<1>. QED BY <1>1, <1>2, <1>3, <1>4 DEF IndexNext

(* At every moment the index is one chain without gaps, numbered as the    *)
(* chain is, and each recorded transaction is where the index says:        *)
(* whatever batches, rollbacks and restarts came before.                   *)
THEOREM IndexCorrect == IndexSpec => []IndexInv
<1>. QED BY EmptyIndex, IndexStepKeeps, PTL DEF IndexSpec
=============================================================================
