----------------------------- MODULE ChainIndex -----------------------------
(***************************************************************************)
(* The index as the readers of the database see it: an abstract            *)
(* specification of what the follower does to the tables.  Points are      *)
(* learnt, a run of them that continues the processed chain gets its       *)
(* heights, transactions of processed blocks are recorded, and a rollback  *)
(* takes rows away again.  Follower, with its goroutines, channels and     *)
(* node, implements this specification; RpcServer reads the tables while   *)
(* these steps are taken.                                                  *)
(***************************************************************************)
EXTENDS PointDb

(* Headers reach the database in any number. *)
Learn(blocks) ==
    /\ ~leaked
    /\ AddPoints(blocks)
    /\ UNCHANGED <<rolledBack, tx, leaked>>

(* A batch: the processed blocks are then a whole chain again. *)
Process(blocks) ==
    /\ ~leaked
    /\ blocks \subseteq Pending
    /\ \E top \in blocks : Processed \cup blocks = Chain[top]
    /\ SetPointHeights([b \in Block |-> IF b \in blocks THEN Number[b] ELSE Absent])
    /\ UNCHANGED <<rolledBack, tx, leaked>>

(* Transactions are recorded only for blocks that are processed. *)
Record(blocks) ==
    /\ ~leaked
    /\ blocks \subseteq Processed
    /\ AddTxsForBlock([b \in Block |-> IF b \in blocks THEN point[b] ELSE Absent])
    /\ UNCHANGED <<point, rolledBack>>

(* A rollback is made only when a processed block is above the slot. *)
Rollback(fromSlot) ==
    /\ ~leaked
    /\ \E b \in Processed : fromSlot < Slot[b]
    /\ ~RollbackConflict(fromSlot)
    /\ DbHandleRollback(fromSlot)
    /\ UNCHANGED leaked

(* The process is started again on the same file. *)
Reopen ==
    /\ leaked' = FALSE
    /\ UNCHANGED <<point, rolledBack, tx>>

IndexNext ==
    \/ \E blocks \in SUBSET Block : Learn(blocks) \/ Process(blocks) \/ Record(blocks)
    \/ \E b \in Block : Rollback(Slot[b])
    \/ Reopen

IndexSpec == DbInit /\ [][IndexNext]_dbVars

(* What every reader may rely on, at any moment: heights are those of the  *)
(* chain, the processed blocks are one chain without gaps, and a recorded  *)
(* transaction is in the processed block at its height.                    *)
IndexInv ==
    /\ DbTypeOK
    /\ HeightTrue
    /\ NoGaps
    /\ OneChain
    /\ TxBacked
=============================================================================
