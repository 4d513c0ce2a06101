----------------------------- MODULE MCFollower -----------------------------
(***************************************************************************)
(* Instances of Follower for TLC.  Blocks are numbered 1..N, parents       *)
(* before children; the origin is 0.  A tree is given by its parents, its  *)
(* slots and its transactions, and the other constants follow from these.  *)
(***************************************************************************)
EXTENDS Follower

CONSTANTS Parents, Slots, Txs   \* sequences indexed by block

MCBlock == 1..Len(Parents)
MCParent == [b \in MCBlock |-> Parents[b]]
MCSlot == [b \in MCBlock |-> Slots[b]]
MCTxsOf == [b \in MCBlock |-> Txs[b]]
MCTx == UNION {Txs[b] : b \in MCBlock}

MCChain ==
    LET chain[p \in 0..Len(Parents)] == IF p = 0 THEN {} ELSE {p} \cup chain[Parents[p]]
    IN  chain

MCNumber ==
    LET number[b \in MCBlock] ==
          IF Parents[b] = 0 THEN 0
          ELSE number[Parents[b]]
               + (IF Parents[b] \in Boundary /\ Parents[Parents[b]] # 0 THEN 0 ELSE 1)
    IN  number

(* One chain; every block but the first has a transaction. *)
LineParents == <<0, 1, 2, 3, 4>>
LineSlots == <<1, 2, 3, 4, 5>>
LineTxs == <<{}, {"t2"}, {"t3"}, {"t4"}, {"t5"}>>

(* Two forks after block 1, 2-3 and 4-5.  Transaction t is in both; the    *)
(* slots of the forks interleave.                                          *)
ForkParents == <<0, 1, 2, 1, 4>>
ForkSlots == <<1, 2, 4, 3, 5>>
ForkTxs == <<{"u"}, {"t"}, {}, {}, {"t"}>>

(* A reorganisation of depth one, after block 2: block 3 is abandoned for  *)
(* 4-5.                                                                    *)
ShallowParents == <<0, 1, 2, 2, 4>>
ShallowSlots == <<1, 2, 3, 4, 5>>
ShallowTxs == <<{}, {}, {}, {}, {}>>

(* Two epochs: blocks 1 and 4 are boundary blocks and share the slot *)
(* of the first block of their epoch.                                      *)
ByronParents == <<0, 1, 2, 3, 4, 5>>
ByronSlots == <<0, 0, 1, 2, 2, 3>>
ByronTxs == <<{}, {"t2"}, {}, {}, {"t5"}, {}>>

(* Three epochs: boundary blocks 1, 5 and 9; the last one comes at the end *)
(* of a flush, before its successor.                                       *)
EpochParents == <<0, 1, 2, 3, 4, 5, 6, 7, 8, 9>>
EpochSlots == <<0, 0, 1, 2, 3, 3, 4, 5, 6, 6>>
EpochTxs == <<{}, {"t2"}, {}, {}, {}, {"t6"}, {}, {}, {}, {}>>
=============================================================================
