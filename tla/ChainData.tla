----------------------------- MODULE ChainData -----------------------------
(***************************************************************************)
(* The block tree the follower reads: constant data shared by every module *)
(* of the project.  A block is identified by its hash; what the node, the  *)
(* database and the processor know about a block is a function of it.      *)
(***************************************************************************)
EXTENDS Integers, FiniteSets

CONSTANTS
    Block,     \* every block of the tree, identified by its hash
    Origin,    \* the origin point, the parent of the first block
    NoHash,    \* the empty hash of a zero PointRef
    Parent,    \* Parent[b]: the block whose hash is PrevHash() of b
    Chain,     \* Chain[b]: b and its ancestors; Chain[Origin] = {}
    Slot,      \* Slot[b]: SlotNumber() of b
    Boundary,  \* the Byron epoch boundary blocks (Type() = 0)
    Number,    \* Number[b]: the height of b, counting along the chain
    Tx,        \* transaction hashes
    TxsOf      \* TxsOf[b]: the hashes of Transactions() of b

Point == Block \cup {Origin}

ASSUME HashAssumption ==
    /\ Origin \notin Block
    /\ NoHash \notin Point

ASSUME TreeAssumption ==
    /\ IsFiniteSet(Block)
    /\ Parent \in [Block -> Point]
    /\ Chain \in [Point -> SUBSET Block]
    /\ Chain[Origin] = {}
    /\ \A b \in Block : Chain[b] = {b} \cup Chain[Parent[b]]
    /\ \A b \in Block : b \notin Chain[Parent[b]]

(* A chain holds the chain of each of its blocks, and no fork. *)
ASSUME ChainAssumption ==
    /\ \A b \in Block : \A a \in Chain[b] : Chain[a] \subseteq Chain[b]
    /\ \A b \in Block : \A a, c \in Chain[b] : a \in Chain[c] \/ c \in Chain[a]

(* Slots never decrease along the chain.  Only the first block of a Byron  *)
(* epoch has the slot of its parent, the epoch's boundary block.           *)
ASSUME SlotAssumption ==
    /\ Slot \in [Block -> Nat]
    /\ \A b \in Block : \A a \in Chain[Parent[b]] :
          Slot[a] < Slot[b] \/ (Slot[a] = Slot[b] /\ a = Parent[b] /\ a \in Boundary)

(* The height the processor gives a block when it numbers the chain in one *)
(* pass: the first block is 0, a boundary block shares the height of its   *)
(* successor unless it is the first block.                                 *)
ASSUME NumberAssumption ==
    /\ Boundary \subseteq Block
    /\ Number \in [Block -> Nat]
    /\ \A b \in Block :
          Number[b] = IF Parent[b] = Origin THEN 0
                      ELSE IF Parent[b] \in Boundary /\ Parent[Parent[b]] # Origin
                           THEN Number[Parent[b]]
                           ELSE Number[Parent[b]] + 1

(* So heights never decrease along the chain, and they grow from the first *)
(* block and from every block but a boundary block.                        *)
ASSUME GrowthAssumption ==
    \A b \in Block : \A a \in Chain[Parent[b]] :
        /\ Number[a] <= Number[b]
        /\ a \notin Boundary \/ Parent[a] = Origin => Number[a] < Number[b]

(* A chain holds a transaction once. *)
ASSUME TxAssumption ==
    /\ TxsOf \in [Block -> SUBSET Tx]
    /\ \A b \in Block : \A a \in Chain[Parent[b]] : TxsOf[a] \cap TxsOf[b] = {}

(* The slot of a point; the origin point has slot 0. *)
SlotOf(p) == IF p = Origin THEN 0 ELSE Slot[p]

(* The blocks from first to last, both included, when first is an ancestor *)
(* of last: the answer to a RequestRange message.                          *)
RangeOf(first, last) == {b \in Chain[last] : first \in Chain[b]}
=============================================================================
