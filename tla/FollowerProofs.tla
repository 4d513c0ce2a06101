--------------------------- MODULE FollowerProofs ---------------------------
(***************************************************************************)
(* Type correctness of the follower for every block tree, batch size,      *)
(* window and number of generations.                                       *)
(***************************************************************************)
EXTENDS Follower, TLAPS

(* What makes the types inductive.  A request is sent for a range that has *)
(* been read from the database, and a running consumer reads a channel     *)
(* that exists.                                                            *)
LockedHasRange == \A g \in Gen : fetcher[g] = "lock" => ends[g] \in Block \X Block

RequestHasRange == bf.st = "request" => bf.gen \in Gen /\ ends[bf.gen] \in Block \X Block

RunningHasChannel == \A g \in Gen : consumer[g].st = "run" => consumer[g].on \in Gen

TypeInv ==
    /\ TypeOK
    /\ LockedHasRange
    /\ RequestHasRange
    /\ RunningHasChannel

-----------------------------------------------------------------------------
(* Lemmas about the operators the actions are built from *)

(* The values a process starts from have their types. *)
LEMMA InitialValues ==
    /\ Absent \in Int /\ Absent < 0 /\ Absent \in Heights /\ Unprocessed \in Heights
    /\ Nat \subseteq Heights
    /\ ZeroPoint \in PointRef
    /\ NoConsumer \in ConsumerType /\ NoConsumer.st = "off"
    /\ FetchIdle \in FetchType /\ FetchIdle.st = "idle"
    /\ (CHOOSE g \in Gen : TRUE) \in Gen
    /\ <<>> \in Seq(Block)
    /\ [buf |-> <<>>, closed |-> FALSE] \in [buf : Seq(Block), closed : BOOLEAN]
    /\ NoMsg \in [type : {"none", "forward", "backward"}, point : Point, atTip : BOOLEAN]
    /\ NoMsg.type = "none"
<1>1. <<>> \in Seq(Block)
  OBVIOUS
<1>2. [buf |-> <<>>, closed |-> FALSE] \in [buf : Seq(Block), closed : BOOLEAN]
  BY <1>1
<1>3. /\ NoMsg \in [type : {"none", "forward", "backward"}, point : Point, atTip : BOOLEAN]
      /\ NoMsg.type = "none"
  BY DEF NoMsg, Point
<1> QED BY GenAssumption, <1>1, <1>2, <1>3
        DEF Absent, Unprocessed, Heights, ZeroPoint, PointRef, NoConsumer, EmptyRefs,
            FetchIdle, ConsumerType, FetchType

(* GetHighestPoint gives a point with a height, or the zero PointRef. *)
LEMMA HighestRefsType ==
    ASSUME NEW table \in [Block -> Heights], NEW h \in HighestRefs(table)
    PROVE  /\ h \in PointRef
           /\ h.block # NoHash => h.block \in Block
<1>1. CASE GetHighestPoint(table) = {}
  BY <1>1 DEF HighestRefs, ZeroPoint, PointRef
<1>2. CASE GetHighestPoint(table) # {}
  <2>1. PICK b \in GetHighestPoint(table) : h = [block |-> b, height |-> table[b]]
    BY <1>2 DEF HighestRefs
  <2>2. b \in Block /\ table[b] >= 0 /\ table[b] \in Heights
    BY <2>1 DEF GetHighestPoint
  <2>3. table[b] \in Nat
    BY <2>2 DEF Heights, Absent, Unprocessed
  <2> QED BY <2>1, <2>2, <2>3 DEF PointRef
<1> QED BY <1>1, <1>2

(* A batch begins and ends with a block of the point table. *)
LEMMA BatchEndsType == BatchEnds(early) \subseteq Block \X Block
BY DEF BatchEnds, PendingAt, Pending

(* The node answers a range request with blocks. *)
LEMMA RangeOfType == ASSUME NEW first \in Block, NEW last \in Block
                     PROVE  RangeOf(first, last) \subseteq Block
BY TreeAssumption DEF RangeOf, Point

(* SetPointHeights keeps the point table a table of heights. *)
LEMMA SetPointHeightsType ==
    ASSUME DbTypeOK, NEW refs \in [Block -> {Absent} \cup Nat], SetPointHeights(refs)
    PROVE  point' \in [Block -> Heights]
BY DEF DbTypeOK, SetPointHeights, Heights

(* AddTxsForBlock records heights, never the value for a missing row. *)
LEMMA AddTxsForBlockType ==
    ASSUME DbTypeOK, NEW refs \in [Block -> {Absent} \cup Nat], AddTxsForBlock(refs)
    PROVE  tx' \in [Tx -> {Absent} \cup Nat] /\ leaked' \in BOOLEAN
<1>1. CASE TxConflict(refs)
  BY <1>1 DEF AddTxsForBlock, DbTypeOK
<1>2. CASE ~TxConflict(refs)
  <2> DEFINE holder(t) == CHOOSE b \in Block : b \in Holders(refs, t)
  <2>1. \A t \in Tx : Holders(refs, t) # {} => holder(t) \in Block
    BY DEF Holders
  <2>2. /\ tx' = [t \in Tx |-> IF Holders(refs, t) = {} THEN tx[t] ELSE refs[holder(t)]]
        /\ leaked' = leaked
    BY <1>2 DEF AddTxsForBlock
  <2> HIDE DEF holder
  <2> QED BY <2>1, <2>2 DEF DbTypeOK
<1> QED BY <1>1, <1>2

(* Numbering a block keeps the consumer's variables in their types. *)
LEMMA NumberedType ==
    ASSUME NEW b \in Block, NEW c \in ConsumerType
    PROVE  /\ Numbered(c, b) \in ConsumerType
           /\ Numbered(c, b).st = c.st
           /\ Numbered(c, b).on = c.on
<1> USE DEF ConsumerType
<1> DEFINE hgt == IF b \in Boundary /\ c.height > 0 THEN c.height ELSE c.height + 1
           prv == IF b \in Boundary THEN c.prev ELSE b
           bnd == IF b \in Boundary THEN b ELSE c.prevBoundary
           new == [c.refs EXCEPT ![b] = c.height]
<1>1. hgt \in Nat /\ prv \in Block \cup {NoHash} /\ bnd \in Block \cup {NoHash}
  OBVIOUS
<1>2. new \in [Block -> {Absent} \cup Nat]
  OBVIOUS
<1>3. [block |-> b, height |-> c.height] \in PointRef
  BY DEF PointRef
<1>4. Numbered(c, b) = [c EXCEPT !.refs = new, !.last = [block |-> b, height |-> c.height],
                                 !.height = hgt, !.prev = prv, !.prevBoundary = bnd]
  BY Zenon DEF Numbered
<1> HIDE DEF hgt, prv, bnd, new
<1> QED BY <1>1, <1>2, <1>3, <1>4

(* A consumer that moves to another state, or to another channel. *)
LEMMA MovedType ==
    ASSUME NEW c \in ConsumerType, NEW s \in {"off", "start", "run", "done"},
           NEW k \in Gen \cup {NoHash}
    PROVE  [c EXCEPT !.st = s, !.on = k] \in ConsumerType
<1>1. [c EXCEPT !.st = s] \in ConsumerType
  BY DEF ConsumerType
<1>2. \A d \in ConsumerType : [d EXCEPT !.on = k] \in ConsumerType
  BY DEF ConsumerType
<1>3. [c EXCEPT !.st = s, !.on = k] = [[c EXCEPT !.st = s] EXCEPT !.on = k]
  OBVIOUS
<1> QED BY <1>1, <1>2, <1>3

-----------------------------------------------------------------------------
(* The initial state, and the steps *)

(* The follower starts with its types and with no goroutine. *)
LEMMA InitTypeInv == Init => TypeInv
<1> SUFFICES ASSUME Init PROVE TypeInv
  OBVIOUS
<1> USE InitialValues
<1>1. DbTypeOK
  BY DEF Init, DbInit, DbTypeOK
<1>2. ProcTypeOK
  BY DEF Init, ProcTypeOK
<1>3. TypeOK
  <2>1. nodeTip \in Point /\ view \in Point /\ reorgs \in 0..MaxReorgs /\ starts \in 0..MaxStarts
    BY BoundAssumption DEF Init, Point
  <2>2. points \in Seq(Block) /\ csMsg = NoMsg /\ status = "down"
    BY Zenon DEF Init
  <2>3. tipReached \in BOOLEAN /\ early \in SUBSET Block
    BY DEF Init
  <2> QED BY <1>1, <1>2, <2>1, <2>2, <2>3 DEF TypeOK
<1>4. LockedHasRange /\ RequestHasRange /\ RunningHasChannel
  BY DEF Init, LockedHasRange, RequestHasRange, RunningHasChannel
<1> QED BY <1>3, <1>4 DEF TypeInv

(* A process without goroutines has its types. *)
LEMMA NoGoroutinesType ==
    ASSUME NoGoroutines, highest' \in PointRef, conn' \in BOOLEAN,
           raced' \in BOOLEAN, torn' \in SUBSET Block
    PROVE  ProcTypeOK' /\ LockedHasRange' /\ RequestHasRange' /\ RunningHasChannel'
<1>1. ProcTypeOK'
  BY InitialValues DEF NoGoroutines, ProcTypeOK
<1>2. LockedHasRange' /\ RequestHasRange' /\ RunningHasChannel'
  BY InitialValues DEF NoGoroutines, LockedHasRange, RequestHasRange, RunningHasChannel
<1> QED BY <1>1, <1>2

(* The end of the process keeps the tables and resets the rest. *)
LEMMA ProcessEndsType ==
    ASSUME TypeInv, NEW how \in {"down", "panicked"}, ProcessEnds(how)
    PROVE  TypeInv'
<1>1. DbTypeOK'
  BY DEF TypeInv, TypeOK, DbTypeOK, ProcessEnds
<1>2. torn' \in SUBSET Block /\ raced' \in BOOLEAN
  BY DEF TypeInv, TypeOK, ProcTypeOK, ProcessEnds
<1>3. ProcTypeOK' /\ LockedHasRange' /\ RequestHasRange' /\ RunningHasChannel'
  BY <1>2, NoGoroutinesType, InitialValues DEF ProcessEnds
<1>4. TypeOK'
  BY <1>1, <1>3, InitialValues DEF TypeInv, TypeOK, ProcessEnds, Point, nodeVars
<1> QED BY <1>3, <1>4 DEF TypeInv

(* A step that changes neither tables nor goroutines. *)
LEMMA ClientStepType ==
    ASSUME TypeInv, UNCHANGED <<dbVars, procVars, ghostVars>>
    PROVE  DbTypeOK' /\ ProcTypeOK' /\ LockedHasRange' /\ RequestHasRange' /\ RunningHasChannel'
<1>1. DbTypeOK'
  BY DEF TypeInv, TypeOK, DbTypeOK, dbVars
<1>2. ProcTypeOK'
  BY DEF TypeInv, TypeOK, ProcTypeOK, procVars, ghostVars
<1>3. LockedHasRange' /\ RequestHasRange' /\ RunningHasChannel'
  BY DEF TypeInv, LockedHasRange, RequestHasRange, RunningHasChannel, procVars
<1> QED BY <1>1, <1>2, <1>3

(* What the node does: its tip, and the chain-sync messages it sends. *)
LEMMA NodeStepType ==
    ASSUME TypeInv,
           NodeExtends \/ NodeSwitches \/ NodeRollsForward \/ NodeRollsBackward
    PROVE  TypeInv'
<1>0. UNCHANGED <<dbVars, procVars, ghostVars>>
  BY DEF NodeExtends, NodeSwitches, NodeRollsForward, NodeRollsBackward
<1>1. DbTypeOK' /\ ProcTypeOK' /\ LockedHasRange' /\ RequestHasRange' /\ RunningHasChannel'
  BY <1>0, ClientStepType
<1>2. CASE NodeExtends
  BY <1>1, <1>2 DEF TypeInv, TypeOK, NodeExtends, syncVars, clientVars, Point
<1>3. CASE NodeSwitches
  BY <1>1, <1>3, BoundAssumption DEF TypeInv, TypeOK, NodeSwitches, syncVars, clientVars, Point
<1>4. CASE NodeRollsForward
  <2>1. PICK b \in Chain[nodeTip] : csMsg' = RollForward(b, Slot[b] = Slot[nodeTip]) /\ view' = b
    BY <1>4 DEF NodeRollsForward
  <2>2. b \in Block
    BY TreeAssumption DEF TypeInv, TypeOK
  <2> QED BY <1>1, <1>4, <2>1, <2>2
          DEF TypeInv, TypeOK, NodeRollsForward, RollForward, nodeVars, clientVars, Point
<1>5. CASE NodeRollsBackward
  BY <1>1, <1>5 DEF TypeInv, TypeOK, NodeRollsBackward, RollBackward, nodeVars, clientVars, Point
<1> QED BY <1>2, <1>3, <1>4, <1>5

(* Client.Start, with the highest point of the database. *)
LEMMA StartType == ASSUME TypeInv, Start PROVE TypeInv'
<1>1. PICK h \in HighestRefs(point) : FollowChain(h)
  BY DEF Start
<1>2. h \in PointRef /\ (h.block # NoHash => h.block \in Block)
  BY HighestRefsType DEF TypeInv, TypeOK, DbTypeOK
<1> DEFINE p == IF h.block = NoHash THEN Origin ELSE h.block
<1>3. p \in Point
  BY <1>2 DEF Point
<1>4. UNCHANGED <<dbVars, ghostVars, nodeVars, points, tipReached, early>> /\ starts' \in 0..MaxStarts
  BY BoundAssumption DEF Start, TypeInv, TypeOK
<1>5. raced' \in BOOLEAN /\ torn' \in SUBSET Block
  BY <1>4 DEF TypeInv, TypeOK, ProcTypeOK, ghostVars
<1>6. DbTypeOK'
  BY <1>4 DEF TypeInv, TypeOK, DbTypeOK, dbVars
<1>7. CASE OnNodeChain(p)
  <2>1. NewBlockProcessor(h) /\ status' = "up" /\ view' = p /\ csMsg' = RollBackward(p)
    BY <1>1, <1>7 DEF FollowChain
  <2>2. ProcTypeOK' /\ LockedHasRange' /\ RequestHasRange' /\ RunningHasChannel'
    BY <1>2, <1>5, <2>1, NoGoroutinesType DEF NewBlockProcessor
  <2> HIDE DEF p
  <2> QED BY <1>3, <1>4, <1>6, <2>1, <2>2 DEF TypeInv, TypeOK, RollBackward, nodeVars
<1>8. CASE ~OnNodeChain(p)
  <2>1. status' = "down" /\ UNCHANGED <<procVars, syncVars>>
    BY <1>1, <1>8 DEF FollowChain
  <2>2. DbTypeOK' /\ ProcTypeOK' /\ LockedHasRange' /\ RequestHasRange' /\ RunningHasChannel'
    BY <1>4, <2>1, ClientStepType
  <2> QED BY <1>4, <2>1, <2>2 DEF TypeInv, TypeOK, nodeVars, syncVars
<1> QED BY <1>7, <1>8

(* Client.Stop: only the connection changes. *)
LEMMA ConnectionDropsType == ASSUME TypeInv, ConnectionDrops PROVE TypeInv'
<1>1. DbTypeOK'
  BY DEF TypeInv, TypeOK, DbTypeOK, ConnectionDrops, dbVars
<1>2. ProcTypeOK'
  BY DEF TypeInv, TypeOK, ProcTypeOK, ConnectionDrops, ghostVars
<1>3. LockedHasRange' /\ RequestHasRange' /\ RunningHasChannel'
  BY DEF TypeInv, LockedHasRange, RequestHasRange, RunningHasChannel, ConnectionDrops
<1> QED BY <1>1, <1>2, <1>3
        DEF TypeInv, TypeOK, ConnectionDrops, nodeVars, syncVars, clientVars

(* onRollForwards buffers the header or writes the buffer to the database. *)
LEMMA OnRollForwardsType == ASSUME TypeInv, OnRollForwards PROVE TypeInv'
<1>1. Buffered \in Seq(Block)
  BY DEF TypeInv, TypeOK, OnRollForwards, Buffered
<1>2. /\ points' \in Seq(Block)
      /\ point' \in [Block -> Heights]
      /\ pc' \in {"idle", "spawned", "loop", "select", "txs", "exit"}
      /\ declined' \in BOOLEAN
  <2>1. CASE Flushes
    BY <2>1, InitialValues, ZenonT(60)
    DEF OnRollForwards, AddPoints, TryProcessBlocks, TypeInv, TypeOK, DbTypeOK, ProcTypeOK
  <2>2. CASE ~Flushes
    BY <2>2, <1>1 DEF OnRollForwards, TypeInv, TypeOK, DbTypeOK, ProcTypeOK
  <2> QED BY <2>1, <2>2
<1>3. DbTypeOK'
  BY <1>2 DEF TypeInv, TypeOK, DbTypeOK, OnRollForwards
<1>4. ProcTypeOK'
  BY <1>2 DEF TypeInv, TypeOK, ProcTypeOK, OnRollForwards, ghostVars
<1>5. LockedHasRange' /\ RequestHasRange' /\ RunningHasChannel'
  BY DEF TypeInv, LockedHasRange, RequestHasRange, RunningHasChannel, OnRollForwards
<1>6. tipReached' \in BOOLEAN /\ early' \in SUBSET Block
  BY DEF TypeInv, TypeOK, OnRollForwards, RowsEarly
<1> QED BY <1>2, <1>3, <1>4, <1>5, <1>6, InitialValues
        DEF TypeInv, TypeOK, OnRollForwards, nodeVars

(* HandleRollback moves rows and reads the new highest point. *)
LEMMA HandleRollbackType ==
    ASSUME TypeInv, NEW slot, HandleRollback(slot)
    PROVE  DbTypeOK' /\ ProcTypeOK' /\ LockedHasRange' /\ RequestHasRange' /\ RunningHasChannel'
<1>1. PICK h \in HighestRefs(point) :
        IF h.block # NoHash /\ slot < Slot[h.block]
          THEN /\ ~leaked /\ ~RollbackConflict(slot)
               /\ DbHandleRollback(slot)
               /\ \E n \in HighestRefs(point') :
                     highest' = IF n.block = NoHash THEN highest ELSE n
          ELSE UNCHANGED <<point, rolledBack, tx, highest>>
  BY DEF HandleRollback
<1>2. /\ point' \in [Block -> Heights] /\ rolledBack' \in [Block -> Heights]
      /\ tx' \in [Tx -> {Absent} \cup Nat] /\ highest' \in PointRef
  <2>1. CASE h.block # NoHash /\ slot < Slot[h.block]
    <3>1. DbHandleRollback(slot)
      BY <1>1, <2>1
    <3>2. /\ point' \in [Block -> Heights] /\ rolledBack' \in [Block -> Heights]
          /\ tx' \in [Tx -> {Absent} \cup Nat]
      BY <3>1, InitialValues DEF DbHandleRollback, TypeInv, TypeOK, DbTypeOK
    <3>3. PICK n \in HighestRefs(point') : highest' = IF n.block = NoHash THEN highest ELSE n
      BY <1>1, <2>1
    <3>4. n \in PointRef
      BY <3>2, HighestRefsType
    <3> QED BY <3>2, <3>3, <3>4 DEF TypeInv, TypeOK, ProcTypeOK
  <2>2. CASE ~(h.block # NoHash /\ slot < Slot[h.block])
    BY <1>1, <2>2 DEF TypeInv, TypeOK, DbTypeOK, ProcTypeOK
  <2> QED BY <2>1, <2>2
<1>3. DbTypeOK'
  BY <1>2 DEF HandleRollback, TypeInv, TypeOK, DbTypeOK
<1>4. ProcTypeOK'
  BY <1>2 DEF HandleRollback, TypeInv, TypeOK, ProcTypeOK
<1>5. LockedHasRange' /\ RequestHasRange' /\ RunningHasChannel'
  BY DEF TypeInv, LockedHasRange, RequestHasRange, RunningHasChannel, HandleRollback
<1> QED BY <1>3, <1>4, <1>5

(* onRollBackwards, with and without an error. *)
LEMMA OnRollBackwardsType ==
    ASSUME TypeInv, OnRollBackwards \/ OnRollBackwardsFails
    PROVE  TypeInv'
<1>1. CASE OnRollBackwards
  <2>1. DbTypeOK' /\ ProcTypeOK' /\ LockedHasRange' /\ RequestHasRange' /\ RunningHasChannel'
    BY <1>1, HandleRollbackType, ClientStepType DEF OnRollBackwards
  <2> QED BY <1>1, <2>1, InitialValues
          DEF OnRollBackwards, TypeInv, TypeOK, nodeVars, clientVars
<1>2. CASE OnRollBackwardsFails
  <2>1. DbTypeOK'
    BY <1>2 DEF TypeInv, TypeOK, DbTypeOK, OnRollBackwardsFails, dbVars
  <2>2. ProcTypeOK'
    BY <1>2 DEF TypeInv, TypeOK, ProcTypeOK, OnRollBackwardsFails, ghostVars
  <2>3. LockedHasRange' /\ RequestHasRange' /\ RunningHasChannel'
    BY <1>2 DEF TypeInv, LockedHasRange, RequestHasRange, RunningHasChannel, OnRollBackwardsFails
  <2> QED BY <1>2, <2>1, <2>2, <2>3, InitialValues
          DEF OnRollBackwardsFails, TypeInv, TypeOK, nodeVars, clientVars
<1> QED BY <1>1, <1>2

(* A step of the processor leaves the client's own variables alone. *)
LEMMA OutsideType ==
    ASSUME TypeInv, UNCHANGED <<nodeVars, syncVars, clientVars>>, DbTypeOK', ProcTypeOK',
           LockedHasRange', RequestHasRange', RunningHasChannel'
    PROVE  TypeInv'
BY DEF TypeInv, TypeOK, nodeVars, syncVars, clientVars

(* The steps of a pass of processBlocks. *)
LEMMA PassType == ASSUME TypeInv, Pass PROVE TypeInv'
<1> USE DEF TypeInv
<1>1. ASSUME NothingToProcess \/ BoundaryLookupFails \/ TakeError \/ PassEnds, Outside
      PROVE  TypeInv'
  <2>1. DbTypeOK'
    BY <1>1 DEF TypeOK, DbTypeOK, dbVars, NothingToProcess, BoundaryLookupFails, TakeError, PassEnds
  <2>2. ProcTypeOK'
    BY <1>1 DEF TypeOK, ProcTypeOK, ghostVars,
                NothingToProcess, BoundaryLookupFails, TakeError, PassEnds
  <2>3. LockedHasRange' /\ RequestHasRange' /\ RunningHasChannel'
    BY <1>1 DEF LockedHasRange, RequestHasRange, RunningHasChannel,
                NothingToProcess, BoundaryLookupFails, TakeError, PassEnds
  <2> QED BY <1>1, <2>1, <2>2, <2>3, OutsideType DEF Outside
<1>2. ASSUME NEW g \in Gen, StartBatch(g), Outside PROVE TypeInv'
  <2> DEFINE hgt == IF HighestIsSet THEN highest.height + 1 ELSE highest.height
             new == [NoConsumer EXCEPT !.st = "start", !.height = hgt, !.prev = highest.block]
  <2>1. PICK e \in BatchEnds(early) : ends' = [ends EXCEPT ![g] = e]
    BY <1>2 DEF StartBatch
  <2>2. e \in Block \X Block
    BY <2>1, BatchEndsType
  <2>3. new \in ConsumerType /\ new.st = "start"
    <3>1. hgt \in Nat /\ highest.block \in Block \cup {NoHash}
      BY DEF TypeOK, ProcTypeOK, PointRef
    <3> HIDE DEF hgt
    <3> QED BY <3>1, InitialValues DEF ConsumerType
  <2>4. consumer' = [consumer EXCEPT ![g] = new]
    BY <1>2, Zenon DEF StartBatch
  <2> HIDE DEF new
  <2>5. DbTypeOK'
    BY <1>2 DEF TypeOK, DbTypeOK, dbVars, StartBatch
  <2>6. chan' \in [Gen -> [buf : Seq(Block), closed : BOOLEAN]]
    BY <1>2, InitialValues DEF TypeOK, ProcTypeOK, StartBatch
  <2>7. ProcTypeOK'
    <3>1. consumer' \in [Gen -> ConsumerType]
      BY <2>3, <2>4 DEF TypeOK, ProcTypeOK
    <3>2. /\ cur' \in Gen /\ errChan' \in SUBSET Gen
          /\ fetcher' \in [Gen -> {"off", "lock", "wait", "failed", "close"}]
          /\ ends' \in [Gen -> (Block \X Block) \cup {<<>>}]
      BY <1>2, <2>1, <2>2 DEF TypeOK, ProcTypeOK, StartBatch
    <3> QED BY <1>2, <2>6, <3>1, <3>2 DEF TypeOK, ProcTypeOK, ghostVars, StartBatch
  <2>8. LockedHasRange' /\ RequestHasRange'
    BY <1>2, <2>1, <2>2 DEF TypeOK, ProcTypeOK, LockedHasRange, RequestHasRange, StartBatch
  <2>9. RunningHasChannel'
    BY <2>3, <2>4 DEF TypeOK, ProcTypeOK, RunningHasChannel
  <2> QED BY <1>2, <2>5, <2>7, <2>8, <2>9, OutsideType DEF Outside
<1>3. ASSUME TakeDone, Outside PROVE TypeInv'
  <2>1. consumer[cur].refs \in [Block -> {Absent} \cup Nat]
    BY DEF TypeOK, ProcTypeOK, ConsumerType
  <2>2. point' \in [Block -> Heights] /\ pc' \in {"exit", "txs"}
    BY <1>3, <2>1, SetPointHeightsType DEF TakeDone, TypeOK, DbTypeOK
  <2>3. DbTypeOK'
    BY <1>3, <2>2 DEF TakeDone, TypeOK, DbTypeOK
  <2>4. raced' \in BOOLEAN
    BY <1>3 DEF TakeDone, TypeOK, ProcTypeOK
  <2>5. ProcTypeOK'
    BY <1>3, <2>2, <2>4 DEF TakeDone, TypeOK, ProcTypeOK
  <2>6. LockedHasRange' /\ RequestHasRange' /\ RunningHasChannel'
    BY <1>3 DEF TakeDone, LockedHasRange, RequestHasRange, RunningHasChannel
  <2> QED BY <1>3, <2>3, <2>5, <2>6, OutsideType DEF Outside
<1>4. ASSUME StoreTxs, Outside PROVE TypeInv'
  <2>1. consumer[cur].refs \in [Block -> {Absent} \cup Nat] /\ consumer[cur].last \in PointRef
    BY DEF TypeOK, ProcTypeOK, ConsumerType
  <2>2. tx' \in [Tx -> {Absent} \cup Nat] /\ leaked' \in BOOLEAN
    BY <1>4, <2>1, AddTxsForBlockType DEF StoreTxs, TypeOK
  <2>3. DbTypeOK'
    BY <1>4, <2>2 DEF StoreTxs, TypeOK, DbTypeOK
  <2>4. highest' \in PointRef /\ pc' \in {"exit", "loop"} /\ torn' \in SUBSET Block
    BY <1>4, <2>1 DEF StoreTxs, TypeOK, ProcTypeOK
  <2>5. ProcTypeOK'
    BY <1>4, <2>4 DEF StoreTxs, TypeOK, ProcTypeOK
  <2>6. LockedHasRange' /\ RequestHasRange' /\ RunningHasChannel'
    BY <1>4 DEF StoreTxs, LockedHasRange, RequestHasRange, RunningHasChannel
  <2> QED BY <1>4, <2>3, <2>5, <2>6, OutsideType DEF Outside
<1> QED BY <1>1, <1>2, <1>3, <1>4 DEF Pass

(* The fetchers. *)
LEMMA FetcherType == ASSUME TypeInv, NEW g \in Gen, Fetcher(g) PROVE TypeInv'
<1> USE DEF TypeInv
<1>1. ASSUME FetchLock(g), Outside PROVE TypeInv'
  <2>1. DbTypeOK'
    BY <1>1 DEF TypeOK, DbTypeOK, dbVars, FetchLock
  <2>2. bf' \in FetchType /\ bf'.st = "request" /\ bf'.gen = g
    BY <1>1, InitialValues DEF FetchLock, FetchType
  <2>3. ProcTypeOK'
    BY <1>1, <2>2 DEF TypeOK, ProcTypeOK, ghostVars, FetchLock
  <2>4. RequestHasRange'
    BY <1>1, <2>2 DEF LockedHasRange, RequestHasRange, FetchLock
  <2>5. LockedHasRange' /\ RunningHasChannel'
    BY <1>1 DEF TypeOK, ProcTypeOK, LockedHasRange, RunningHasChannel, FetchLock
  <2> QED BY <1>1, <2>1, <2>3, <2>4, <2>5, OutsideType DEF Outside
<1>2. ASSUME FetchReportsError(g), Outside PROVE TypeInv'
  <2>1. DbTypeOK'
    BY <1>2 DEF TypeOK, DbTypeOK, dbVars, FetchReportsError
  <2>2. ProcTypeOK'
    BY <1>2 DEF TypeOK, ProcTypeOK, ghostVars, FetchReportsError
  <2>3. LockedHasRange' /\ RequestHasRange' /\ RunningHasChannel'
    BY <1>2 DEF TypeOK, ProcTypeOK, LockedHasRange, RequestHasRange, RunningHasChannel,
                FetchReportsError
  <2> QED BY <1>2, <2>1, <2>2, <2>3, OutsideType DEF Outside
<1>3. ASSUME FetchClosesChan(g), Outside PROVE TypeInv'
  <2>1. DbTypeOK'
    BY <1>3 DEF TypeOK, DbTypeOK, dbVars, FetchClosesChan
  <2>2. raced' \in BOOLEAN
    BY <1>3 DEF TypeOK, ProcTypeOK, FetchClosesChan
  <2>3. ProcTypeOK'
    BY <1>3, <2>2 DEF TypeOK, ProcTypeOK, FetchClosesChan
  <2>4. LockedHasRange' /\ RequestHasRange' /\ RunningHasChannel'
    BY <1>3 DEF TypeOK, ProcTypeOK, LockedHasRange, RequestHasRange, RunningHasChannel,
                FetchClosesChan
  <2> QED BY <1>3, <2>1, <2>3, <2>4, OutsideType DEF Outside
<1> QED BY <1>1, <1>2, <1>3 DEF Fetcher

(* The node's answer to a range request and the stream that follows it. *)
LEMMA BlockFetchType == ASSUME TypeInv, BlockFetch PROVE TypeInv'
<1> USE DEF TypeInv
<1>1. ASSUME NodeServesRange PROVE TypeInv'
  <2>1. FetchStarts
    BY <1>1 DEF NodeServesRange
  <2>2. RangeOf(ends[bf.gen][1], ends[bf.gen][2]) \subseteq Block
    BY <2>1, RangeOfType DEF FetchStarts, RequestHasRange
  <2>3. bf' \in FetchType /\ bf'.st = "stream"
    BY <2>1, <2>2 DEF FetchStarts, TypeOK, ProcTypeOK, FetchType
  <2>4. DbTypeOK'
    BY <2>1 DEF TypeOK, DbTypeOK, dbVars, FetchStarts
  <2>5. ProcTypeOK'
    BY <2>1, <2>3 DEF TypeOK, ProcTypeOK, ghostVars, FetchStarts
  <2>6. LockedHasRange' /\ RequestHasRange' /\ RunningHasChannel'
    BY <2>1, <2>3 DEF TypeOK, ProcTypeOK, LockedHasRange, RequestHasRange, RunningHasChannel,
                      FetchStarts
  <2> QED BY <1>1, <2>4, <2>5, <2>6, OutsideType DEF NodeServesRange
<1>2. ASSUME FetchRefused PROVE TypeInv'
  <2>1. FetchFails
    BY <1>2 DEF FetchRefused
  <2>2. DbTypeOK'
    BY <2>1 DEF TypeOK, DbTypeOK, dbVars, FetchFails
  <2>3. ProcTypeOK'
    BY <2>1, InitialValues DEF TypeOK, ProcTypeOK, ghostVars, FetchFails
  <2>4. LockedHasRange' /\ RequestHasRange' /\ RunningHasChannel'
    BY <2>1, InitialValues DEF TypeOK, ProcTypeOK, LockedHasRange, RequestHasRange,
                               RunningHasChannel, FetchFails
  <2> QED BY <1>2, <2>2, <2>3, <2>4, OutsideType DEF FetchRefused
<1>3. ASSUME OnBlock, Outside PROVE TypeInv'
  <2>1. PICK b \in NextOfStream : /\ chan' = [chan EXCEPT ![cur].buf = Append(@, b)]
                                  /\ bf' = [bf EXCEPT !.rest = @ \ {b}]
    BY <1>3 DEF OnBlock
  <2>2. b \in Block
    BY DEF NextOfStream, TypeOK, ProcTypeOK, FetchType
  <2>3. chan' \in [Gen -> [buf : Seq(Block), closed : BOOLEAN]]
    <3>1. Append(chan[cur].buf, b) \in Seq(Block)
      BY <2>2 DEF TypeOK, ProcTypeOK
    <3> QED BY <2>1, <3>1, ZenonT(60) DEF TypeOK, ProcTypeOK
  <2>4. bf' \in FetchType /\ bf'.st = bf.st
    BY <2>1 DEF TypeOK, ProcTypeOK, FetchType
  <2>5. raced' \in BOOLEAN
    BY <1>3 DEF OnBlock, TypeOK, ProcTypeOK
  <2>6. DbTypeOK'
    BY <1>3 DEF TypeOK, DbTypeOK, dbVars, OnBlock
  <2>7. ProcTypeOK'
    BY <1>3, <2>3, <2>4, <2>5 DEF TypeOK, ProcTypeOK, OnBlock
  <2>8. LockedHasRange' /\ RequestHasRange' /\ RunningHasChannel'
    BY <1>3, <2>4 DEF LockedHasRange, RequestHasRange, RunningHasChannel, OnBlock
  <2> QED BY <1>3, <2>6, <2>7, <2>8, OutsideType DEF Outside
<1>4. ASSUME OnBatchDone, Outside PROVE TypeInv'
  <2>1. chan' \in [Gen -> [buf : Seq(Block), closed : BOOLEAN]] /\ raced' \in BOOLEAN
    BY <1>4 DEF OnBatchDone, TypeOK, ProcTypeOK
  <2>2. DbTypeOK'
    BY <1>4 DEF TypeOK, DbTypeOK, dbVars, OnBatchDone
  <2>3. ProcTypeOK'
    BY <1>4, <2>1, InitialValues DEF TypeOK, ProcTypeOK, OnBatchDone
  <2>4. LockedHasRange' /\ RequestHasRange' /\ RunningHasChannel'
    BY <1>4, InitialValues DEF LockedHasRange, RequestHasRange, RunningHasChannel, OnBatchDone
  <2> QED BY <1>4, <2>2, <2>3, <2>4, OutsideType DEF Outside
<1> QED BY <1>1, <1>2, <1>3, <1>4 DEF BlockFetch

(* The consumers. *)
LEMMA ConsumerStepType == ASSUME TypeInv, NEW g \in Gen, Consumer(g) PROVE TypeInv'
<1> USE DEF TypeInv
<1>1. ASSUME ConsumerStarts(g), Outside PROVE TypeInv'
  <2>1. consumer' \in [Gen -> ConsumerType]
    <3> DEFINE new == [consumer[g] EXCEPT !.st = "run", !.on = cur]
    <3>1. new \in ConsumerType
      BY MovedType DEF TypeOK, ProcTypeOK
    <3>2. consumer' = [consumer EXCEPT ![g] = new]
      BY <1>1 DEF ConsumerStarts, TypeOK, ProcTypeOK
    <3> HIDE DEF new
    <3> QED BY <3>1, <3>2 DEF TypeOK, ProcTypeOK
  <2>2. DbTypeOK' /\ raced' \in BOOLEAN
    BY <1>1 DEF TypeOK, DbTypeOK, ProcTypeOK, dbVars, ConsumerStarts
  <2>3. ProcTypeOK'
    BY <1>1, <2>1, <2>2 DEF TypeOK, ProcTypeOK, ConsumerStarts
  <2>4. RunningHasChannel'
    BY <1>1 DEF TypeOK, ProcTypeOK, ConsumerType, RunningHasChannel, ConsumerStarts
  <2>5. LockedHasRange' /\ RequestHasRange'
    BY <1>1 DEF LockedHasRange, RequestHasRange, ConsumerStarts
  <2> QED BY <1>1, <2>2, <2>3, <2>4, <2>5, OutsideType DEF Outside
<1>2. ASSUME ConsumeBlock(g), Outside PROVE TypeInv'
  <2> DEFINE k == consumer[g].on
             b == Head(chan[k].buf)
  <2>1. k \in Gen /\ b \in Block /\ Tail(chan[k].buf) \in Seq(Block)
    BY <1>2 DEF ConsumeBlock, Receives, RunningHasChannel, TypeOK, ProcTypeOK
  <2>2. /\ consumer' = [consumer EXCEPT ![g] = Numbered(consumer[g], b)]
        /\ chan' = [chan EXCEPT ![k].buf = Tail(@)]
    BY <1>2 DEF ConsumeBlock
  <2>3. consumer[g] \in ConsumerType
    BY DEF TypeOK, ProcTypeOK
  <2> HIDE DEF k, b
  <2>4. consumer' \in [Gen -> ConsumerType]
    BY <2>1, <2>2, <2>3, NumberedType DEF TypeOK, ProcTypeOK
  <2>5. chan' \in [Gen -> [buf : Seq(Block), closed : BOOLEAN]]
    BY <2>1, <2>2, ZenonT(60) DEF TypeOK, ProcTypeOK
  <2>6. DbTypeOK'
    BY <1>2 DEF TypeOK, DbTypeOK, dbVars, ConsumeBlock
  <2>7. ProcTypeOK'
    BY <1>2, <2>4, <2>5 DEF TypeOK, ProcTypeOK, ghostVars, ConsumeBlock
  <2>8. RunningHasChannel'
    BY <2>1, <2>2, <2>3, NumberedType DEF TypeOK, ProcTypeOK, RunningHasChannel
  <2>9. LockedHasRange' /\ RequestHasRange'
    BY <1>2 DEF LockedHasRange, RequestHasRange, ConsumeBlock
  <2> QED BY <1>2, <2>6, <2>7, <2>8, <2>9, OutsideType DEF Outside
<1>3. ASSUME ChainBroken(g), Outside PROVE TypeInv'
  <2> DEFINE k == consumer[g].on
  <2>1. k \in Gen /\ Tail(chan[k].buf) \in Seq(Block)
    BY <1>3 DEF ChainBroken, Receives, RunningHasChannel, TypeOK, ProcTypeOK
  <2>2. chan' = [chan EXCEPT ![k].buf = Tail(@)]
    BY <1>3 DEF ChainBroken
  <2> HIDE DEF k
  <2>3. chan' \in [Gen -> [buf : Seq(Block), closed : BOOLEAN]]
    BY <2>1, <2>2, ZenonT(60) DEF TypeOK, ProcTypeOK
  <2>4. DbTypeOK'
    BY <1>3 DEF TypeOK, DbTypeOK, dbVars, ChainBroken
  <2>5. ProcTypeOK'
    BY <1>3, <2>3, InitialValues DEF TypeOK, ProcTypeOK, ghostVars, ChainBroken
  <2>6. RunningHasChannel'
    BY <1>3, InitialValues DEF TypeOK, ProcTypeOK, RunningHasChannel, ChainBroken
  <2>7. LockedHasRange' /\ RequestHasRange'
    BY <1>3 DEF LockedHasRange, RequestHasRange, ChainBroken
  <2> QED BY <1>3, <2>4, <2>5, <2>6, <2>7, OutsideType DEF Outside
<1>4. ASSUME ConsumerDone(g), Outside PROVE TypeInv'
  <2>1. consumer' \in [Gen -> ConsumerType]
    <3> DEFINE new == [consumer[g] EXCEPT !.st = "done", !.on = NoHash]
    <3>1. new \in ConsumerType
      BY MovedType DEF TypeOK, ProcTypeOK
    <3>2. consumer' = [consumer EXCEPT ![g] = new]
      BY <1>4 DEF ConsumerDone, TypeOK, ProcTypeOK
    <3> HIDE DEF new
    <3> QED BY <3>1, <3>2 DEF TypeOK, ProcTypeOK
  <2>2. DbTypeOK'
    BY <1>4 DEF TypeOK, DbTypeOK, dbVars, ConsumerDone
  <2>3. ProcTypeOK'
    BY <1>4, <2>1 DEF TypeOK, ProcTypeOK, ghostVars, ConsumerDone
  <2>4. RunningHasChannel'
    BY <1>4 DEF TypeOK, ProcTypeOK, ConsumerType, RunningHasChannel, ConsumerDone
  <2>5. LockedHasRange' /\ RequestHasRange'
    BY <1>4 DEF LockedHasRange, RequestHasRange, ConsumerDone
  <2> QED BY <1>4, <2>2, <2>3, <2>4, <2>5, OutsideType DEF Outside
<1> QED BY <1>1, <1>2, <1>3, <1>4 DEF Consumer

-----------------------------------------------------------------------------
(* Every step of the follower keeps the invariant. *)
LEMMA NextTypeInv == TypeInv /\ [Next]_vars => TypeInv'
<1> SUFFICES ASSUME TypeInv, [Next]_vars PROVE TypeInv'
  OBVIOUS
<1>1. CASE NodeExtends \/ NodeSwitches
  BY <1>1, NodeStepType
<1>2. CASE Start
  BY <1>2, StartType
<1>3. CASE Crash \/ Panic \/ AddPointsFatal
  BY <1>3, ProcessEndsType DEF Crash, Panic, AddPointsFatal
<1>4. CASE ConnectionDrops
  BY <1>4, ConnectionDropsType
<1>5. CASE ChainSync
  BY <1>3, <1>5, NodeStepType, OnRollForwardsType, OnRollBackwardsType DEF ChainSync
<1>6. CASE BlockFetch
  BY <1>6, BlockFetchType
<1>7. CASE Pass
  BY <1>7, PassType
<1>8. CASE \E g \in Gen : Fetcher(g) \/ Consumer(g)
  BY <1>8, FetcherType, ConsumerStepType
<1>9. CASE UNCHANGED vars
  <2>1. UNCHANGED <<dbVars, procVars, ghostVars>> /\ UNCHANGED <<nodeVars, syncVars, clientVars>>
    BY <1>9 DEF vars
  <2> QED BY <2>1, ClientStepType, OutsideType
<1> QED BY <1>1, <1>2, <1>3, <1>4, <1>5, <1>6, <1>7, <1>8, <1>9 DEF Next

(* The invariant holds in every behaviour of the follower. *)
THEOREM TypeInvHolds == Spec => []TypeInv
BY InitTypeInv, NextTypeInv, PTL DEF Spec

(* Every variable of the follower keeps its type, for every block tree,    *)
(* batch size, window and number of generations: the heights in the tables *)
(* of db_sqlite.go are never taken from a missing row, and no goroutine of *)
(* block_processor.go works on a range or a channel that is not there.     *)
THEOREM TypeCorrect == Spec => []TypeOK
BY TypeInvHolds, PTL DEF TypeInv
=============================================================================
