------------------------- MODULE FollowerForkProofs -------------------------
(***************************************************************************)
(* The follower implements the abstract index when the node reorganises,   *)
(* as often as it likes and in the middle of a batch, until a batch has    *)
(* raced: for every tree of numbered blocks with one first block, and      *)
(* every batch size, window and number of generations.                     *)
(*                                                                         *)
(* Rows of an abandoned fork stay in the table and headers of it in the    *)
(* buffer, so a batch may be cut out of two forks.  The invariant says     *)
(* that a batch begins where the processed chain ends, or else with a      *)
(* block whose previous hash the consumer is bound to refuse.              *)
(***************************************************************************)
EXTENDS FollowerIndexProofs

(* Every block is numbered, and every fork begins after the first block. *)
IsRoot(r) == \A b \in Block : r \in Chain[b]
OneRoot == Boundary = {} /\ \E r \in Block : IsRoot(r)
Root == CHOOSE r \in Block : IsRoot(r)

(* The chain the requested range continues, the blocks numbered after it,  *)
(* and those that are in the channel.                                      *)
Base == Chain[Parent[First]]
Begun == Base \cup Batch
Sent == Begun \cup Range(Buffer)
Streaming == bf.st = "stream" /\ bf.gen = cur

(* A rollback that leaves nothing processed keeps the old highest point. *)
HighestKnown ==
    \/ IsHighest(highest)
    \/ highest.block # NoHash /\ Processed = {}

(* As long as nothing was processed the first block is on its way, and it  *)
(* is in the table once a pass reads it.                                   *)
RootKnown ==
    highest.block = NoHash =>
        /\ view = Origin \/ Root \in Rows \cup Range(points) \cup Announced
        /\ pc # "idle" => Root \in Rows

ClientInv ==
    /\ ~leaked
    /\ WholeChain
    /\ pc # "idle" => status = "up"
    /\ csMsg.type = "forward" => view = csMsg.point
    /\ status = "up" => RootKnown
    /\ status = "up" /\ pc # "txs" => HighestKnown

(* Until a batch has raced a goroutine works on its own generation, and an *)
(* error is reported before the channel is closed.                         *)
OwnChannels ==
    /\ \A g \in Gen : consumer[g].st = "run" => consumer[g].on = g
    /\ \A g \in Gen : fetcher[g] = "wait" <=> bf.st = "request" /\ bf.gen = g
    /\ \A g \in Gen : bf.st = "stream" /\ bf.gen = g => fetcher[g] = "off"
    /\ bf.st = "idle" <=> bf.gen = NoHash
    /\ fetcher[cur] = "close" /\ pc = "select" => cur \in errChan

(* The consumer continues where the blocks numbered so far end. *)
ContinuesNumbered(c) ==
    /\ Taken = {} => c.prev = NoHash /\ c.height = 0
    /\ Taken # {} => c.prev \in Taken /\ Taken = Chain[c.prev] /\ c.height = Number[c.prev] + 1

(* The batch begins where the processed chain ends. *)
Sound == Base = Processed /\ ContinuesNumbered(consumer[cur])

(* The first block of the batch does not pass the previous-hash check. *)
Doomed ==
    /\ Batch = {} /\ consumer[cur].height > 0
    /\ consumer[cur].prevBoundary = NoHash /\ consumer[cur].prev # Parent[First]

SentInOrder ==
    \A i \in 1..Len(Buffer) : Chain[Parent[Buffer[i]]] = Begun \cup {Buffer[j] : j \in 1..(i - 1)}

NumberedRight ==
    /\ \A b \in Batch : consumer[cur].refs[b] = Number[b]
    /\ Batch \cap Processed = {}
    /\ Batch # {} => /\ consumer[cur].last.block \in Batch
                     /\ consumer[cur].last.height = Number[consumer[cur].last.block]
                     /\ Begun = Chain[consumer[cur].last.block]

SentInv ==
    /\ Streaming => First \in Chain[Final] /\ Sent \subseteq Chain[Final] /\ bf.rest = Chain[Final] \ Sent
    /\ ~Streaming /\ ~chan[cur].closed => Batch = {} /\ Buffer = <<>>
    /\ chan[cur].closed =>
          /\ fetcher[cur] = "off" /\ bf.gen # cur
          /\ cur \in errChan \/ (First \in Chain[Final] /\ Sent = Chain[Final])
    /\ consumer[cur].st = "done" => chan[cur].closed /\ Buffer = <<>>

LiveBatch == (Sound \/ Doomed) /\ SentInOrder /\ NumberedRight /\ SentInv

SelectInv ==
    /\ First \in Block /\ Final \in Block
    /\ consumer[cur].st = "off" => cur \in errChan
    /\ consumer[cur].st # "off" => LiveBatch

(* Between the two SQL transactions of a batch. *)
TxsInv ==
    /\ StoredInv
    /\ consumer[cur].st = "done"
    /\ consumer[cur].last.block # NoHash /\ IsHighest(consumer[cur].last)

ForkInv ==
    /\ ClientInv
    /\ OwnChannels
    /\ pc = "select" => SelectInv
    /\ pc = "txs" => TxsInv

-----------------------------------------------------------------------------
(* Lemmas about the block tree *)

(* Without boundary blocks heights count the blocks of the chain. *)
LEMMA NumbersCount ==
    ASSUME Boundary = {}, NEW b \in Block
    PROVE  /\ Number[b] \in Nat
           /\ Parent[b] = Origin => Number[b] = 0
           /\ Parent[b] # Origin => Parent[b] \in Block /\ Number[b] = Number[Parent[b]] + 1
           /\ \A a \in Chain[Parent[b]] : Number[a] \in Nat /\ Number[a] < Number[b]
<1>1. /\ Parent[b] = Origin => Number[b] = 0
      /\ Parent[b] # Origin => Parent[b] \in Block /\ Number[b] = Number[Parent[b]] + 1
  BY NumbersGrow DEF NumberAfter
<1>2. \A a \in Chain[Parent[b]] : Number[a] \in Nat /\ Number[a] < Number[b]
  BY NumbersGrow
<1> QED BY <1>1, <1>2, NumbersGrow

(* Every chain begins with the first block. *)
LEMMA RootIsFirst ==
    ASSUME OneRoot
    PROVE  /\ Root \in Block /\ Parent[Root] = Origin
           /\ \A b \in Block : Root \in Chain[b] /\ (Parent[b] = Origin => b = Root)
<1>1. Root \in Block /\ IsRoot(Root)
  BY DEF OneRoot, Root
<1>2. Parent[Root] = Origin
  <2>1. Parent[Root] \in Point /\ Root \notin Chain[Parent[Root]]
    BY <1>1, ChainOfBlock
  <2> QED BY <1>1, <2>1 DEF IsRoot, Point
<1>3. ASSUME NEW b \in Block, Parent[b] = Origin PROVE b = Root
  BY <1>1, <1>3, ChainOfBlock, TreeAssumption DEF IsRoot
<1> QED BY <1>1, <1>2, <1>3 DEF IsRoot

(* A set of blocks that is closed under ancestors and has no fork is the   *)
(* chain of its highest block.                                             *)
LEMMA ChainTop ==
    ASSUME NEW S \in SUBSET Block, S # {}, \A b \in S : Chain[b] \subseteq S,
           \A a, b \in S : a \in Chain[b] \/ b \in Chain[a]
    PROVE  \E t \in S : S = Chain[t]
<1> DEFINE above(b) == S \ Chain[b]
           T == {above(b) : b \in S}
           R == StrictSubsetOrdering(Block)
<1>1. IsWellFoundedOn(R, FiniteSubsetsOf(Block))
  BY FS_StrictSubsetOrderingWellFounded
<1>2. T \subseteq FiniteSubsetsOf(Block) /\ T # {}
  <2>1. FiniteSubsetsOf(Block) = SUBSET Block
    BY TreeAssumption, FS_FiniteSubsetsOfFinite
  <2>2. \A b \in S : above(b) \in SUBSET Block
    OBVIOUS
  <2>3. T \subseteq SUBSET Block
    BY <2>2
  <2>4. T # {}
    OBVIOUS
  <2> QED BY <2>1, <2>3, <2>4
<1>3. PICK x \in T : \A y \in T : <<y, x>> \notin R
  <2> HIDE DEF T, R
  <2> QED BY <1>1, <1>2, WFMin
<1>4. PICK t \in S : x = above(t)
  OBVIOUS
<1>5. ASSUME NEW b \in S PROVE b \in Chain[t]
  <2>1. SUFFICES ASSUME b \notin Chain[t] PROVE FALSE
    OBVIOUS
  <2>2. t \in Chain[b] /\ t \in Block /\ b \in Block
    BY <2>1
  <2>3. Chain[t] \subseteq Chain[b] /\ b \in Chain[b]
    BY <2>2, ChainOfBlock, ChainOfPoint
  <2>4. above(b) \subseteq above(t) /\ b \in above(t) /\ b \notin above(b)
    BY <2>1, <2>3
  <2>5. above(b) \in SUBSET Block /\ above(t) \in SUBSET Block /\ above(b) # above(t)
    BY <2>4
  <2>6. <<above(b), above(t)>> \in R
    BY <2>4, <2>5 DEF StrictSubsetOrdering
  <2> QED BY <1>3, <1>4, <2>6
<1> QED BY <1>5


-----------------------------------------------------------------------------
(* What a step keeps when it leaves most of the state alone *)

(* A step of the processor that changes no row and stores nothing. *)
LEMMA ForkFrame ==
    ASSUME ForkInv, Outside, UNCHANGED <<point, leaked, highest>>,
           pc' = pc \/ (pc \notin {"idle", "txs"} /\ pc' # "txs"),
           OwnChannels', pc' = "select" => SelectInv', pc' = "txs" => TxsInv'
    PROVE  ForkInv'
<1>1. Rows' = Rows /\ Processed' = Processed /\ Announced' = Announced
  BY DEF Rows, Processed, Announced, Outside, syncVars
<1>2. UNCHANGED <<status, view, csMsg, points>>
  BY DEF Outside, syncVars, clientVars
<1>3. WholeChain' /\ HighestKnown' = HighestKnown
  BY <1>1 DEF ForkInv, ClientInv, WholeChain, HighestKnown, IsHighest
<1>4. RootKnown => RootKnown'
  BY <1>1, <1>2 DEF RootKnown
<1>5. ClientInv'
  BY <1>2, <1>3, <1>4 DEF ForkInv, ClientInv
<1> QED BY <1>5 DEF ForkInv

(* A step that neither numbers nor delivers a block of the current batch   *)
(* leaves the stream to look at.                                           *)
LEMMA ContentsSame ==
    ASSUME Processed' = Processed, UNCHANGED <<cur, ends>>, chan'[cur].buf = chan[cur].buf,
           consumer'[cur].refs = consumer[cur].refs, consumer'[cur].last = consumer[cur].last,
           consumer'[cur].prev = consumer[cur].prev, consumer'[cur].height = consumer[cur].height,
           consumer'[cur].prevBoundary = consumer[cur].prevBoundary
    PROVE  /\ Batch' = Batch /\ Buffer' = Buffer /\ First' = First /\ Final' = Final
           /\ Sent' = Sent
           /\ LiveBatch /\ SentInv' => LiveBatch'
<1>1. Batch' = Batch /\ Buffer' = Buffer /\ First' = First /\ Final' = Final
  BY DEF Batch, Buffer, First, Final
<1>2. Base' = Base /\ Begun' = Begun /\ Sent' = Sent /\ Taken' = Taken
  BY <1>1 DEF Base, Begun, Sent, Taken
<1>3. Sound \/ Doomed => Sound' \/ Doomed'
  BY <1>1, <1>2 DEF Sound, Doomed, ContinuesNumbered
<1>4. SentInOrder => SentInOrder'
  BY <1>1, <1>2 DEF SentInOrder
<1>5. NumberedRight => NumberedRight'
  BY <1>1, <1>2 DEF NumberedRight
<1> QED BY <1>1, <1>2, <1>3, <1>4, <1>5 DEF LiveBatch

(* A step that does not touch the current batch at all. *)
LEMMA BatchSame ==
    ASSUME SelectInv, Processed' = Processed, UNCHANGED <<cur, ends>>,
           consumer'[cur] = consumer[cur], chan'[cur] = chan[cur],
           Streaming' <=> Streaming, Streaming => bf'.rest = bf.rest,
           chan[cur].closed /\ consumer[cur].st # "off" => bf'.gen # cur /\ fetcher'[cur] = "off",
           cur \in errChan => cur \in errChan'
    PROVE  SelectInv'
<1>1. /\ Batch' = Batch /\ Buffer' = Buffer /\ First' = First /\ Final' = Final /\ Sent' = Sent
      /\ LiveBatch /\ SentInv' => LiveBatch'
  BY ContentsSame
<1>2. consumer[cur].st # "off" /\ SentInv => SentInv'
  BY <1>1 DEF SentInv
<1> QED BY <1>1, <1>2 DEF SelectInv, LiveBatch

(* A step that leaves the finished batch alone. *)
LEMMA TxsSame ==
    ASSUME TxsInv, UNCHANGED <<point, tx, cur>>, consumer'[cur] = consumer[cur]
    PROVE  TxsInv'
<1>1. Batch' = Batch /\ Processed' = Processed /\ consumer[cur]' = consumer[cur]
  BY DEF Batch, Processed
<1>2. StoredInv'
  BY <1>1 DEF TxsInv, StoredInv
<1> QED BY <1>1, <1>2 DEF TxsInv, IsHighest

(* A step outside the processor, or one that only adds rows. *)
LEMMA ProcessorSame ==
    ASSUME ForkInv, Processed' = Processed, UNCHANGED tx,
           \A b \in Processed : point'[b] = point[b],
           UNCHANGED <<cur, chan, fetcher, ends, errChan, consumer, bf>>,
           pc' = pc \/ pc' \notin {"select", "txs"}
    PROVE  OwnChannels' /\ (pc' = "select" => SelectInv') /\ (pc' = "txs" => TxsInv')
<1>1. OwnChannels'
  BY DEF ForkInv, OwnChannels
<1>2. ASSUME pc' = "select" PROVE SelectInv'
  <2>1. SelectInv
    BY <1>2 DEF ForkInv
  <2>2. Streaming' = Streaming
    BY DEF Streaming
  <2>3. chan[cur].closed /\ consumer[cur].st # "off" => bf.gen # cur /\ fetcher[cur] = "off"
    BY <2>1 DEF SelectInv, LiveBatch, SentInv
  <2> QED BY <2>1, <2>2, <2>3, BatchSame
<1>3. ASSUME pc' = "txs" PROVE TxsInv'
  <2>1. TxsInv
    BY <1>3 DEF ForkInv
  <2>2. Batch' = Batch
    BY DEF Batch
  <2> QED BY <2>1, <2>2 DEF TxsInv, StoredInv, IsHighest
<1> QED BY <1>1, <1>2, <1>3

-----------------------------------------------------------------------------
(* The node, the connection and the process *)

(* The node's chain, its messages and the connection. *)
LEMMA NodeForks ==
    ASSUME OneRoot, TypeInv, ForkInv,
           NodeExtends \/ NodeSwitches \/ NodeRollsForward \/ NodeRollsBackward \/ ConnectionDrops
    PROVE  ForkInv' /\ UNCHANGED dbVars
<1>1. /\ UNCHANGED dbVars /\ UNCHANGED <<point, rolledBack, tx, leaked>>
      /\ UNCHANGED <<pc, highest, cur, chan, fetcher, ends, errChan, consumer, bf>>
      /\ UNCHANGED <<status, points>>
  BY DEF NodeExtends, NodeSwitches, NodeRollsForward, NodeRollsBackward, ConnectionDrops,
         dbVars, procVars, clientVars
<1>2. Processed' = Processed /\ Rows' = Rows
  BY <1>1 DEF Processed, Rows
<1>3. OwnChannels' /\ (pc' = "select" => SelectInv') /\ (pc' = "txs" => TxsInv')
  BY <1>1, <1>2, ProcessorSame
<1>4. WholeChain' /\ HighestKnown' = HighestKnown
  BY <1>1, <1>2 DEF ForkInv, ClientInv, WholeChain, HighestKnown, IsHighest
<1>5. /\ csMsg'.type = "forward" => view' = csMsg'.point
      /\ status = "up" => RootKnown'
  <2>1. CASE NodeExtends \/ NodeSwitches \/ ConnectionDrops
    <3>1. UNCHANGED <<view, csMsg>> /\ Announced' = Announced
      BY <2>1 DEF NodeExtends, NodeSwitches, ConnectionDrops, syncVars, Announced
    <3> QED BY <1>1, <1>2, <3>1 DEF ForkInv, ClientInv, RootKnown
  <2>2. CASE NodeRollsForward
    <3>1. PICK b \in Chain[nodeTip] : /\ Parent[b] = view
                                      /\ csMsg' = RollForward(b, Slot[b] = Slot[nodeTip])
                                      /\ view' = b
      BY <2>2 DEF NodeRollsForward
    <3>2. b \in Block
      BY ChainOfPoint DEF TypeInv, TypeOK
    <3>3. csMsg'.point = b /\ Announced = {} /\ Announced' = {b}
      BY <2>2, <3>1 DEF NodeRollsForward, NoMsg, RollForward, Announced
    <3>4. view = Origin => b = Root
      BY <3>1, <3>2, RootIsFirst
    <3> QED BY <1>1, <1>2, <3>1, <3>3, <3>4 DEF ForkInv, ClientInv, RootKnown
  <2>3. CASE NodeRollsBackward
    <3>1. csMsg'.type = "backward" /\ Announced = {} /\ Announced' = {} /\ view # Origin
      BY <2>3 DEF NodeRollsBackward, NoMsg, RollBackward, Announced, OnNodeChain
    <3> QED BY <1>1, <1>2, <3>1 DEF ForkInv, ClientInv, RootKnown
  <2> QED BY <2>1, <2>2, <2>3
<1>6. ClientInv'
  BY <1>1, <1>4, <1>5 DEF ForkInv, ClientInv
<1> QED BY <1>1, <1>3, <1>6 DEF ForkInv

(* A process without goroutines has no channel in use. *)
LEMMA NoGoroutinesForks ==
    ASSUME NoGoroutines
    PROVE  OwnChannels' /\ pc' = "idle"
BY InitialValues, GenAssumption DEF NoGoroutines, OwnChannels, FetchIdle

(* The process ends: the tables stay. *)
LEMMA ProcessEndsForks ==
    ASSUME TypeInv, ForkInv, NEW how \in {"down", "panicked"}, ProcessEnds(how)
    PROVE  ForkInv' /\ UNCHANGED dbVars
<1>1. UNCHANGED dbVars /\ UNCHANGED <<point, leaked>>
  BY DEF ProcessEnds, ForkInv, ClientInv, TypeInv, TypeOK, DbTypeOK, dbVars
<1>2. Processed' = Processed
  BY <1>1 DEF Processed
<1>3. status' # "up" /\ csMsg'.type # "forward" /\ OwnChannels' /\ pc' = "idle"
  BY NoGoroutinesForks DEF ProcessEnds, NoMsg
<1>4. ClientInv'
  BY <1>1, <1>2, <1>3 DEF ForkInv, ClientInv, WholeChain
<1> QED BY <1>1, <1>3, <1>4 DEF ForkInv

(* The process starts at the end of the processed chain, if the node still *)
(* has it.                                                                 *)
LEMMA StartForks ==
    ASSUME OneRoot, TypeInv, IndexInv, ForkInv, Start
    PROVE  ForkInv' /\ UNCHANGED dbVars
<1>1. PICK h \in HighestRefs(point) : FollowChain(h)
  BY DEF Start
<1>2. IsHighest(h)
  BY HighestFound DEF IndexInv, ForkInv, ClientInv, OneRoot
<1>3. /\ UNCHANGED dbVars /\ UNCHANGED <<point, rolledBack, tx, leaked, points>>
      /\ status # "up" /\ pc = "idle"
  BY DEF Start, dbVars, ForkInv, ClientInv
<1>4. Processed' = Processed /\ WholeChain'
  BY <1>3 DEF Processed, WholeChain, ForkInv, ClientInv
<1> DEFINE p == IF h.block = NoHash THEN Origin ELSE h.block
<1>5. CASE OnNodeChain(p)
  <2>1. /\ NewBlockProcessor(h)
        /\ status' = "up" /\ view' = p /\ csMsg' = RollBackward(p)
    BY <1>1, <1>5 DEF FollowChain
  <2>2. OwnChannels' /\ pc' = "idle" /\ highest' = h
    BY <2>1, NoGoroutinesForks DEF NewBlockProcessor
  <2>3. csMsg'.type = "backward" /\ (h.block = NoHash => view' = Origin)
    BY <2>1 DEF RollBackward
  <2>4. RootKnown' /\ HighestKnown'
    BY <1>2, <1>4, <2>2, <2>3 DEF RootKnown, HighestKnown, IsHighest
  <2>5. ClientInv'
    BY <1>3, <1>4, <2>2, <2>3, <2>4 DEF ForkInv, ClientInv
  <2> QED BY <1>3, <2>2, <2>5 DEF ForkInv
<1>6. CASE ~OnNodeChain(p)
  <2>1. status' = "down" /\ UNCHANGED <<procVars, syncVars>>
    BY <1>1, <1>6 DEF FollowChain
  <2>2. OwnChannels' /\ pc' = "idle" /\ UNCHANGED <<view, csMsg>>
    BY <1>3, <2>1 DEF ForkInv, OwnChannels, procVars, syncVars
  <2>3. ClientInv'
    BY <1>3, <1>4, <2>1, <2>2 DEF ForkInv, ClientInv
  <2> QED BY <1>3, <2>2, <2>3 DEF ForkInv
<1> QED BY <1>5, <1>6

-----------------------------------------------------------------------------
(* Chain-sync callbacks *)

(* A header is buffered, or the buffer goes to the table and a pass is     *)
(* triggered.                                                              *)
LEMMA OnRollForwardsForks ==
    ASSUME OneRoot, TypeInv, ForkInv, OnRollForwards
    PROVE  ForkInv' /\ [IndexNext]_dbVars
<1>1. /\ UNCHANGED <<highest, cur, chan, fetcher, ends, errChan, consumer, bf>>
      /\ UNCHANGED <<rolledBack, tx, leaked, view, status>>
      /\ status = "up" /\ csMsg.type = "forward" /\ csMsg' = NoMsg
  BY DEF OnRollForwards
<1>2. csMsg.point \in Block /\ points \in Seq(Block) /\ Announced = {csMsg.point}
  BY <1>1 DEF TypeInv, TypeOK, Announced
<1>3. Range(Buffered) = Range(points) \cup Announced
  BY <1>2, RangeOfAppend DEF Buffered
<1>4. \/ points' = Buffered /\ point' = point /\ pc' = pc
      \/ /\ points' = <<>> /\ AddPoints(Range(Buffered))
         /\ pc' = pc \/ (pc = "idle" /\ pc' = "spawned")
  BY DEF OnRollForwards, TryProcessBlocks
<1>5. /\ Rows' \cup Range(points') = Rows \cup Range(Buffered)
      /\ pc' = pc \/ Rows' = Rows \cup Range(Buffered)
      /\ Rows \subseteq Rows'
      /\ Processed' = Processed /\ \A b \in Processed : point'[b] = point[b]
      /\ [IndexNext]_dbVars
  <2>1. CASE points' = Buffered /\ point' = point /\ pc' = pc
    BY <1>1, <2>1 DEF Rows, Processed, dbVars
  <2>2. CASE points' = <<>> /\ AddPoints(Range(Buffered))
    <3>0. Range(points) \subseteq Block
      BY <1>2 DEF Range
    <3>1. Range(Buffered) \subseteq Block
      BY <1>2, <1>3, <3>0
    <3>2. Rows' = Rows \cup Range(Buffered) /\ Processed' = Processed
      BY <2>2, <3>1 DEF AddPoints, Rows, Processed, Absent, Unprocessed
    <3>3. \A b \in Processed : point'[b] = point[b]
      BY <2>2 DEF AddPoints, Processed, Absent
    <3>4. Learn(Range(Buffered))
      BY <1>1, <2>2 DEF Learn, ForkInv, ClientInv
    <3> QED BY <2>2, <3>1, <3>2, <3>3, <3>4, RangeOfEmpty DEF IndexNext
  <2> QED BY <1>4, <2>1, <2>2
<1>6. OwnChannels' /\ (pc' = "select" => SelectInv') /\ (pc' = "txs" => TxsInv')
  <2>1. pc' = pc \/ pc' \notin {"select", "txs"}
    BY <1>4
  <2> QED BY <1>1, <1>5, <2>1, ProcessorSame
<1>7. RootKnown'
  <2>1. SUFFICES ASSUME highest.block = NoHash
                 PROVE  /\ Root \in Rows' \cup Range(points')
                        /\ pc' # "idle" => Root \in Rows'
    BY <1>1 DEF RootKnown
  <2>2. view = csMsg.point /\ RootKnown
    BY <1>1 DEF ForkInv, ClientInv
  <2>3. view # Origin
    BY <1>2, <2>2, HashAssumption
  <2>4. Root \in Rows \cup Range(Buffered)
    BY <1>3, <2>1, <2>2, <2>3 DEF RootKnown
  <2> QED BY <1>5, <2>1, <2>2, <2>4 DEF RootKnown
<1>8. WholeChain' /\ HighestKnown' = HighestKnown /\ csMsg'.type # "forward"
  BY <1>1, <1>5 DEF ForkInv, ClientInv, WholeChain, HighestKnown, IsHighest, NoMsg
<1>9. ClientInv'
  BY <1>1, <1>4, <1>7, <1>8 DEF ForkInv, ClientInv
<1> QED BY <1>5, <1>6, <1>9 DEF ForkInv

(* What a rollback leaves of the processed chain is a chain again, or      *)
(* nothing.                                                                *)
LEMMA RollbackLeavesChain ==
    ASSUME IndexInv, WholeChain, NEW fromSlot \in Nat, Rollback(fromSlot)
    PROVE  WholeChain'
<1>1. \A b \in Block : b \in Processed' <=> b \in Processed /\ Slot[b] < fromSlot
  BY SlotAssumption DEF Rollback, DbHandleRollback, Processed, MovedRows, Absent
<1>2. Processed' \subseteq Block
  BY DEF Processed
<1>3. ASSUME NEW b \in Processed', NEW a \in Chain[b] PROVE a \in Processed'
  <2>1. b \in Block /\ b \in Processed /\ a \in Block /\ a \in Processed
    BY <1>1, <1>2, ProcessedClosed DEF Processed
  <2>2. Slot[a] <= Slot[b]
    <3>1. CASE a = b
      BY <2>1, <3>1, SlotAssumption
    <3>2. CASE a # b
      BY <2>1, <3>2, BelowParent, SlotAssumption
    <3> QED BY <3>1, <3>2
  <2> QED BY <1>1, <2>1, <2>2, SlotAssumption
<1>4. \A a, b \in Processed' : a \in Chain[b] \/ b \in Chain[a]
  BY <1>1, <1>2 DEF IndexInv, OneChain
<1>5. CASE Processed' = {}
  BY <1>5 DEF WholeChain
<1>6. CASE Processed' # {}
  <2>1. \E t \in Processed' : Processed' = Chain[t]
    BY <1>2, <1>3, <1>4, <1>6, ChainTop
  <2> QED BY <1>2, <2>1 DEF WholeChain
<1> QED BY <1>5, <1>6

(* The highest point after a rollback is the end of what is left; with     *)
(* nothing left the old one is kept.                                       *)
LEMMA HighestAfter ==
    ASSUME Boundary = {}, DbTypeOK', HeightTrue', WholeChain', NEW n \in HighestRefs(point')
    PROVE  IF n.block = NoHash THEN Processed' = {}
           ELSE n.block \in Processed' /\ Processed' = Chain[n.block] /\ n.height = Number[n.block]
<1>1. CASE Processed' = {}
  <2>1. \A b \in Block : ~(point'[b] >= 0)
    BY <1>1 DEF Processed
  <2>2. n = ZeroPoint
    BY <2>1, HighestOfNone
  <2> QED BY <1>1, <2>2 DEF ZeroPoint
<1>2. CASE Processed' # {}
  <2>1. PICK t \in Block : Processed' = Chain[t]
    BY <1>2 DEF WholeChain
  <2>2. \A b \in Block : point'[b] >= 0 <=> b \in Chain[t]
    BY <2>1 DEF Processed
  <2>3. \A b \in Chain[t] : point'[b] = Number[b]
    BY <2>1 DEF HeightTrue
  <2>4. point' \in [Block -> Heights]
    BY DEF DbTypeOK
  <2>5. HighestRefs(point') = {[block |-> t, height |-> Number[t]]}
    BY <2>2, <2>3, <2>4, HighestOfChain
  <2>6. t # NoHash /\ t \in Processed'
    BY <2>1, ChainOfBlock, HashAssumption DEF Point
  <2> QED BY <2>1, <2>5, <2>6
<1> QED BY <1>1, <1>2

(* The rollback waits for the pass to end; it takes away the end of the    *)
(* processed chain and moves the highest point back.                       *)
LEMMA OnRollBackwardsForks ==
    ASSUME OneRoot, TypeInv, IndexInv, ForkInv, OnRollBackwards
    PROVE  ForkInv' /\ [IndexNext]_dbVars
<1> DEFINE slot == SlotOf(csMsg.point)
<1>1. /\ status = "up" /\ csMsg.type = "backward" /\ csMsg' = NoMsg
      /\ UNCHANGED <<view, status, points>>
  BY DEF OnRollBackwards, clientVars
<1>2. Announced = {} /\ Announced' = {} /\ csMsg'.type # "forward"
  BY <1>1 DEF Announced, NoMsg
<1>3. CASE UNCHANGED <<point, rolledBack, tx, leaked, highest, pc>> /\
           UNCHANGED <<cur, chan, fetcher, ends, errChan, consumer, bf>>
  <2>1. Processed' = Processed /\ Rows' = Rows
    BY <1>3 DEF Processed, Rows
  <2>2. OwnChannels' /\ (pc' = "select" => SelectInv') /\ (pc' = "txs" => TxsInv')
    BY <1>3, <2>1, ProcessorSame
  <2>3. WholeChain' /\ HighestKnown' = HighestKnown /\ RootKnown' = RootKnown
    BY <1>1, <1>2, <1>3, <2>1 DEF ForkInv, ClientInv, WholeChain, HighestKnown, IsHighest, RootKnown
  <2>4. ClientInv'
    BY <1>1, <1>2, <1>3, <2>3 DEF ForkInv, ClientInv
  <2> QED BY <1>3, <2>2, <2>4 DEF ForkInv, dbVars
<1>4. ASSUME slot > 0, HandleRollback(slot), NEW h \in HighestRefs(point),
             h.block # NoHash, slot < Slot[h.block],
             ~RollbackConflict(slot), DbHandleRollback(slot),
             NEW n \in HighestRefs(point'), highest' = IF n.block = NoHash THEN highest ELSE n
      PROVE  ForkInv' /\ [IndexNext]_dbVars
  <2>1. csMsg.point \in Block /\ slot = Slot[csMsg.point] /\ slot \in Nat
    BY <1>4, SlotAssumption DEF SlotOf, TypeInv, TypeOK, Point
  <2> HIDE DEF slot
  <2>2. /\ pc \notin {"loop", "select", "txs"} /\ leaked' = leaked
        /\ UNCHANGED <<pc, cur, chan, fetcher, ends, errChan, consumer, bf>>
    BY <1>4 DEF HandleRollback, MutexHeld
  <2>3. h.block \in Processed /\ ~leaked
    BY <1>4, HighestFound DEF IsHighest, IndexInv, ForkInv, ClientInv, OneRoot
  <2>4. Rollback(slot)
    BY <1>4, <2>2, <2>3 DEF Rollback
  <2>5. IndexNext
    BY <2>1, <2>4 DEF IndexNext
  <2>6. IndexInv' /\ WholeChain'
    BY <2>1, <2>4, RollbackKeeps, RollbackLeavesChain DEF ForkInv, ClientInv
  <2>7. IF n.block = NoHash THEN Processed' = {}
        ELSE n.block \in Processed' /\ Processed' = Chain[n.block] /\ n.height = Number[n.block]
    BY <1>4, <2>6, HighestAfter DEF IndexInv, OneRoot
  <2>8. highest.block # NoHash
    BY <1>1, <2>2, <2>3 DEF ForkInv, ClientInv, HighestKnown, IsHighest
  <2>9. highest'.block # NoHash /\ HighestKnown'
    BY <1>4, <2>7, <2>8 DEF HighestKnown, IsHighest
  <2>10. ClientInv'
    BY <1>1, <1>2, <2>2, <2>6, <2>9 DEF ForkInv, ClientInv, RootKnown
  <2>11. OwnChannels'
    BY <2>2 DEF ForkInv, OwnChannels
  <2> QED BY <2>2, <2>5, <2>10, <2>11 DEF ForkInv
<1>5. CASE ~(slot > 0)
  BY <1>3, <1>5 DEF OnRollBackwards, dbVars, procVars
<1>6. CASE slot > 0
  <2>1. HandleRollback(slot)
    BY <1>6 DEF OnRollBackwards
  <2>2. PICK h \in HighestRefs(point) :
          IF h.block # NoHash /\ slot < Slot[h.block]
            THEN /\ ~leaked /\ ~RollbackConflict(slot)
                 /\ DbHandleRollback(slot)
                 /\ \E n \in HighestRefs(point') :
                       highest' = IF n.block = NoHash THEN highest ELSE n
            ELSE UNCHANGED <<point, rolledBack, tx, highest>>
    BY <2>1 DEF HandleRollback
  <2>3. CASE h.block # NoHash /\ slot < Slot[h.block]
    BY <1>4, <1>6, <2>1, <2>2, <2>3
  <2>4. CASE ~(h.block # NoHash /\ slot < Slot[h.block])
    BY <1>3, <2>1, <2>2, <2>4 DEF HandleRollback
  <2> QED BY <2>3, <2>4
<1> QED BY <1>5, <1>6

(* A rollback that fails closes the connection. *)
LEMMA OnRollBackwardsFailsForks ==
    ASSUME TypeInv, ForkInv, OnRollBackwardsFails
    PROVE  ForkInv' /\ UNCHANGED dbVars
<1>1. /\ UNCHANGED dbVars /\ UNCHANGED <<point, rolledBack, tx, leaked>>
      /\ UNCHANGED <<pc, highest, cur, chan, fetcher, ends, errChan, consumer, bf>>
      /\ csMsg.type = "backward" /\ csMsg' = NoMsg /\ UNCHANGED <<view, status, points>>
  BY DEF OnRollBackwardsFails, dbVars, clientVars
<1>2. Announced = {} /\ Announced' = {} /\ csMsg'.type # "forward"
  BY <1>1 DEF Announced, NoMsg
<1>3. Processed' = Processed /\ Rows' = Rows
  BY <1>1 DEF Processed, Rows
<1>4. OwnChannels' /\ (pc' = "select" => SelectInv') /\ (pc' = "txs" => TxsInv')
  BY <1>1, <1>3, ProcessorSame
<1>5. WholeChain' /\ HighestKnown' = HighestKnown /\ RootKnown' = RootKnown
  BY <1>1, <1>2, <1>3 DEF ForkInv, ClientInv, WholeChain, HighestKnown, IsHighest, RootKnown
<1>6. ClientInv'
  BY <1>1, <1>2, <1>5 DEF ForkInv, ClientInv
<1> QED BY <1>1, <1>4, <1>6 DEF ForkInv

-----------------------------------------------------------------------------
(* The fetcher *)

(* What is known of the current batch while its consumer lives. *)
LEMMA LiveWhenOn ==
    ASSUME ForkInv, pc = "select"
    PROVE  /\ First \in Block /\ Final \in Block
           /\ consumer[cur].st # "off" => LiveBatch
           /\ chan[cur].closed /\ consumer[cur].st # "off" => bf.gen # cur /\ fetcher[cur] = "off"
BY DEF ForkInv, SelectInv, LiveBatch, SentInv

(* A fetcher that is not of the current generation changes no batch. *)
LEMMA FetcherForks ==
    ASSUME TypeInv, ForkInv, NEW g \in Gen, Fetcher(g), ~raced'
    PROVE  ForkInv' /\ UNCHANGED dbVars
<1>0. cur \in Gen /\ fetcher \in [Gen -> {"off", "lock", "wait", "failed", "close"}] /\ NoHash \notin Gen
  BY GenAssumption DEF TypeInv, TypeOK, ProcTypeOK
<1>1. ASSUME FetchLock(g), Outside PROVE ForkInv' /\ UNCHANGED dbVars
  <2>1. /\ UNCHANGED <<pc, highest, cur, chan, ends, errChan, consumer>>
        /\ UNCHANGED dbVars /\ UNCHANGED <<point, tx, leaked>> /\ Processed' = Processed
        /\ fetcher[g] = "lock" /\ bf.st = "idle"
        /\ bf'.st = "request" /\ bf'.gen = g /\ fetcher' = [fetcher EXCEPT ![g] = "wait"]
    BY <1>1 DEF FetchLock, dbVars, FetchIdle, Processed
  <2>2. OwnChannels'
    BY <1>0, <2>1 DEF ForkInv, OwnChannels
  <2>3. ~Streaming /\ ~Streaming'
    BY <2>1 DEF Streaming
  <2>4. pc = "select" => SelectInv'
    <3>1. ASSUME pc = "select", chan[cur].closed, consumer[cur].st # "off"
          PROVE  bf'.gen # cur /\ fetcher'[cur] = "off"
      BY <1>0, <2>1, <3>1, LiveWhenOn
    <3> QED BY <2>1, <2>3, <3>1, BatchSame DEF ForkInv
  <2>5. pc = "txs" => TxsInv'
    BY <2>1, TxsSame DEF ForkInv
  <2> QED BY <1>1, <2>1, <2>2, <2>4, <2>5, ForkFrame
<1>2. ASSUME FetchReportsError(g), Outside PROVE ForkInv' /\ UNCHANGED dbVars
  <2>1. /\ UNCHANGED <<pc, highest, cur, chan, ends, bf, consumer>>
        /\ UNCHANGED dbVars /\ UNCHANGED <<point, tx, leaked>> /\ Processed' = Processed
        /\ fetcher[g] = "failed" /\ errChan' = errChan \cup {g}
        /\ fetcher' = [fetcher EXCEPT ![g] = "close"]
    BY <1>2 DEF FetchReportsError, dbVars, Processed
  <2>2. OwnChannels'
    BY <1>0, <2>1 DEF ForkInv, OwnChannels
  <2>3. Streaming' = Streaming
    BY <2>1 DEF Streaming
  <2>4. pc = "select" => SelectInv'
    <3>1. ASSUME pc = "select", chan[cur].closed, consumer[cur].st # "off"
          PROVE  bf'.gen # cur /\ fetcher'[cur] = "off"
      BY <1>0, <2>1, <3>1, LiveWhenOn
    <3> QED BY <2>1, <2>3, <3>1, BatchSame DEF ForkInv
  <2>5. pc = "txs" => TxsInv'
    BY <2>1, TxsSame DEF ForkInv
  <2> QED BY <1>2, <2>1, <2>2, <2>4, <2>5, ForkFrame
<1>3. ASSUME FetchClosesChan(g), Outside PROVE ForkInv' /\ UNCHANGED dbVars
  <2>1. /\ UNCHANGED <<pc, highest, cur, ends, errChan, bf, consumer>>
        /\ UNCHANGED dbVars /\ UNCHANGED <<point, tx, leaked>> /\ Processed' = Processed
        /\ g = cur /\ fetcher[cur] = "close" /\ ~chan[cur].closed
        /\ chan' = [chan EXCEPT ![cur].closed = TRUE]
        /\ fetcher' = [fetcher EXCEPT ![cur] = "off"]
    BY <1>3 DEF FetchClosesChan, dbVars, Processed
  <2>2. OwnChannels'
    BY <1>0, <2>1 DEF ForkInv, OwnChannels
  <2>3. chan[cur]'.closed /\ chan[cur]'.buf = chan[cur].buf /\ fetcher[cur]' = "off"
    BY <1>0, <2>1 DEF TypeInv, TypeOK, ProcTypeOK
  <2>4. bf.gen # cur /\ ~Streaming /\ ~Streaming'
    BY <1>0, <2>1 DEF ForkInv, OwnChannels, Streaming, TypeInv, TypeOK, ProcTypeOK, FetchType
  <2>5. pc = "select" => SelectInv'
    <3>1. SUFFICES ASSUME pc = "select" PROVE SelectInv'
      OBVIOUS
    <3>2. cur \in errChan
      BY <2>1, <3>1 DEF ForkInv, OwnChannels
    <3>3. /\ Batch' = Batch /\ Buffer' = Buffer /\ First' = First /\ Final' = Final /\ Sent' = Sent
          /\ LiveBatch /\ SentInv' => LiveBatch'
      BY <2>1, <2>3, ContentsSame
    <3>4. LiveBatch => SentInv'
      BY <2>1, <2>3, <2>4, <3>2, <3>3 DEF LiveBatch, SentInv
    <3> QED BY <2>1, <3>1, <3>2, <3>3, <3>4 DEF ForkInv, SelectInv
  <2>6. pc = "txs" => TxsInv'
    BY <2>1, TxsSame DEF ForkInv
  <2> QED BY <1>3, <2>1, <2>2, <2>5, <2>6, ForkFrame
<1> QED BY <1>1, <1>2, <1>3 DEF Fetcher

-----------------------------------------------------------------------------
(* The stream of blocks *)

(* What has been sent is closed under ancestors. *)
LEMMA SentClosed ==
    ASSUME TypeInv, LiveBatch, First \in Block, NEW d \in Sent
    PROVE  Chain[d] \subseteq Sent
<1>1. ASSUME NEW e \in Begun PROVE Chain[e] \subseteq Begun
  <2>1. CASE Batch = {}
    BY <2>1, ChainOfBlock, ChainOfPoint DEF Begun, Base
  <2>2. CASE Batch # {}
    <3>1. consumer[cur].last.block \in Block /\ Begun = Chain[consumer[cur].last.block]
      BY <2>2 DEF LiveBatch, NumberedRight, Batch
    <3> QED BY <3>1, ChainOfBlock, ChainOfPoint
  <2> QED BY <2>1, <2>2
<1>2. ASSUME NEW i \in 1..Len(Buffer) PROVE Chain[Buffer[i]] \subseteq Sent
  <2>1. Buffer \in Seq(Block) /\ Buffer[i] \in Block
    BY <1>2 DEF Buffer, TypeInv, TypeOK, ProcTypeOK
  <2>2. Chain[Buffer[i]] = {Buffer[i]} \cup Chain[Parent[Buffer[i]]]
    BY <2>1, ChainOfBlock
  <2>3. Chain[Parent[Buffer[i]]] = Begun \cup {Buffer[j] : j \in 1..(i - 1)}
    BY <1>2 DEF LiveBatch, SentInOrder
  <2>4. \A j \in 1..i : j \in DOMAIN Buffer
    BY <1>2, <2>1
  <2>5. Buffer[i] \in Range(Buffer) /\ \A j \in 1..(i - 1) : Buffer[j] \in Range(Buffer)
    BY <1>2, <2>4 DEF Range
  <2> QED BY <2>2, <2>3, <2>5 DEF Sent
<1>3. \A e \in Range(Buffer) : \E i \in 1..Len(Buffer) : e = Buffer[i]
  BY DEF Range, Buffer, TypeInv, TypeOK, ProcTypeOK
<1> QED BY <1>1, <1>2, <1>3 DEF Sent

(* The next block of the stream follows the ones sent. *)
LEMMA NextToSend ==
    ASSUME TypeInv, LiveBatch, First \in Block, Final \in Block, Streaming, NEW b \in NextOfStream
    PROVE  b \in Block /\ b \in Chain[Final] /\ b \notin Sent /\ Chain[Parent[b]] = Sent
<1>1. Sent \subseteq Chain[Final] /\ bf.rest = Chain[Final] \ Sent
  BY DEF LiveBatch, SentInv
<1>2. b \in Chain[Final] /\ b \notin Sent /\ b \in Block /\ \A c \in bf.rest : b \in Chain[c]
  BY <1>1, ChainOfBlock, ChainOfPoint DEF NextOfStream
<1>3. ASSUME NEW a \in Chain[Parent[b]] PROVE a \in Sent
  <2>1. a \in Chain[b] /\ Chain[b] \subseteq Chain[Final] /\ a \in Block
    BY <1>2, ChainOfBlock, ChainOfPoint
  <2>2. Chain[a] \subseteq Chain[Parent[b]] /\ b \notin Chain[a]
    BY <1>2, ChainOfBlock, ChainOfPoint
  <2> QED BY <1>1, <1>2, <2>1, <2>2
<1>4. ASSUME NEW d \in Sent PROVE d \in Chain[Parent[b]]
  <2>1. d \in Chain[b] \/ b \in Chain[d]
    BY <1>1, <1>2, ChainOfBlock, ChainOfPoint
  <2>2. d \in Chain[b] /\ d # b
    BY <1>2, <2>1, SentClosed
  <2> QED BY <1>2, <2>2, BelowParent
<1> QED BY <1>2, <1>3, <1>4

(* One more block is sent. *)
LEMMA BlockIsSent ==
    ASSUME TypeInv, LiveBatch, First \in Block, Final \in Block, Streaming,
           consumer[cur].st # "done", NEW b \in NextOfStream,
           Processed' = Processed, UNCHANGED <<cur, fetcher, ends, errChan, consumer>>,
           chan'[cur] = [chan[cur] EXCEPT !.buf = Append(@, b)],
           bf' = [bf EXCEPT !.rest = @ \ {b}]
    PROVE  LiveBatch'
<1>1. b \in Block /\ b \in Chain[Final] /\ b \notin Sent /\ Chain[Parent[b]] = Sent
  BY NextToSend
<1>2. cur \in Gen /\ Buffer \in Seq(Block) /\ chan[cur] \in [buf : Seq(Block), closed : BOOLEAN]
  BY DEF Buffer, TypeInv, TypeOK, ProcTypeOK
<1>3. Buffer' = Append(Buffer, b) /\ chan[cur]'.closed = chan[cur].closed
  BY <1>2 DEF Buffer
<1>4. bf'.st = bf.st /\ bf'.gen = bf.gen /\ bf'.rest = bf.rest \ {b} /\ Streaming'
  BY DEF Streaming, TypeInv, TypeOK, ProcTypeOK, FetchType
<1>5. /\ Batch' = Batch /\ First' = First /\ Final' = Final /\ consumer[cur]' = consumer[cur]
      /\ Base' = Base /\ Begun' = Begun /\ Taken' = Taken
  BY DEF Batch, First, Final, Base, Begun, Taken
<1>6. Sent' = Sent \cup {b}
  BY <1>1, <1>2, <1>3, <1>5, RangeOfAppend DEF Sent
<1>7. Sound' \/ Doomed'
  BY <1>5 DEF LiveBatch, Sound, Doomed, ContinuesNumbered
<1>8. SentInOrder'
  <2>1. SUFFICES ASSUME NEW i \in 1..Len(Buffer')
                 PROVE  Chain[Parent[Buffer'[i]]] = Begun \cup {Buffer'[j] : j \in 1..(i - 1)}
    BY <1>5 DEF SentInOrder
  <2>2. /\ Len(Buffer') = Len(Buffer) + 1 /\ Len(Buffer) \in Nat
        /\ \A j \in 1..Len(Buffer) : Buffer'[j] = Buffer[j]
        /\ Buffer'[Len(Buffer) + 1] = b
    BY <1>1, <1>2, <1>3, RangeOfAppend
  <2>3. \A j \in 1..(i - 1) : Buffer'[j] = Buffer[j] /\ j \in 1..Len(Buffer)
    BY <2>2
  <2>4. {Buffer'[j] : j \in 1..(i - 1)} = {Buffer[j] : j \in 1..(i - 1)}
    BY <2>3
  <2>5. CASE i \in 1..Len(Buffer)
    BY <2>2, <2>4, <2>5 DEF LiveBatch, SentInOrder
  <2>6. CASE i = Len(Buffer) + 1
    <3>1. {Buffer[j] : j \in 1..(i - 1)} = Range(Buffer)
      BY <1>2, <2>2, <2>6 DEF Range
    <3>2. Buffer'[i] = b
      BY <2>2, <2>6
    <3>3. Chain[Parent[b]] = Begun \cup {Buffer'[j] : j \in 1..(i - 1)}
      BY <1>1, <2>4, <3>1 DEF Sent
    <3> QED BY <3>2, <3>3
  <2> QED BY <2>2, <2>5, <2>6
<1>9. NumberedRight'
  BY <1>5 DEF LiveBatch, NumberedRight
<1>10. SentInv'
  <2>1. First \in Chain[Final] /\ Sent \subseteq Chain[Final] /\ bf.rest = Chain[Final] \ Sent
    BY DEF LiveBatch, SentInv
  <2>2. ~chan[cur].closed
    BY DEF LiveBatch, SentInv, Streaming
  <2> QED BY <1>1, <1>3, <1>4, <1>5, <1>6, <2>1, <2>2 DEF SentInv
<1> QED BY <1>7, <1>8, <1>9, <1>10 DEF LiveBatch

(* The node serves the range, or part of it when a new batch has taken the *)
(* place of the one it was requested for; then the batch has raced.        *)
LEMMA BlockFetchForks ==
    ASSUME TypeInv, ForkInv, BlockFetch, ~raced'
    PROVE  ForkInv' /\ UNCHANGED dbVars
<1>0. /\ cur \in Gen /\ NoHash \notin Gen /\ bf \in FetchType
      /\ fetcher \in [Gen -> {"off", "lock", "wait", "failed", "close"}]
  BY GenAssumption DEF TypeInv, TypeOK, ProcTypeOK
<1>1. ASSUME NodeServesRange PROVE ForkInv' /\ UNCHANGED dbVars
  <2>1. /\ UNCHANGED <<pc, highest, cur, chan, ends, errChan, consumer>> /\ Outside
        /\ UNCHANGED dbVars /\ UNCHANGED <<point, tx, leaked>> /\ Processed' = Processed
        /\ bf.st = "request" /\ bf.gen \in Gen /\ fetcher' = [fetcher EXCEPT ![bf.gen] = "off"]
        /\ bf'.st = "stream" /\ bf'.gen = bf.gen
        /\ bf'.rest = RangeOf(ends[bf.gen][1], ends[bf.gen][2])
        /\ ends[bf.gen][1] \in Chain[ends[bf.gen][2]]
    BY <1>0, <1>1 DEF NodeServesRange, FetchStarts, dbVars, Processed, Outside, FetchType,
                      TypeInv, RequestHasRange
  <2>2. OwnChannels'
    BY <1>0, <2>1 DEF ForkInv, OwnChannels
  <2>3. pc = "select" => SelectInv'
    <3>1. SUFFICES ASSUME pc = "select" PROVE SelectInv'
      OBVIOUS
    <3>2. CASE bf.gen # cur
      <4>1. ~Streaming /\ ~Streaming'
        BY <2>1, <3>2 DEF Streaming
      <4>2. chan[cur].closed /\ consumer[cur].st # "off" => bf'.gen # cur /\ fetcher'[cur] = "off"
        BY <1>0, <2>1, <3>1, <3>2, LiveWhenOn
      <4> QED BY <2>1, <3>1, <4>1, <4>2, BatchSame DEF ForkInv
    <3>3. CASE bf.gen = cur
      <4>1. ~Streaming /\ Streaming' /\ First \in Chain[Final] /\ bf'.rest = RangeOf(First, Final)
        BY <2>1, <3>3 DEF Streaming, First, Final
      <4>2. /\ Batch' = Batch /\ Buffer' = Buffer /\ First' = First /\ Final' = Final /\ Sent' = Sent
            /\ LiveBatch /\ SentInv' => LiveBatch'
        BY <2>1, ContentsSame
      <4>3. ASSUME consumer[cur].st # "off" PROVE LiveBatch'
        <5>1. LiveBatch /\ ~chan[cur].closed
          BY <3>1, <3>3, <4>3, LiveWhenOn
        <5>2. Batch = {} /\ Buffer = <<>>
          BY <4>1, <5>1 DEF LiveBatch, SentInv
        <5>3. Sent = Base
          BY <5>2, RangeOfEmpty DEF Sent, Begun
        <5>4. bf'.rest = Chain[Final] \ Sent /\ Sent \subseteq Chain[Final]
          BY <3>1, <4>1, <5>3, LiveWhenOn, RangeIsChain DEF Base
        <5>5. SentInv'
          BY <2>1, <4>1, <4>2, <5>1, <5>4 DEF LiveBatch, SentInv
        <5> QED BY <4>2, <5>1, <5>5
      <4> QED BY <2>1, <3>1, <4>2, <4>3 DEF ForkInv, SelectInv
    <3> QED BY <3>2, <3>3
  <2>4. pc = "txs" => TxsInv'
    BY <2>1, TxsSame DEF ForkInv
  <2> QED BY <2>1, <2>2, <2>3, <2>4, ForkFrame
<1>2. ASSUME FetchRefused PROVE ForkInv' /\ UNCHANGED dbVars
  <2>1. /\ UNCHANGED <<pc, highest, cur, chan, ends, errChan, consumer>> /\ Outside
        /\ UNCHANGED dbVars /\ UNCHANGED <<point, tx, leaked>> /\ Processed' = Processed
        /\ bf.st = "request" /\ bf.gen \in Gen /\ fetcher' = [fetcher EXCEPT ![bf.gen] = "failed"]
        /\ bf'.st = "idle" /\ bf'.gen = NoHash
    BY <1>0, <1>2 DEF FetchRefused, FetchFails, dbVars, Processed, Outside, FetchIdle,
                      TypeInv, RequestHasRange
  <2>2. OwnChannels'
    BY <1>0, <2>1 DEF ForkInv, OwnChannels
  <2>3. ~Streaming /\ ~Streaming'
    BY <2>1 DEF Streaming
  <2>4. pc = "select" => SelectInv'
    <3>1. ASSUME pc = "select", chan[cur].closed, consumer[cur].st # "off"
          PROVE  bf'.gen # cur /\ fetcher'[cur] = "off"
      BY <1>0, <2>1, <3>1, LiveWhenOn
    <3> QED BY <2>1, <2>3, <3>1, BatchSame DEF ForkInv
  <2>5. pc = "txs" => TxsInv'
    BY <2>1, TxsSame DEF ForkInv
  <2> QED BY <2>1, <2>2, <2>4, <2>5, ForkFrame
<1>3. ASSUME OnBlock, Outside PROVE ForkInv' /\ UNCHANGED dbVars
  <2>1. /\ UNCHANGED <<pc, highest, cur, fetcher, ends, errChan, consumer>>
        /\ UNCHANGED dbVars /\ UNCHANGED <<point, tx, leaked>> /\ Processed' = Processed
        /\ Streaming /\ ~chan[cur].closed
    BY <1>3 DEF OnBlock, dbVars, Processed, Streaming
  <2>2. PICK b \in NextOfStream : /\ chan' = [chan EXCEPT ![cur].buf = Append(@, b)]
                                  /\ bf' = [bf EXCEPT !.rest = @ \ {b}]
    BY <1>3 DEF OnBlock
  <2>3. bf'.st = bf.st /\ bf'.gen = bf.gen
    BY <1>0, <2>2 DEF FetchType
  <2>4. OwnChannels'
    BY <2>1, <2>3 DEF ForkInv, OwnChannels
  <2>5. pc = "select" => SelectInv'
    <3>1. SUFFICES ASSUME pc = "select" PROVE SelectInv'
      OBVIOUS
    <3>2. chan'[cur] = [chan[cur] EXCEPT !.buf = Append(@, b)]
      BY <1>0, <2>2 DEF TypeInv, TypeOK, ProcTypeOK
    <3>3. ASSUME consumer[cur].st # "off" PROVE LiveBatch'
      <4>1. LiveBatch /\ First \in Block /\ Final \in Block
        BY <3>1, <3>3, LiveWhenOn
      <4>2. consumer[cur].st # "done"
        BY <2>1, <4>1 DEF LiveBatch, SentInv
      <4> QED BY <2>1, <2>2, <3>2, <4>1, <4>2, BlockIsSent
    <3> QED BY <2>1, <3>1, <3>3 DEF ForkInv, SelectInv, First, Final
  <2>6. pc = "txs" => TxsInv'
    BY <2>1, TxsSame DEF ForkInv
  <2> QED BY <1>3, <2>1, <2>4, <2>5, <2>6, ForkFrame
<1>4. ASSUME OnBatchDone, Outside PROVE ForkInv' /\ UNCHANGED dbVars
  <2>1. /\ UNCHANGED <<pc, highest, cur, fetcher, ends, errChan, consumer>>
        /\ UNCHANGED dbVars /\ UNCHANGED <<point, tx, leaked>> /\ Processed' = Processed
        /\ Streaming /\ ~chan[cur].closed /\ bf.rest = {}
        /\ chan' = [chan EXCEPT ![cur].closed = TRUE]
        /\ bf'.st = "idle" /\ bf'.gen = NoHash
    BY <1>4 DEF OnBatchDone, dbVars, Processed, Streaming, FetchIdle
  <2>2. fetcher[cur] = "off" /\ OwnChannels'
    BY <1>0, <2>1 DEF ForkInv, OwnChannels, Streaming
  <2>3. chan[cur]'.closed /\ chan'[cur].buf = chan[cur].buf /\ ~Streaming'
    BY <1>0, <2>1 DEF TypeInv, TypeOK, ProcTypeOK, Streaming
  <2>4. pc = "select" => SelectInv'
    <3>1. SUFFICES ASSUME pc = "select" PROVE SelectInv'
      OBVIOUS
    <3>2. /\ Batch' = Batch /\ Buffer' = Buffer /\ First' = First /\ Final' = Final /\ Sent' = Sent
          /\ LiveBatch /\ SentInv' => LiveBatch'
      BY <2>1, <2>3, ContentsSame
    <3>3. ASSUME LiveBatch PROVE SentInv'
      <4>1. First \in Chain[Final] /\ Sent = Chain[Final]
        BY <2>1, <3>3 DEF LiveBatch, SentInv
      <4> QED BY <1>0, <2>1, <2>2, <2>3, <3>2, <3>3, <4>1 DEF LiveBatch, SentInv
    <3> QED BY <2>1, <3>1, <3>2, <3>3 DEF ForkInv, SelectInv
  <2>5. pc = "txs" => TxsInv'
    BY <2>1, TxsSame DEF ForkInv
  <2> QED BY <1>4, <2>1, <2>2, <2>4, <2>5, ForkFrame
<1> QED BY <1>1, <1>2, <1>3, <1>4 DEF BlockFetch

-----------------------------------------------------------------------------
(* The consumer *)

(* A block that passes the previous-hash check continues the processed     *)
(* chain, and the height the consumer counts is its height.                *)
LEMMA LinkedFollows ==
    ASSUME OneRoot, TypeInv, LiveBatch, First \in Block, Buffer # <<>>,
           LinkOK(consumer[cur], Head(Buffer))
    PROVE  LET b == Head(Buffer)
           IN  /\ Sound /\ Begun = Taken
               /\ b \in Block /\ b \notin Taken
               /\ Chain[b] = Taken \cup {b}
               /\ consumer[cur].height = Number[b]
<1> DEFINE b == Head(Buffer)
           c == consumer[cur]
<1>0. Buffer \in Seq(Block) /\ c \in ConsumerType
  BY DEF Buffer, TypeInv, TypeOK, ProcTypeOK
<1>1. b \in Block /\ b = Buffer[1] /\ Len(Buffer) >= 1
  BY <1>0, RangeOfTail
<1>2. Chain[Parent[b]] = Begun
  <2>1. 1 \in 1..Len(Buffer) /\ 1..(1 - 1) = {}
    BY <1>0, <1>1
  <2>2. {Buffer[j] : j \in 1..(1 - 1)} = {}
    BY <2>1
  <2>3. Chain[Parent[Buffer[1]]] = Begun \cup {Buffer[j] : j \in 1..(1 - 1)}
    BY <2>1, Zenon DEF LiveBatch, SentInOrder
  <2> QED BY <1>1, <2>2, <2>3
<1>3. Parent[b] \in Point /\ Parent[First] \in Point /\ NoHash \notin Point
  BY <1>1, ChainOfBlock, HashAssumption
<1> HIDE DEF b
<1>4. ~Doomed
  <2>1. SUFFICES ASSUME Doomed PROVE FALSE
    OBVIOUS
  <2>2. Parent[b] = Parent[First]
    BY <1>2, <1>3, <2>1, SameChain DEF Doomed, Begun, Base
  <2>3. LinkOK(c, b)
    BY DEF b
  <2> QED BY <1>0, <1>3, <2>1, <2>2, <2>3 DEF Doomed, LinkOK, OneRoot, ConsumerType
<1>5. Sound /\ Begun = Taken
  BY <1>4 DEF LiveBatch, Sound, Begun, Taken
<1>6. b \notin Taken /\ Chain[b] = Taken \cup {b}
  BY <1>1, <1>2, <1>5, ChainOfBlock
<1>7. c.height = Number[b]
  <2>1. CASE Taken = {}
    <3>1. Parent[b] = Origin
      BY <1>2, <1>3, <1>5, <2>1, ChainOfBlock DEF Point
    <3> QED BY <1>1, <1>5, <2>1, <3>1, NumbersCount DEF Sound, ContinuesNumbered, OneRoot
  <2>2. CASE Taken # {}
    <3>1. c.prev \in Taken /\ Taken = Chain[c.prev] /\ c.height = Number[c.prev] + 1
      BY <1>5, <2>2 DEF Sound, ContinuesNumbered
    <3>2. c.prev \in Block /\ c.prev \in Point
      BY <1>2, <1>3, <1>5, <3>1, ChainOfPoint DEF Point
    <3>3. Parent[b] = c.prev /\ Parent[b] # Origin
      BY <1>2, <1>3, <1>5, <3>1, <3>2, SameChain, HashAssumption
    <3> QED BY <1>1, <3>1, <3>3, NumbersCount DEF OneRoot
  <2> QED BY <2>1, <2>2
<1> QED BY <1>1, <1>5, <1>6, <1>7 DEF b

(* One more block is numbered. *)
LEMMA BlockIsNumbered ==
    ASSUME OneRoot, TypeInv, LiveBatch, First \in Block, Buffer # <<>>,
           LinkOK(consumer[cur], Head(Buffer)), consumer[cur].st = "run",
           Processed' = Processed, UNCHANGED <<cur, fetcher, ends, errChan, bf>>,
           consumer'[cur] = Numbered(consumer[cur], Head(Buffer)),
           chan'[cur] = [chan[cur] EXCEPT !.buf = Tail(@)]
    PROVE  LiveBatch'
<1> DEFINE b == Head(Buffer)
           c == consumer[cur]
<1>0. /\ Buffer \in Seq(Block) /\ c \in ConsumerType /\ cur \in Gen
      /\ chan[cur] \in [buf : Seq(Block), closed : BOOLEAN]
  BY DEF Buffer, TypeInv, TypeOK, ProcTypeOK
<1>1. /\ Sound /\ Begun = Taken /\ b \in Block /\ b \notin Taken
      /\ Chain[b] = Taken \cup {b} /\ c.height = Number[b]
  BY LinkedFollows
<1>2. Buffer' = Tail(Buffer) /\ chan[cur]'.closed = chan[cur].closed
  BY <1>0 DEF Buffer
<1>3. /\ consumer'[cur].refs = [c.refs EXCEPT ![b] = c.height]
      /\ consumer'[cur].last = [block |-> b, height |-> c.height]
      /\ consumer'[cur].height = c.height + 1
      /\ consumer'[cur].prev = b
      /\ consumer'[cur].st = "run"
  BY <1>0 DEF Numbered, OneRoot, ConsumerType
<1>4. First' = First /\ Final' = Final /\ Base' = Base /\ Streaming' = Streaming
  BY DEF First, Final, Base, Streaming
<1>5. Range(Buffer) = {b} \cup Range(Buffer')
  BY <1>0, <1>2, RangeOfTail
<1> HIDE DEF b
<1>6. Batch' = Batch \cup {b}
  <2>1. Number[b] \in Nat
    BY <1>1, NumbersCount DEF OneRoot
  <2> QED BY <1>0, <1>1, <1>3, <2>1 DEF Batch, ConsumerType, Absent
<1>7. Begun' = Begun \cup {b} /\ Taken' = Taken \cup {b} /\ Taken' = Chain[b] /\ Sent' = Sent
  BY <1>1, <1>4, <1>5, <1>6 DEF Begun, Taken, Sent
<1>8. Sound'
  <2>1. (ContinuesNumbered(consumer[cur]))'
    BY <1>1, <1>3, <1>7 DEF ContinuesNumbered
  <2> QED BY <1>1, <1>4, <2>1 DEF Sound
<1>9. SentInOrder'
  <2>1. SUFFICES ASSUME NEW i \in 1..Len(Buffer')
                 PROVE  Chain[Parent[Buffer'[i]]] = Begun' \cup {Buffer'[j] : j \in 1..(i - 1)}
    BY DEF SentInOrder
  <2>2. i \in 1..Len(Tail(Buffer))
    BY <1>2
  <2>3. /\ i + 1 \in 1..Len(Buffer) /\ (i + 1) - 1 = i /\ Tail(Buffer)[i] = Buffer[i + 1]
        /\ {Buffer[j] : j \in 1..i} = {Head(Buffer)} \cup {Tail(Buffer)[j] : j \in 1..(i - 1)}
    <3>1. Buffer \in Seq(Block) /\ Buffer # <<>>
      BY <1>0
    <3> QED BY <2>2, <3>1, FrontOfTail
  <2>4. Buffer'[i] = Buffer[i + 1] /\ {Buffer[j] : j \in 1..i} = {b} \cup {Buffer'[j] : j \in 1..(i - 1)}
    BY <1>2, <2>3, Zenon DEF b
  <2>5. Chain[Parent[Buffer[i + 1]]] = Begun \cup {Buffer[j] : j \in 1..i}
    <3>1. \A k \in 1..Len(Buffer) : Chain[Parent[Buffer[k]]] = Begun \cup {Buffer[j] : j \in 1..(k - 1)}
      BY DEF LiveBatch, SentInOrder
    <3>2. Chain[Parent[Buffer[i + 1]]] = Begun \cup {Buffer[j] : j \in 1..((i + 1) - 1)}
      BY <2>3, <3>1
    <3> QED BY <2>3, <3>2
  <2> QED BY <1>7, <2>4, <2>5
<1>10. NumberedRight'
  <2>1. \A a \in Batch' : consumer'[cur].refs[a] = Number[a]
    BY <1>0, <1>1, <1>3, <1>6 DEF LiveBatch, NumberedRight, ConsumerType, Batch
  <2>2. Batch' \cap Processed' = {}
    BY <1>1, <1>6 DEF LiveBatch, NumberedRight, Taken
  <2> QED BY <1>1, <1>3, <1>6, <1>7, <2>1, <2>2 DEF NumberedRight
<1>11. SentInv'
  <2>1. ~(~Streaming /\ ~chan[cur].closed)
    BY DEF LiveBatch, SentInv
  <2> QED BY <1>2, <1>3, <1>4, <1>7, <2>1 DEF LiveBatch, SentInv
<1> QED BY <1>8, <1>9, <1>10, <1>11 DEF LiveBatch

(* A consumer that is not of the current generation changes no batch; the  *)
(* current one numbers the next block, or refuses it and ends the batch.   *)
LEMMA ConsumerForks ==
    ASSUME OneRoot, TypeInv, ForkInv, NEW g \in Gen, Consumer(g), ~raced'
    PROVE  ForkInv' /\ UNCHANGED dbVars
<1>0. /\ cur \in Gen /\ NoHash \notin Gen /\ consumer \in [Gen -> ConsumerType]
      /\ chan \in [Gen -> [buf : Seq(Block), closed : BOOLEAN]]
  BY GenAssumption DEF TypeInv, TypeOK, ProcTypeOK
<1>1. /\ UNCHANGED <<pc, highest, cur, fetcher, ends, bf>>
      /\ UNCHANGED dbVars /\ UNCHANGED <<point, tx, leaked>> /\ Processed' = Processed
      /\ errChan \subseteq errChan' /\ Outside /\ Streaming' = Streaming
  BY DEF Consumer, ConsumerStarts, ConsumeBlock, ChainBroken, ConsumerDone, dbVars, Processed, Streaming
<1>2. consumer[g].st # "off" /\ consumer[g].st # "done" /\ (consumer[g].st = "run" => consumer[g].on = g)
  BY DEF Consumer, ConsumerStarts, ConsumeBlock, ChainBroken, ConsumerDone, Receives, ForkInv, OwnChannels
<1>3. OwnChannels'
  <2>1. \A k \in Gen : consumer'[k].st = "run" => consumer'[k].on = k
    <3>1. CASE ConsumerStarts(g)
      BY <1>0, <3>1 DEF ConsumerStarts, ForkInv, OwnChannels, ConsumerType
    <3>2. CASE ConsumeBlock(g)
      <4>1. consumer' = [consumer EXCEPT ![g] = Numbered(@, Head(chan[consumer[g].on].buf))]
        BY <3>2 DEF ConsumeBlock
      <4>2. consumer'[g].st = consumer[g].st /\ consumer'[g].on = consumer[g].on
        BY <1>0, <4>1 DEF Numbered, ConsumerType
      <4> QED BY <1>0, <4>1, <4>2 DEF ForkInv, OwnChannels
    <3>3. CASE ChainBroken(g)
      BY <1>0, <3>3, InitialValues DEF ChainBroken, ForkInv, OwnChannels
    <3>4. CASE ConsumerDone(g)
      BY <1>0, <3>4 DEF ConsumerDone, ForkInv, OwnChannels, ConsumerType
    <3> QED BY <3>1, <3>2, <3>3, <3>4 DEF Consumer
  <2> QED BY <1>1, <2>1 DEF ForkInv, OwnChannels
<1>4. CASE g # cur
  <2>1. consumer'[cur] = consumer[cur] /\ chan'[cur] = chan[cur]
    BY <1>0, <1>2, <1>4 DEF Consumer, ConsumerStarts, ConsumeBlock, ChainBroken, ConsumerDone, Receives
  <2>2. pc = "select" => SelectInv'
    BY <1>1, <2>1, LiveWhenOn, BatchSame DEF ForkInv
  <2>3. pc = "txs" => TxsInv'
    BY <1>1, <2>1, TxsSame DEF ForkInv
  <2> QED BY <1>1, <1>3, <2>2, <2>3, ForkFrame
<1>5. CASE g = cur
  <2>1. pc # "txs"
    BY <1>2, <1>5 DEF ForkInv, TxsInv
  <2>2. ASSUME pc = "select" PROVE SelectInv'
    <3>0. LiveBatch /\ First \in Block /\ Final \in Block /\ First' = First /\ Final' = Final
      BY <1>1, <1>2, <1>5, <2>2, LiveWhenOn DEF First, Final
    <3>1. CASE ConsumerStarts(cur) \/ ConsumerDone(cur)
      <4>1. /\ consumer'[cur].refs = consumer[cur].refs /\ consumer'[cur].last = consumer[cur].last
            /\ consumer'[cur].prev = consumer[cur].prev /\ consumer'[cur].height = consumer[cur].height
            /\ consumer'[cur].prevBoundary = consumer[cur].prevBoundary
            /\ consumer'[cur].st # "off" /\ UNCHANGED <<chan, errChan>>
        BY <1>0, <3>1 DEF ConsumerStarts, ConsumerDone, ConsumerType
      <4>2. consumer'[cur].st = "done" => chan[cur].closed /\ Buffer = <<>>
        BY <1>0, <1>2, <1>5, <3>1 DEF ConsumerStarts, ConsumerDone, ConsumerType, Buffer
      <4>3. /\ Batch' = Batch /\ Buffer' = Buffer /\ Sent' = Sent
            /\ LiveBatch /\ SentInv' => LiveBatch'
        BY <1>1, <4>1, ContentsSame
      <4>4. SentInv'
        BY <1>1, <3>0, <4>1, <4>2, <4>3 DEF LiveBatch, SentInv
      <4> QED BY <1>1, <3>0, <4>1, <4>3, <4>4 DEF SelectInv
    <3>2. CASE ConsumeBlock(cur)
      <4>1. /\ consumer[cur].st = "run" /\ Buffer # <<>> /\ LinkOK(consumer[cur], Head(Buffer))
            /\ consumer'[cur] = Numbered(consumer[cur], Head(Buffer))
            /\ chan'[cur] = [chan[cur] EXCEPT !.buf = Tail(@)] /\ errChan' = errChan
        BY <1>0, <1>2, <1>5, <3>2 DEF ConsumeBlock, Receives, Buffer
      <4>2. LiveBatch'
        BY <1>1, <3>0, <4>1, BlockIsNumbered
      <4>3. consumer[cur]'.st # "off"
        BY <1>0, <1>1, <4>1 DEF Numbered, ConsumerType
      <4> QED BY <3>0, <4>2, <4>3 DEF SelectInv
    <3>3. CASE ChainBroken(cur)
      <4>1. cur \in errChan' /\ consumer'[cur].st = "off"
        BY <1>0, <3>3, InitialValues DEF ChainBroken
      <4> QED BY <1>1, <3>0, <4>1 DEF SelectInv
    <3> QED BY <1>5, <3>1, <3>2, <3>3 DEF Consumer
  <2> QED BY <1>1, <1>3, <2>1, <2>2, ForkFrame
<1> QED BY <1>4, <1>5

-----------------------------------------------------------------------------
(* The pass *)

(* No pending point comes before the first one of a batch. *)
LEMMA FirstOfBatch ==
    ASSUME Boundary = {}, NEW e \in BatchEnds(early)
    PROVE  /\ e[1] \in Pending /\ e[1] \in Block /\ e[2] \in Block
           /\ \A c \in Pending : c \notin Chain[Parent[e[1]]] /\ ~(Slot[c] < Slot[e[1]])
<1> DEFINE first == e[1]
           before(b) == {c \in Pending : Before(c, b, early)}
<1>1. first \in Pending /\ first \in Block /\ e[2] \in Block /\ Cardinality(before(first)) < 1
  BY DEF BatchEnds, PendingAt, Pending
<1>2. before(first) = {}
  <2>1. \A b : before(b) \subseteq Pending
    OBVIOUS
  <2>2. \A b : IsFiniteSet(before(b)) /\ Cardinality(before(b)) \in Nat
    BY <2>1, BatchLengthBound, FS_Subset, FS_CardinalityType
  <2> HIDE DEF before
  <2> QED BY <1>1, <2>2, FS_EmptySet
<1> HIDE DEF first
<1>3. ASSUME NEW c \in Pending PROVE c \notin Chain[Parent[first]] /\ ~(Slot[c] < Slot[first])
  <2>1. ~Before(c, first, early)
    BY <1>2
  <2>2. c \notin Chain[Parent[first]]
    BY <1>1, <2>1, SlotsOrdered
  <2>3. ~(Slot[c] < Slot[first])
    BY <2>1 DEF Before
  <2> QED BY <2>2, <2>3
<1> QED BY <1>1, <1>3 DEF first

(* The first point of a batch continues the processed chain, or its parent *)
(* is not the block the consumer expects.                                  *)
LEMMA BatchBeginsWell ==
    ASSUME OneRoot, TypeInv, HighestKnown, highest.block = NoHash => Root \in Rows,
           HighestIsSet => BoundaryLookupOK(highest.block), NEW e \in BatchEnds(early),
           Parent[e[1]] = highest.block \/ highest.block = NoHash
    PROVE  Chain[Parent[e[1]]] = Processed /\ IsHighest(highest)
<1>1. /\ e[1] \in Pending /\ e[1] \in Block
      /\ \A c \in Pending : c \notin Chain[Parent[e[1]]] /\ ~(Slot[c] < Slot[e[1]])
  BY FirstOfBatch DEF OneRoot
<1>2. highest \in PointRef /\ DbTypeOK
  BY DEF TypeInv, TypeOK, ProcTypeOK
<1>3. CASE highest.block = NoHash
  <2>1. IsHighest(highest) /\ Processed = {}
    BY <1>3 DEF HighestKnown, IsHighest
  <2>2. Root \in Pending
    BY <1>2, <1>3, <2>1, RowsSplit
  <2>3. Root \notin Chain[Parent[e[1]]] /\ Root \in Chain[e[1]]
    BY <1>1, <2>2, RootIsFirst
  <2>4. e[1] = Root
    BY <1>1, <2>3, BelowParent
  <2> QED BY <2>1, <2>4, RootIsFirst, TreeAssumption
<1>4. CASE highest.block # NoHash
  <2>1. Parent[e[1]] = highest.block /\ highest.block \in Block
    BY <1>2, <1>4 DEF PointRef
  <2>2. CASE IsHighest(highest)
    BY <1>4, <2>1, <2>2 DEF IsHighest
  <2>3. CASE Processed = {}
    <3>1. highest.block \in Pending
      BY <1>2, <1>4, <2>1, <2>3, RowsSplit DEF HighestIsSet, BoundaryLookupOK, Rows
    <3> QED BY <1>1, <2>1, <3>1, ChainOfBlock
  <2> QED BY <2>2, <2>3 DEF HighestKnown
<1> QED BY <1>3, <1>4

(* A batch of a new generation begins. *)
LEMMA StartBatchForks ==
    ASSUME OneRoot, TypeInv, ForkInv, NEW g \in Gen, StartBatch(g), Outside
    PROVE  ForkInv' /\ UNCHANGED dbVars
<1> DEFINE height == IF HighestIsSet THEN highest.height + 1 ELSE highest.height
           new == [NoConsumer EXCEPT !.st = "start", !.height = height, !.prev = highest.block]
<1>1. /\ UNCHANGED <<point, tx, leaked, highest, bf, conn>> /\ UNCHANGED dbVars
      /\ cur' = g /\ pc' = "select" /\ pc \in {"spawned", "loop"}
      /\ chan' = [chan EXCEPT ![g] = [buf |-> <<>>, closed |-> FALSE]]
      /\ fetcher' = [fetcher EXCEPT ![g] = "lock"]
      /\ consumer' = [consumer EXCEPT ![g] = new]
      /\ HighestIsSet => BoundaryLookupOK(highest.block)
  BY DEF StartBatch, AtLoopHead, dbVars
<1>2. PICK e \in BatchEnds(early) : ends' = [ends EXCEPT ![g] = e]
  BY DEF StartBatch
<1>3. /\ consumer'[g].st = "start" /\ consumer'[g].refs = EmptyRefs /\ consumer'[g].last = ZeroPoint
      /\ consumer'[g].prev = highest.block /\ consumer'[g].height = height
      /\ consumer'[g].prevBoundary = NoHash
      /\ \A k \in Gen \ {g} : consumer'[k] = consumer[k]
  BY <1>1 DEF NoConsumer, TypeInv, TypeOK, ProcTypeOK
<1>4. /\ chan'[g].buf = <<>> /\ ~chan'[g].closed
      /\ fetcher'[g] = "lock" /\ \A k \in Gen \ {g} : fetcher'[k] = fetcher[k]
      /\ ends'[g] = e
  BY <1>1, <1>2 DEF TypeInv, TypeOK, ProcTypeOK
<1>5. Processed' = Processed
  BY <1>1 DEF Processed
<1>6. Batch' = {} /\ Taken' = Processed /\ Buffer' = <<>>
  <2>1. Batch' = {}
    BY <1>1, <1>3 DEF Batch, EmptyRefs
  <2>2. Buffer' = <<>>
    BY <1>1, <1>4 DEF Buffer
  <2> QED BY <1>5, <2>1, <2>2 DEF Taken
<1>7. First' = e[1] /\ Final' = e[2] /\ Base' = Chain[Parent[e[1]]]
  BY <1>1, <1>4 DEF First, Final, Base
<1>8. e[1] \in Block /\ e[2] \in Block
  BY FirstOfBatch DEF OneRoot
<1>9. bf.gen # g /\ fetcher[g] = "off"
  BY DEF StartBatch, Free
<1>10. OwnChannels'
  BY <1>1, <1>3, <1>4, <1>9 DEF ForkInv, OwnChannels
<1>11. HighestKnown /\ (highest.block = NoHash => Root \in Rows) /\ highest \in PointRef
  BY <1>1 DEF ForkInv, ClientInv, RootKnown, TypeInv, TypeOK, ProcTypeOK
<1>12. Sound' \/ Doomed'
  <2>1. CASE Parent[e[1]] = highest.block \/ highest.block = NoHash
    <3>1. Base' = Processed /\ IsHighest(highest)
      BY <1>1, <1>7, <1>11, <2>1, BatchBeginsWell
    <3>2. (ContinuesNumbered(consumer[cur]))'
      BY <1>1, <1>3, <1>6, <3>1, HashAssumption DEF IsHighest, ContinuesNumbered, HighestIsSet, Point, Processed
    <3> QED BY <1>5, <3>1, <3>2 DEF Sound
  <2>2. CASE Parent[e[1]] # highest.block /\ highest.block # NoHash
    <3>1. height > 0
      BY <1>11, <2>2 DEF HighestIsSet, PointRef
    <3> QED BY <1>1, <1>3, <1>6, <1>7, <2>2, <3>1 DEF Doomed
  <2> QED BY <2>1, <2>2
<1>13. SentInOrder' /\ NumberedRight'
  BY <1>6 DEF SentInOrder, NumberedRight
<1>14. SentInv'
  <2>1. ~Streaming'
    BY <1>1, <1>9 DEF Streaming
  <2> QED BY <1>1, <1>3, <1>4, <1>6, <2>1 DEF SentInv
<1>15. SelectInv'
  BY <1>1, <1>3, <1>7, <1>8, <1>12, <1>13, <1>14 DEF SelectInv, LiveBatch
<1> QED BY <1>1, <1>10, <1>15, ForkFrame

(* A batch that is done without an error is not empty, and continues the   *)
(* processed chain up to its last block.                                   *)
LEMMA DoneIsSound ==
    ASSUME TypeInv, SelectInv, consumer[cur].st = "done", cur \notin errChan
    PROVE  /\ Batch # {} /\ Processed \cup Batch = Chain[consumer[cur].last.block]
           /\ NumberedRight
<1>1. /\ LiveBatch /\ First \in Block /\ Final \in Block /\ Buffer = <<>>
      /\ First \in Chain[Final] /\ Sent = Chain[Final]
  BY DEF SelectInv, LiveBatch, SentInv
<1>2. Begun = Chain[Final]
  BY <1>1, RangeOfEmpty DEF Sent
<1>3. Batch # {}
  <2>1. First \notin Base
    BY <1>1, ChainOfBlock DEF Base
  <2> QED BY <1>1, <1>2, <2>1 DEF Begun
<1>4. Sound
  BY <1>1, <1>3 DEF LiveBatch, Doomed
<1> QED BY <1>1, <1>3, <1>4 DEF LiveBatch, NumberedRight, Sound, Begun

(* The heights of a batch are stored. *)
LEMMA TakeDoneForks ==
    ASSUME OneRoot, TypeInv, IndexInv, ForkInv, TakeDone, Outside, ~raced'
    PROVE  ForkInv' /\ [IndexNext]_dbVars
<1> DEFINE c == consumer[cur]
           top == c.last.block
<1>1. /\ pc = "select" /\ c.st = "done" /\ pc' = "txs" /\ cur \notin errChan
      /\ UNCHANGED <<highest, cur, chan, fetcher, ends, errChan, consumer, bf, conn>>
      /\ UNCHANGED <<rolledBack, tx, leaked>>
      /\ SetPointHeights(c.refs) /\ ~leaked
  BY DEF TakeDone, ForkInv, ClientInv
<1>2. /\ Batch # {} /\ Processed \cup Batch = Chain[top] /\ NumberedRight
  BY <1>1, DoneIsSound DEF ForkInv
<1>3. c.refs \in [Block -> {Absent} \cup Nat]
  BY DEF TypeInv, TypeOK, ProcTypeOK, ConsumerType
<1>4. /\ \A b \in Batch : c.refs[b] = Number[b] /\ Number[b] \in Nat
      /\ \A b \in Block \ Batch : c.refs[b] = Absent
      /\ top \in Batch /\ c.last.height = Number[top] /\ Batch \cap Processed = {}
  BY <1>2, NumberAssumption DEF NumberedRight, Batch
<1>5. Batch \subseteq Pending
  <2>1. \A b \in Block : c.refs[b] # Absent => point[b] # Absent
    BY DEF TakeDone
  <2>2. Batch \subseteq Rows
    BY <2>1 DEF Batch, Rows
  <2> QED BY <1>4, <2>2, RowsSplit DEF TypeInv, TypeOK
<1>6. /\ \A b \in Batch : point'[b] = Number[b]
      /\ \A b \in Block \ Batch : point'[b] = point[b]
  BY <1>1, <1>3, <1>4, <1>5 DEF SetPointHeights, Pending, Absent, Unprocessed
<1>7. Batch' = Batch /\ Processed' = Chain[top] /\ Rows' = Rows /\ top \in Block
  <2>1. Batch \subseteq Block /\ Batch' = Batch
    BY <1>1 DEF Batch
  <2>2. Processed' = Processed \cup Batch
    BY <1>4, <1>6, <2>1 DEF Processed
  <2>3. Rows' = Rows
    BY <1>4, <1>5, <1>6, <2>1 DEF Rows, Pending, Absent, Unprocessed
  <2> QED BY <1>2, <1>4, <2>1, <2>2, <2>3
<1>8. [IndexNext]_dbVars
  <2>1. c.refs = [b \in Block |-> IF b \in Batch THEN Number[b] ELSE Absent]
    BY <1>3, <1>4
  <2>2. Process(Batch)
    BY <1>1, <1>2, <1>4, <1>5, <2>1, Zenon DEF Process
  <2> QED BY <2>2 DEF IndexNext, Batch
<1>9. ClientInv'
  <2>1. UNCHANGED <<status, view, csMsg, points>> /\ Announced' = Announced
    BY DEF Outside, syncVars, clientVars, Announced
  <2>2. WholeChain'
    BY <1>7 DEF WholeChain
  <2>3. RootKnown => RootKnown'
    BY <1>1, <1>7, <2>1 DEF RootKnown
  <2> QED BY <1>1, <2>1, <2>2, <2>3 DEF ForkInv, ClientInv
<1>10. OwnChannels'
  BY <1>1 DEF ForkInv, OwnChannels
<1>11. TxsInv'
  <2>1. Batch' \subseteq Processed' /\ \A b \in Batch' : consumer'[cur'].refs[b] = Number[b]
    BY <1>1, <1>2, <1>4, <1>7
  <2>2. ASSUME NEW b \in Batch, NEW t \in TxsOf[b], tx[t] # Absent PROVE FALSE
    <3>1. b \in Block /\ t \in Tx
      BY <2>2, TxAssumption DEF Batch
    <3>2. PICK d \in Processed : t \in TxsOf[d]
      BY <2>2, <3>1 DEF IndexInv, TxBacked
    <3>3. b \in Chain[top] /\ d \in Chain[top] /\ b # d /\ top \in Point
      BY <1>2, <1>4, <1>7 DEF Point
    <3> QED BY <2>2, <3>2, <3>3, TxsApart
  <2>3. StoredInv'
    BY <1>1, <1>7, <2>1, <2>2 DEF StoredInv
  <2>4. top # NoHash /\ top \in Chain[top]
    BY <1>7, ChainOfBlock, HashAssumption DEF Point
  <2>5. (IsHighest(consumer[cur].last))'
    BY <1>1, <1>4, <1>7, <2>4 DEF IsHighest
  <2> QED BY <1>1, <2>3, <2>4, <2>5 DEF TxsInv
<1> QED BY <1>1, <1>8, <1>9, <1>10, <1>11 DEF ForkInv

(* highestPoint moves to the end of the processed chain. *)
LEMMA StoreTxsForks ==
    ASSUME TypeInv, IndexInv, ForkInv, StoreTxs, Outside
    PROVE  ForkInv' /\ [IndexNext]_dbVars
<1>1. /\ pc = "txs" /\ TxsInv /\ WholeChain /\ ~leaked
      /\ UNCHANGED <<cur, chan, fetcher, ends, errChan, consumer, bf, conn, point, rolledBack>>
  BY DEF StoreTxs, ForkInv, ClientInv
<1>2. /\ pc' = "loop" /\ highest' = consumer[cur].last /\ leaked' = leaked
      /\ [IndexNext]_dbVars
  BY <1>1, StoreTxsRecords DEF TxsInv
<1>3. Processed' = Processed
  BY <1>1 DEF Processed
<1>4. RootKnown' /\ HighestKnown'
  BY <1>1, <1>2, <1>3 DEF RootKnown, HighestKnown, TxsInv, IsHighest
<1>5. ClientInv'
  BY <1>1, <1>2, <1>3, <1>4 DEF ForkInv, ClientInv, WholeChain, Outside, syncVars, clientVars
<1>6. OwnChannels'
  BY <1>1, <1>2 DEF ForkInv, OwnChannels
<1> QED BY <1>2, <1>5, <1>6 DEF ForkInv

(* The steps of a pass. *)
LEMMA PassForks ==
    ASSUME OneRoot, TypeInv, IndexInv, ForkInv, Pass, ~raced'
    PROVE  ForkInv' /\ [IndexNext]_dbVars
<1>1. CASE (NothingToProcess \/ BoundaryLookupFails \/ TakeError \/ PassEnds) /\ Outside
  <2>1. /\ pc \notin {"idle", "txs"} /\ pc' \in {"exit", "idle"} /\ UNCHANGED dbVars
        /\ UNCHANGED <<highest, cur, chan, fetcher, ends, consumer, bf, conn, point, leaked>>
    BY <1>1 DEF NothingToProcess, BoundaryLookupFails, TakeError, PassEnds, AtLoopHead, dbVars
  <2>2. OwnChannels'
    BY <2>1 DEF ForkInv, OwnChannels
  <2> QED BY <1>1, <2>1, <2>2, ForkFrame
<1>2. ASSUME NEW g \in Gen, StartBatch(g), Outside PROVE ForkInv' /\ UNCHANGED dbVars
  BY <1>2, StartBatchForks
<1>3. CASE TakeDone /\ Outside
  BY <1>3, TakeDoneForks
<1>4. CASE StoreTxs /\ Outside
  BY <1>4, StoreTxsForks
<1> QED BY <1>1, <1>2, <1>3, <1>4 DEF Pass

-----------------------------------------------------------------------------
(* The invariant, and the refinement *)

(* An empty database and no process. *)
LEMMA InitForks == Init => ForkInv
<1> SUFFICES ASSUME Init PROVE ForkInv
  OBVIOUS
<1>1. Processed = {}
  BY DEF Init, DbInit, Processed, Absent
<1>2. ClientInv
  BY <1>1 DEF Init, DbInit, ClientInv, WholeChain, NoMsg
<1>3. OwnChannels
  BY InitialValues DEF Init, OwnChannels, FetchIdle
<1> QED BY <1>2, <1>3 DEF Init, ForkInv

(* Once a batch has raced it stays so. *)
LEMMA RacedStays ==
    ASSUME raced, [Next]_vars
    PROVE  raced'
<1>1. CASE NodeExtends \/ NodeSwitches \/ ConnectionDrops \/ Start \/ Crash \/ Panic
  BY <1>1 DEF NodeExtends, NodeSwitches, ConnectionDrops, Start, Crash, Panic, ProcessEnds, ghostVars
<1>2. CASE ChainSync
  BY <1>2 DEF ChainSync, NodeRollsForward, NodeRollsBackward, OnRollForwards, OnRollBackwards,
              OnRollBackwardsFails, HandleRollback, AddPointsFatal, ProcessEnds, ghostVars
<1>3. CASE BlockFetch
  BY <1>3 DEF BlockFetch, NodeServesRange, FetchRefused, FetchStarts, FetchFails, OnBlock,
              OnBatchDone, ghostVars
<1>4. CASE Pass
  BY <1>4 DEF Pass, NothingToProcess, BoundaryLookupFails, StartBatch, TakeError, TakeDone,
              StoreTxs, PassEnds, ghostVars
<1>5. CASE \E g \in Gen : Fetcher(g) \/ Consumer(g)
  BY <1>5 DEF Fetcher, FetchLock, FetchReportsError, FetchClosesChan, Consumer, ConsumerStarts,
              ConsumeBlock, ChainBroken, ConsumerDone, ghostVars
<1>6. CASE UNCHANGED vars
  BY <1>6 DEF vars, ghostVars
<1> QED BY <1>1, <1>2, <1>3, <1>4, <1>5, <1>6 DEF Next

(* Every step but one that makes a batch race keeps the invariant, and is  *)
(* a step of the index.                                                    *)
LEMMA NextForks ==
    ASSUME OneRoot, TypeInv, IndexInv, ForkInv, [Next]_vars, ~raced'
    PROVE  ForkInv' /\ [IndexNext]_dbVars
<1>1. CASE NodeExtends \/ NodeSwitches \/ ConnectionDrops
  BY <1>1, NodeForks
<1>2. CASE Start
  BY <1>2, StartForks
<1>3. CASE Crash \/ Panic \/ AddPointsFatal
  BY <1>3, ProcessEndsForks DEF Crash, Panic, AddPointsFatal
<1>4. CASE ChainSync
  BY <1>3, <1>4, NodeForks, OnRollForwardsForks, OnRollBackwardsForks, OnRollBackwardsFailsForks
     DEF ChainSync
<1>5. CASE BlockFetch
  BY <1>5, BlockFetchForks
<1>6. CASE Pass
  BY <1>6, PassForks
<1>7. CASE \E g \in Gen : Fetcher(g) \/ Consumer(g)
  BY <1>7, FetcherForks, ConsumerForks
<1>8. CASE UNCHANGED vars
  <2>1. UNCHANGED <<dbVars, procVars, ghostVars>> /\ Outside
    BY <1>8 DEF vars, Outside
  <2>2. /\ UNCHANGED <<point, tx, leaked, pc, highest>> /\ Processed' = Processed
        /\ UNCHANGED <<cur, chan, fetcher, ends, errChan, consumer, bf>>
    BY <2>1 DEF dbVars, procVars, Processed
  <2>3. OwnChannels' /\ (pc' = "select" => SelectInv') /\ (pc' = "txs" => TxsInv')
    BY <2>2, ProcessorSame
  <2> QED BY <2>1, <2>2, <2>3, ForkFrame
<1> QED BY <1>1, <1>2, <1>3, <1>4, <1>5, <1>6, <1>7, <1>8 DEF Next

(* The invariants hold until a batch has raced. *)
LEMMA ForkInvHolds ==
    ASSUME OneRoot
    PROVE  Spec => [](TypeInv /\ (raced \/ (IndexInv /\ ForkInv)))
<1>1. Init => TypeInv /\ IndexInv /\ ForkInv
  BY InitTypeInv, EmptyIndex, InitForks DEF Init
<1>2. TypeInv /\ (raced \/ (IndexInv /\ ForkInv)) /\ [Next]_vars
        => (TypeInv /\ (raced \/ (IndexInv /\ ForkInv)))'
  BY NextTypeInv, RacedStays, NextForks, IndexStepKeeps
<1> QED BY <1>1, <1>2, PTL DEF Spec

(* While no batch has raced, every change the follower makes to the tables *)
(* is one the abstract index may make, however often the node switches     *)
(* forks: a batch cut out of two forks stores nothing, and a rollback      *)
(* takes whole ends of the chain.                                          *)
THEOREM ForkIndexSteps ==
    ASSUME OneRoot
    PROVE  Spec => IndexStepsUnlessRaced
<1>1. TypeInv /\ (raced \/ (IndexInv /\ ForkInv)) /\ [Next]_vars => [raced' \/ IndexNext]_dbVars
  BY RacedStays, NextForks
<1> QED BY <1>1, ForkInvHolds, PTL DEF Spec, IndexStepsUnlessRaced

(* While no batch has raced, the rollback and the previous-hash check      *)
(* together keep the blocks of two forks apart.                            *)
THEOREM ForkOneChain ==
    ASSUME OneRoot
    PROVE  Spec => []OneChainUnlessRaced
BY ForkInvHolds, PTL DEF OneChainUnlessRaced, IndexInv

(* While no batch has raced, every recorded transaction is in a processed  *)
(* block at its height: HandleRollback leaves none of an abandoned block.  *)
THEOREM ForkTxBacked ==
    ASSUME OneRoot
    PROVE  Spec => []TxBackedUnlessRaced
BY ForkInvHolds, PTL DEF TxBackedUnlessRaced, IndexInv

(* The heights stored are true across reorganisations, too. *)
THEOREM ForkHeightTrue ==
    ASSUME OneRoot
    PROVE  Spec => [](raced \/ HeightTrue)
BY ForkInvHolds, PTL DEF IndexInv
=============================================================================
