------------------------ MODULE FollowerIndexProofs ------------------------
(***************************************************************************)
(* The follower implements the abstract index as long as the node does not *)
(* reorganise and no batch ends with a Byron boundary block: for every     *)
(* block tree, batch size, window and number of generations, and whatever  *)
(* crashes, restarts and lost connections come in between.                 *)
(*                                                                         *)
(* The invariant says what a pass knows at each of its steps: the rows are *)
(* a chain the node has, the processed rows the beginning of it, the       *)
(* channel and the consumer hold the blocks that come next, in order, and  *)
(* a batch that ended early without an error is empty.                     *)
(***************************************************************************)
EXTENDS FollowerProofs, ChainIndexProofs, FiniteSetTheorems

(* The node never switches to another fork. *)
SteadyNode == MaxReorgs = 0

(* The height of the block that comes after a block. *)
NumberAfter(e) == IF e \in Boundary /\ Parent[e] # Origin THEN Number[e] ELSE Number[e] + 1

Rows == {b \in Block : point[b] # Absent}

(* The batch of the current generation: the blocks its consumer has        *)
(* numbered, and those that are waiting in its channel.                    *)
Batch == {b \in Block : consumer[cur].refs[b] # Absent}
Taken == Processed \cup Batch
Buffer == chan[cur].buf
Delivered == Taken \cup Range(Buffer)
First == ends[cur][1]
Final == ends[cur][2]

(* The first and the last point of a batch stand among the rows where they *)
(* stand on the chain.                                                     *)
CutInOrder(e) ==
    \A b \in Block : \A a \in Chain[Parent[b]] :
        a \in {e[1], e[2]} \/ b \in {e[1], e[2]} => Before(a, b, early)

(* The batch that is under way was not cut between rows that are out of    *)
(* the order of the chain and does not end with a boundary block.          *)
(* Otherwise a batch can begin with the successor of a boundary block that *)
(* is still pending, and highestPoint can become a boundary block, which   *)
(* gives the first block of the next batch a height that is one too high.  *)
WellCut == pc = "select" => CutInOrder(ends[cur]) /\ Final \notin Boundary

(* A header the node has sent and the client has not handled. *)
Announced == IF csMsg.type = "forward" THEN {csMsg.point} ELSE {}

(* The rows are a chain the node has.  What the client has been told of is *)
(* in the table, in its buffer or on its way.  The only roll backward is   *)
(* the one that follows a start, to the end of the processed chain.        *)
KnownInv ==
    /\ ~leaked
    /\ \A b \in Rows : Chain[b] \subseteq Rows
    /\ Rows \subseteq Chain[nodeTip]
    /\ OnNodeChain(view)
    /\ Chain[view] \subseteq Rows \cup Range(points) \cup Announced
    /\ Range(points) \cup Announced \subseteq Chain[view]
    /\ status # "up" => points = <<>> /\ pc = "idle"
    /\ csMsg.type = "backward" => pc = "idle" /\ Chain[csMsg.point] = Processed

(* The processed blocks are a chain that begins with a first block and     *)
(* does not end with a boundary block.                                     *)
WholeChain == Processed = {} \/ \E t \in Block : Processed = Chain[t]

ChainInv ==
    /\ WholeChain
    /\ \A t \in Block : Processed = Chain[t] => t \notin Boundary
    /\ Processed = {} \/ \E b \in Processed : Parent[b] = Origin

(* No goroutine of the processor but the pass itself is alive. *)
Quiet ==
    /\ bf.st = "idle"
    /\ fetcher[cur] = "off"
    /\ consumer[cur].st \in {"off", "done"}

(* The goroutines that are alive belong to the current generation, they    *)
(* outlive a pass only when the connection is lost, and whoever may still  *)
(* close the channel finds it open.                                        *)
RoutineInv ==
    /\ \A g \in Gen \ {cur} : fetcher[g] = "off" /\ consumer[g].st \in {"off", "done"}
    /\ bf.st # "idle" => bf.gen = cur
    /\ bf.st = "idle" => bf.gen = NoHash
    /\ consumer[cur].st = "run" => consumer[cur].on = cur
    /\ fetcher[cur] = "wait" <=> bf.st = "request"
    /\ fetcher[cur] \in {"lock", "failed", "close"} => bf.st = "idle"
    /\ fetcher[cur] # "off" \/ bf.st # "idle" => ~chan[cur].closed
    /\ fetcher[cur] \in {"failed", "close"} => ~conn
    /\ cur \in errChan /\ pc = "select" => ~conn
    /\ pc \in {"spawned", "loop", "txs"} => Quiet
    /\ pc \in {"idle", "exit"} /\ conn => Quiet

(* p is the end of the processed chain. *)
IsHighest(p) ==
    IF p.block = NoHash THEN p.height = 0 /\ Processed = {}
    ELSE p.block \in Processed /\ Processed = Chain[p.block] /\ p.height = Number[p.block]

(* Without a connection an empty batch passes for a finished one, and the  *)
(* zero PointRef it leaves as the highest point stays until a restart.     *)
IsHighestOrLost(p) == IsHighest(p) \/ (~conn /\ p = ZeroPoint)

HighestInv ==
    /\ highest.block = NoHash => highest.height = 0
    /\ highest.block # NoHash => highest.block \in Processed /\ highest.height = Number[highest.block]
    /\ pc # "txs" => IsHighestOrLost(highest)
    /\ pc = "txs" => IsHighestOrLost(consumer[cur].last)

(* The consumer continues where the blocks numbered so far end. *)
Continues(c) ==
    /\ Taken = {} => c.prev = NoHash /\ c.height = 0
    /\ Taken # {} => \E e \in {c.prev, c.prevBoundary} :
                         e \in Taken /\ Taken = Chain[e] /\ c.height = NumberAfter(e)

(* No block has come or will come. *)
Barren == ~conn /\ bf.st # "stream" /\ Batch = {} /\ Buffer = <<>>

(* The blocks in the channel continue the ones taken, one after another. *)
BufferInOrder ==
    \A i \in 1..Len(Buffer) : Chain[Parent[Buffer[i]]] = Taken \cup {Buffer[j] : j \in 1..(i - 1)}

NumberedInv ==
    /\ Batch \subseteq Pending
    /\ \A b \in Batch : consumer[cur].refs[b] = Number[b]
    /\ Batch = {} => consumer[cur].last = ZeroPoint
    /\ Batch # {} => /\ consumer[cur].last.block \in Batch
                     /\ consumer[cur].last.height = Number[consumer[cur].last.block]
                     /\ Taken = Chain[consumer[cur].last.block]
    /\ Taken # {} => \E b \in Taken : Parent[b] = Origin

RangeInv ==
    /\ First \in Block /\ Final \in Block /\ Final \notin Boundary
    /\ Final \in Pending
    /\ First \in Chain[Final]
    /\ Chain[Parent[First]] = Processed
    /\ Cardinality({c \in Rows : Final \in Chain[Parent[c]]}) >= ReorgWindow

StreamInv ==
    /\ Delivered \subseteq Chain[Final]
    /\ bf.st = "stream" => bf.rest = Chain[Final] \ Delivered
    /\ bf.st # "stream" /\ ~chan[cur].closed => Batch = {} /\ Buffer = <<>>
    /\ chan[cur].closed => Delivered = Chain[Final] \/ Barren
    /\ consumer[cur].st \in {"start", "run", "done"}
    /\ consumer[cur].st = "done" => chan[cur].closed /\ Buffer = <<>>

BatchInv ==
    /\ Continues(consumer[cur]) \/ Barren
    /\ BufferInOrder
    /\ NumberedInv
    /\ RangeInv
    /\ StreamInv

(* Between the two SQL transactions of a batch. *)
StoredInv ==
    /\ Batch \subseteq Processed
    /\ \A b \in Batch : consumer[cur].refs[b] = Number[b]
    /\ \A b \in Batch : \A t \in TxsOf[b] : tx[t] = Absent

SteadyInv ==
    /\ KnownInv
    /\ ChainInv
    /\ RoutineInv
    /\ HighestInv
    /\ pc = "select" => BatchInv
    /\ pc = "txs" => StoredInv
    /\ TxComplete

-----------------------------------------------------------------------------
(* Lemmas about the block tree *)

(* A block is the end of its chain, which continues its parent's. *)
LEMMA ChainOfBlock ==
    ASSUME NEW b \in Block
    PROVE  /\ b \in Point /\ Parent[b] \in Point
           /\ Chain[b] = {b} \cup Chain[Parent[b]]
           /\ b \in Chain[b]
           /\ b \notin Chain[Parent[b]]
BY TreeAssumption DEF Point

(* A chain is a set of blocks, closed under ancestors and without a fork. *)
LEMMA ChainOfPoint ==
    ASSUME NEW p \in Point
    PROVE  /\ Chain[p] \subseteq Block
           /\ \A a \in Chain[p] : Chain[a] \subseteq Chain[p]
           /\ \A a, c \in Chain[p] : a \in Chain[c] \/ c \in Chain[a]
           /\ \A a \in Chain[p] : p \in Block
BY TreeAssumption, ChainAssumption DEF Point

(* An ancestor of a block other than the block is an ancestor of its       *)
(* parent.                                                                 *)
LEMMA BelowParent ==
    ASSUME NEW b \in Block, NEW a \in Chain[b], a # b
    PROVE  a \in Chain[Parent[b]]
BY ChainOfBlock

(* No block is both above and below another one. *)
LEMMA NoCycle ==
    ASSUME NEW a \in Block, NEW b \in Block, a \in Chain[b], b \in Chain[a]
    PROVE  a = b
<1> SUFFICES ASSUME a # b PROVE FALSE
  OBVIOUS
<1>1. a \in Chain[Parent[b]]
  BY BelowParent
<1>2. Chain[a] \subseteq Chain[Parent[b]]
  BY <1>1, ChainOfBlock, ChainOfPoint
<1> QED BY <1>2, ChainOfBlock

(* A chain determines its end. *)
LEMMA SameChain ==
    ASSUME NEW p \in Point, NEW q \in Point, Chain[p] = Chain[q]
    PROVE  p = q
<1>1. CASE p \in Block /\ q \in Block
  <2>1. p \in Chain[q] /\ q \in Chain[p]
    BY <1>1, ChainOfBlock
  <2> QED BY <1>1, <2>1, NoCycle
<1>2. CASE p = Origin \/ q = Origin
  <2>1. Chain[p] = {} /\ Chain[q] = {}
    BY <1>2, TreeAssumption
  <2> QED BY <1>2, <2>1, ChainOfBlock DEF Point
<1> QED BY <1>1, <1>2 DEF Point

(* The table's order of the slots is the order of the chain, but for the   *)
(* early rows.                                                             *)
LEMMA SlotsOrdered ==
    ASSUME NEW b \in Block, NEW a \in Chain[Parent[b]], a \in Boundary => b \notin early
    PROVE  a \in Block /\ Before(a, b, early)
<1>1. a \in Block /\ a \in Chain[b] /\ a # b
  BY ChainOfBlock, ChainOfPoint
<1> QED BY <1>1, SlotAssumption DEF Before, SameSlot

(* Heights count the blocks of the chain, boundary blocks only if they     *)
(* come first.                                                             *)
LEMMA NumbersGrow ==
    ASSUME NEW b \in Block
    PROVE  /\ Number[b] \in Nat
           /\ Parent[b] = Origin => Number[b] = 0
           /\ Parent[b] # Origin => Parent[b] \in Block /\ Number[b] = NumberAfter(Parent[b])
           /\ \A a \in Chain[Parent[b]] :
                 /\ a \in Block /\ Number[a] \in Nat /\ Number[a] <= Number[b]
                 /\ a \notin Boundary \/ Parent[a] = Origin => Number[a] < Number[b]
<1>1. /\ Parent[b] = Origin => Number[b] = 0
      /\ Parent[b] # Origin => Parent[b] \in Block /\ Number[b] = NumberAfter(Parent[b])
  BY NumberAssumption, TreeAssumption DEF Point, NumberAfter
<1>2. \A a \in Chain[Parent[b]] :
         /\ a \in Block /\ Number[a] <= Number[b]
         /\ a \notin Boundary \/ Parent[a] = Origin => Number[a] < Number[b]
  BY GrowthAssumption, ChainOfBlock, ChainOfPoint
<1> QED BY <1>1, <1>2, NumberAssumption

(* Blocks of one chain have no transaction in common. *)
LEMMA TxsApart ==
    ASSUME NEW p \in Point, NEW a \in Chain[p], NEW b \in Chain[p], a # b
    PROVE  TxsOf[a] \cap TxsOf[b] = {}
<1>1. a \in Block /\ b \in Block /\ (a \in Chain[b] \/ b \in Chain[a])
  BY ChainOfPoint
<1>2. a \in Chain[Parent[b]] \/ b \in Chain[Parent[a]]
  BY <1>1, BelowParent
<1> QED BY <1>1, <1>2, TxAssumption

(* The range from an ancestor to a block is the rest of the block's chain. *)
LEMMA RangeIsChain ==
    ASSUME NEW first \in Block, NEW final \in Block, first \in Chain[final]
    PROVE  /\ RangeOf(first, final) = Chain[final] \ Chain[Parent[first]]
           /\ Chain[Parent[first]] \subseteq Chain[final]
<1>1. ASSUME NEW b \in Chain[final], first \in Chain[b] PROVE b \notin Chain[Parent[first]]
  <2>1. SUFFICES ASSUME b \in Chain[Parent[first]] PROVE FALSE
    OBVIOUS
  <2>2. Chain[b] \subseteq Chain[Parent[first]]
    BY <2>1, ChainOfBlock, ChainOfPoint
  <2> QED BY <1>1, <2>2, ChainOfBlock
<1>2. ASSUME NEW b \in Chain[final], b \notin Chain[Parent[first]] PROVE first \in Chain[b]
  <2>1. b \in Block /\ (first \in Chain[b] \/ b \in Chain[first])
    BY ChainOfBlock, ChainOfPoint
  <2> QED BY <1>2, <2>1, ChainOfBlock
<1>3. Chain[Parent[first]] \subseteq Chain[final]
  BY ChainOfBlock, ChainOfPoint
<1> QED BY <1>1, <1>2, <1>3 DEF RangeOf

-----------------------------------------------------------------------------
(* Lemmas about the channel and the header buffer *)

(* Appending and taking from the front change the elements by one. *)
LEMMA RangeOfAppend ==
    ASSUME NEW S, NEW s \in Seq(S), NEW e \in S
    PROVE  /\ Range(Append(s, e)) = Range(s) \cup {e}
           /\ Len(Append(s, e)) = Len(s) + 1
           /\ \A i \in 1..Len(s) : Append(s, e)[i] = s[i]
           /\ Append(s, e)[Len(s) + 1] = e
<1>1. /\ Len(Append(s, e)) = Len(s) + 1 /\ Len(s) \in Nat
      /\ DOMAIN s = 1..Len(s) /\ DOMAIN Append(s, e) = 1..(Len(s) + 1)
      /\ \A i \in 1..Len(s) : Append(s, e)[i] = s[i]
      /\ Append(s, e)[Len(s) + 1] = e
  OBVIOUS
<1>2. \A i \in 1..(Len(s) + 1) : i \in 1..Len(s) \/ i = Len(s) + 1
  BY <1>1
<1>3. \A i \in 1..Len(s) : i \in 1..(Len(s) + 1)
  BY <1>1
<1>4. Len(s) + 1 \in 1..(Len(s) + 1)
  BY <1>1
<1> QED BY <1>1, <1>2, <1>3, <1>4, Zenon DEF Range

LEMMA RangeOfTail ==
    ASSUME NEW S, NEW s \in Seq(S), s # <<>>
    PROVE  /\ Range(s) = {Head(s)} \cup Range(Tail(s))
           /\ Head(s) \in S /\ Tail(s) \in Seq(S)
           /\ Len(s) >= 1 /\ Head(s) = s[1]
           /\ Len(Tail(s)) = Len(s) - 1
           /\ \A i \in 1..Len(Tail(s)) : Tail(s)[i] = s[i + 1]
<1>1. /\ Head(s) \in S /\ Tail(s) \in Seq(S)
      /\ Len(s) \in Nat /\ Len(s) >= 1 /\ Head(s) = s[1]
      /\ Len(Tail(s)) = Len(s) - 1
      /\ \A i \in 1..Len(Tail(s)) : Tail(s)[i] = s[i + 1]
      /\ DOMAIN s = 1..Len(s) /\ DOMAIN Tail(s) = 1..(Len(s) - 1)
  OBVIOUS
<1>2. \A i \in 1..Len(s) : i = 1 \/ (i - 1 \in 1..(Len(s) - 1) /\ s[i] = Tail(s)[i - 1])
  BY <1>1
<1>3. \A i \in 1..(Len(s) - 1) : i + 1 \in 1..Len(s) /\ Tail(s)[i] = s[i + 1]
  BY <1>1
<1>4. 1 \in 1..Len(s)
  BY <1>1
<1>5. Range(s) \subseteq {Head(s)} \cup Range(Tail(s))
  <2> SUFFICES ASSUME NEW i \in 1..Len(s) PROVE s[i] \in {Head(s)} \cup Range(Tail(s))
    BY <1>1 DEF Range
  <2> QED BY <1>1, <1>2 DEF Range
<1>6. {Head(s)} \cup Range(Tail(s)) \subseteq Range(s)
  BY <1>1, <1>3, <1>4 DEF Range
<1> QED BY <1>1, <1>5, <1>6

(* The front of a sequence is its head and the front of its tail. *)
LEMMA FrontOfTail ==
    ASSUME NEW S, NEW s \in Seq(S), s # <<>>, NEW i \in 1..Len(Tail(s))
    PROVE  /\ i + 1 \in 1..Len(s) /\ (i + 1) - 1 = i
           /\ Tail(s)[i] = s[i + 1]
           /\ {s[j] : j \in 1..i} = {Head(s)} \cup {Tail(s)[j] : j \in 1..(i - 1)}
<1>1. /\ Len(s) \in Nat /\ Len(Tail(s)) = Len(s) - 1 /\ Head(s) = s[1]
      /\ \A j \in 1..Len(Tail(s)) : Tail(s)[j] = s[j + 1]
  BY RangeOfTail
<1>2. ASSUME NEW j \in 1..i PROVE s[j] \in {Head(s)} \cup {Tail(s)[k] : k \in 1..(i - 1)}
  <2>1. CASE j = 1
    BY <1>1, <2>1
  <2>2. CASE j # 1
    <3>1. j - 1 \in 1..(i - 1) /\ j - 1 \in 1..Len(Tail(s)) /\ (j - 1) + 1 = j
      BY <1>1, <2>2
    <3>2. Tail(s)[j - 1] = s[j]
      BY <1>1, <3>1
    <3> QED BY <3>1, <3>2
  <2> QED BY <2>1, <2>2
<1>3. ASSUME NEW j \in 1..(i - 1) PROVE Tail(s)[j] \in {s[k] : k \in 1..i}
  <2>1. j + 1 \in 1..i /\ j \in 1..Len(Tail(s))
    BY <1>1
  <2>2. Tail(s)[j] = s[j + 1]
    BY <1>1, <2>1
  <2> QED BY <2>1, <2>2
<1>4. Head(s) \in {s[k] : k \in 1..i}
  BY <1>1
<1>5. i + 1 \in 1..Len(s) /\ (i + 1) - 1 = i /\ Tail(s)[i] = s[i + 1]
  BY <1>1
<1> QED BY <1>2, <1>3, <1>4, <1>5

LEMMA RangeOfEmpty == Range(<<>>) = {}
BY DEF Range

-----------------------------------------------------------------------------
(* Lemmas about the tables *)

(* The rows are the pending and the processed ones. *)
LEMMA RowsSplit ==
    ASSUME DbTypeOK
    PROVE  /\ Rows = Pending \cup Processed
           /\ Pending \cap Processed = {}
           /\ Rows \subseteq Block
BY DEF DbTypeOK, Heights, Rows, Pending, Processed, Absent, Unprocessed

(* The processed blocks are closed under ancestors. *)
LEMMA ProcessedClosed ==
    ASSUME WholeChain, NEW b \in Processed
    PROVE  b \in Block /\ Chain[b] \subseteq Processed
BY ChainOfBlock, ChainOfPoint DEF WholeChain, Processed

(* GetHighestPoint finds the end of the chain a table has heights for. *)
LEMMA HighestOfChain ==
    ASSUME NEW table \in [Block -> Heights], NEW t \in Block, t \notin Boundary,
           \A b \in Block : table[b] >= 0 <=> b \in Chain[t],
           \A b \in Chain[t] : table[b] = Number[b]
    PROVE  HighestRefs(table) = {[block |-> t, height |-> Number[t]]}
<1>1. t \in Chain[t] /\ Chain[t] \subseteq Block
  BY ChainOfBlock, ChainOfPoint
<1>2. \A b \in Chain[t] : /\ Number[b] \in Nat /\ Number[b] <= Number[t]
                          /\ b # t /\ b \notin Boundary => Number[b] < Number[t]
  BY <1>1, BelowParent, NumbersGrow
<1>3. \A b \in Block : table[b] \in Int
  BY DEF Heights, Absent, Unprocessed
<1>4. GetHighestPoint(table) = {t}
  <2>1. t \in GetHighestPoint(table)
    <3>1. \A c \in Block : table[c] <= table[t]
      BY <1>1, <1>2, <1>3
    <3> QED BY <1>1, <3>1 DEF GetHighestPoint
  <2>2. ASSUME NEW b \in GetHighestPoint(table) PROVE b = t
    <3>1. b \in Chain[t] /\ b \notin Boundary /\ table[t] <= table[b]
      BY <2>2 DEF GetHighestPoint
    <3> QED BY <1>1, <1>2, <3>1
  <2> QED BY <2>1, <2>2
<1>5. table[t] = Number[t]
  BY <1>1
<1> QED BY <1>4, <1>5 DEF HighestRefs

(* A table without heights has the zero PointRef for its highest point. *)
LEMMA HighestOfNone ==
    ASSUME NEW table, \A b \in Block : ~(table[b] >= 0)
    PROVE  HighestRefs(table) = {ZeroPoint}
BY DEF HighestRefs, GetHighestPoint

(* GetHighestPoint finds the end of the processed chain. *)
LEMMA HighestFound ==
    ASSUME DbTypeOK, HeightTrue, WholeChain, \A t \in Block : Processed = Chain[t] => t \notin Boundary,
           NEW h \in HighestRefs(point)
    PROVE  IsHighest(h)
<1>1. CASE Processed = {}
  <2>1. h = ZeroPoint
    BY <1>1, HighestOfNone DEF Processed
  <2> QED BY <1>1, <2>1 DEF ZeroPoint, IsHighest
<1>2. CASE Processed # {}
  <2>1. PICK t \in Block : Processed = Chain[t]
    BY <1>2 DEF WholeChain
  <2>2. \A b \in Block : point[b] >= 0 <=> b \in Chain[t]
    BY <2>1 DEF Processed
  <2>3. \A b \in Chain[t] : point[b] = Number[b]
    BY <2>1 DEF HeightTrue
  <2>4. HighestRefs(point) = {[block |-> t, height |-> Number[t]]}
    BY <2>1, <2>2, <2>3, HighestOfChain DEF DbTypeOK
  <2>5. t # NoHash /\ t \in Processed
    BY <2>1, ChainOfBlock, HashAssumption DEF Point
  <2> QED BY <2>1, <2>4, <2>5 DEF IsHighest
<1> QED BY <1>1, <1>2

-----------------------------------------------------------------------------
(* What a step keeps when it leaves most of the state alone *)

(* A step of the processor that changes no row. *)
LEMMA KnownKept ==
    ASSUME KnownInv, Outside, UNCHANGED <<point, leaked>>, pc' = pc \/ pc # "idle"
    PROVE  KnownInv'
<1>1. Rows' = Rows /\ Processed' = Processed
  BY DEF Rows, Processed
<1>2. Announced' = Announced /\ (OnNodeChain(view))' = OnNodeChain(view)
  BY DEF Outside, Announced, OnNodeChain, nodeVars, syncVars
<1> QED BY <1>1, <1>2 DEF KnownInv, Outside, nodeVars, syncVars, clientVars

(* A step that changes neither rows nor transactions, and no pass. *)
LEMMA TxCompleteKept ==
    ASSUME TxComplete, UNCHANGED <<point, tx, torn>>, InFlight \subseteq InFlight'
    PROVE  TxComplete'
BY DEF TxComplete, Processed

(* A step of a goroutine other than the pass: only its own state and the   *)
(* batch are left to look at.                                              *)
LEMMA GoroutineKeeps ==
    ASSUME SteadyInv, Outside, UNCHANGED <<dbVars, pc, highest, cur, conn, torn>>,
           pc = "txs" => consumer'[cur] = consumer[cur],
           RoutineInv', pc = "select" => BatchInv'
    PROVE  SteadyInv'
<1>1. UNCHANGED <<point, rolledBack, tx, leaked>>
  BY DEF dbVars
<1>2. Processed' = Processed /\ KnownInv'
  BY <1>1, KnownKept DEF SteadyInv, Processed
<1>3. ChainInv'
  BY <1>2 DEF SteadyInv, ChainInv, WholeChain
<1>4. \A p : (IsHighestOrLost(p))' = IsHighestOrLost(p)
  BY <1>2 DEF IsHighestOrLost, IsHighest
<1>5. HighestInv'
  BY <1>2, <1>4 DEF SteadyInv, HighestInv, IsHighestOrLost, IsHighest
<1>6. pc = "txs" => StoredInv'
  BY <1>1, <1>2 DEF SteadyInv, StoredInv, Batch
<1>7. TxComplete'
  <2>1. InFlight' = InFlight
    BY DEF InFlight
  <2> QED BY <1>1, <2>1, TxCompleteKept DEF SteadyInv
<1> QED BY <1>2, <1>3, <1>5, <1>6, <1>7 DEF SteadyInv

(* A batch that is under way is not disturbed by rows that are added, nor  *)
(* by the loss of the connection.                                          *)
LEMMA BatchKept ==
    ASSUME TypeInv, BatchInv, Processed' = Processed, Pending \subseteq Pending', Rows \subseteq Rows',
           UNCHANGED <<cur, consumer, chan, ends, bf>>, conn' => conn
    PROVE  BatchInv'
<1>1. Batch' = Batch /\ Taken' = Taken /\ Buffer' = Buffer /\ Delivered' = Delivered
  BY DEF Batch, Taken, Buffer, Delivered
<1>2. First' = First /\ Final' = Final /\ (Barren => Barren')
  BY <1>1 DEF First, Final, Barren
<1>3. (Continues(consumer[cur]) \/ Barren)'
  BY <1>1, <1>2 DEF BatchInv, Continues
<1>4. BufferInOrder'
  BY <1>1 DEF BatchInv, BufferInOrder
<1>5. NumberedInv'
  BY <1>1 DEF BatchInv, NumberedInv
<1>6. RangeInv'
  <2> DEFINE above == {c \in Rows : Final \in Chain[Parent[c]]}
             aboveN == {c \in Rows' : Final \in Chain[Parent[c]]}
  <2>1. above \subseteq aboveN
    OBVIOUS
  <2>2. IsFiniteSet(aboveN)
    BY FS_Subset, TreeAssumption DEF Rows
  <2>3. Cardinality(above) <= Cardinality(aboveN) /\ Cardinality(above) \in Nat /\ Cardinality(aboveN) \in Nat
    BY <2>1, <2>2, FS_Subset, FS_CardinalityType
  <2>4. Cardinality(above) >= ReorgWindow
    BY DEF BatchInv, RangeInv
  <2> HIDE DEF above, aboveN
  <2>5. Cardinality(aboveN) >= ReorgWindow
    BY <2>3, <2>4, BatchAssumption
  <2> USE DEF aboveN
  <2> QED BY <1>2, <2>5 DEF BatchInv, RangeInv
<1>7. StreamInv'
  BY <1>1, <1>2 DEF BatchInv, StreamInv
<1> QED BY <1>3, <1>4, <1>5, <1>6, <1>7 DEF BatchInv

-----------------------------------------------------------------------------
(* The node and the connection *)

(* Rows, pass and goroutines do not notice what the node does, as long as  *)
(* it keeps the blocks it had.                                             *)
LEMMA NodeKeeps ==
    ASSUME TypeInv, SteadyInv, UNCHANGED <<dbVars, procVars, ghostVars>>, KnownInv'
    PROVE  SteadyInv'
<1>1. /\ UNCHANGED <<point, rolledBack, tx, leaked>>
      /\ UNCHANGED <<pc, highest, cur, chan, fetcher, ends, errChan, consumer, bf, conn, torn>>
  BY DEF dbVars, procVars, ghostVars
<1>2. Processed' = Processed /\ Pending' = Pending /\ Rows' = Rows /\ Batch' = Batch
  BY <1>1 DEF Processed, Pending, Rows, Batch
<1>3. ChainInv'
  BY <1>2 DEF SteadyInv, ChainInv, WholeChain
<1>4. RoutineInv'
  BY <1>1 DEF SteadyInv, RoutineInv, Quiet
<1>5. HighestInv'
  BY <1>1, <1>2 DEF SteadyInv, HighestInv, IsHighestOrLost, IsHighest
<1>6. pc = "select" => BatchInv'
  BY <1>1, <1>2, BatchKept DEF SteadyInv
<1>7. pc = "txs" => StoredInv'
  BY <1>1, <1>2 DEF SteadyInv, StoredInv
<1>8. TxComplete'
  <2>1. InFlight' = InFlight
    BY <1>1 DEF InFlight
  <2> QED BY <1>1, <2>1, TxCompleteKept DEF SteadyInv
<1> QED BY <1>1, <1>3, <1>4, <1>5, <1>6, <1>7, <1>8 DEF SteadyInv

(* The node's tip grows. *)
LEMMA NodeExtendsKeeps ==
    ASSUME TypeInv, SteadyInv, NodeExtends
    PROVE  SteadyInv' /\ UNCHANGED dbVars
<1>0. UNCHANGED <<dbVars, procVars, ghostVars>>
  BY DEF NodeExtends
<1>1. PICK b \in Block : Parent[b] = nodeTip /\ nodeTip' = b
  BY DEF NodeExtends
<1>2. Chain[nodeTip] \subseteq Chain[nodeTip']
  BY <1>1, ChainOfBlock
<1>3. KnownInv'
  <2>1. Rows' = Rows /\ Processed' = Processed /\ pc' = pc /\ leaked' = leaked
    BY <1>0 DEF Rows, Processed, dbVars, procVars
  <2>2. UNCHANGED <<view, csMsg, points, status>> /\ Announced' = Announced
    BY DEF NodeExtends, syncVars, clientVars, Announced
  <2> QED BY <1>2, <2>1, <2>2 DEF SteadyInv, KnownInv, OnNodeChain
<1> QED BY <1>0, <1>3, NodeKeeps

(* The next header is sent. *)
LEMMA NodeRollsForwardKeeps ==
    ASSUME TypeInv, SteadyInv, NodeRollsForward
    PROVE  SteadyInv' /\ UNCHANGED dbVars
<1>0. UNCHANGED <<dbVars, procVars, ghostVars>>
  BY DEF NodeRollsForward
<1>1. PICK b \in Chain[nodeTip] : /\ Parent[b] = view
                                  /\ csMsg' = RollForward(b, Slot[b] = Slot[nodeTip])
                                  /\ view' = b
  BY DEF NodeRollsForward
<1>2. b \in Block
  BY ChainOfPoint DEF TypeInv, TypeOK
<1>3. Announced = {} /\ Announced' = {b} /\ csMsg'.type = "forward"
  BY <1>1, <1>2 DEF Announced, NodeRollsForward, NoMsg, RollForward
<1>4. Chain[view'] = {b} \cup Chain[view]
  BY <1>1, <1>2, ChainOfBlock
<1>5. KnownInv'
  <2>1. Rows' = Rows /\ Processed' = Processed /\ pc' = pc /\ leaked' = leaked
    BY <1>0 DEF Rows, Processed, dbVars, procVars
  <2>2. UNCHANGED <<nodeTip, points, status>>
    BY DEF NodeRollsForward, nodeVars, clientVars
  <2> QED BY <1>1, <1>3, <1>4, <2>1, <2>2 DEF SteadyInv, KnownInv, OnNodeChain
<1> QED BY <1>0, <1>5, NodeKeeps

(* A node that keeps its chain neither switches nor rolls backward. *)
LEMMA NeverBackward ==
    ASSUME SteadyNode, TypeInv, SteadyInv
    PROVE  ~NodeSwitches /\ ~NodeRollsBackward
<1>1. ~NodeSwitches
  BY DEF SteadyNode, NodeSwitches, TypeInv, TypeOK
<1>2. ~NodeRollsBackward
  BY DEF SteadyInv, KnownInv, NodeRollsBackward
<1> QED BY <1>1, <1>2

(* The connection is lost. *)
LEMMA ConnectionDropsKeeps ==
    ASSUME TypeInv, SteadyInv, ConnectionDrops
    PROVE  SteadyInv' /\ UNCHANGED dbVars
<1>1. /\ UNCHANGED <<point, rolledBack, tx, leaked>> /\ ~conn'
      /\ UNCHANGED <<pc, highest, cur, chan, fetcher, ends, errChan, consumer, bf, torn>>
      /\ UNCHANGED dbVars /\ Outside
  BY DEF ConnectionDrops, dbVars, ghostVars, Outside
<1>2. Processed' = Processed /\ Pending' = Pending /\ Rows' = Rows /\ Batch' = Batch
  BY <1>1 DEF Processed, Pending, Rows, Batch
<1>3. KnownInv'
  BY <1>1, KnownKept DEF SteadyInv
<1>4. ChainInv'
  BY <1>2 DEF SteadyInv, ChainInv, WholeChain
<1>5. RoutineInv'
  BY <1>1 DEF SteadyInv, RoutineInv, Quiet
<1>6. HighestInv'
  BY <1>1, <1>2 DEF SteadyInv, HighestInv, IsHighestOrLost, IsHighest
<1>7. pc = "select" => BatchInv'
  BY <1>1, <1>2, BatchKept DEF SteadyInv
<1>8. pc = "txs" => StoredInv'
  BY <1>1, <1>2 DEF SteadyInv, StoredInv
<1>9. TxComplete'
  <2>1. InFlight' = InFlight
    BY <1>1 DEF InFlight
  <2> QED BY <1>1, <2>1, TxCompleteKept DEF SteadyInv
<1> QED BY <1>1, <1>3, <1>4, <1>5, <1>6, <1>7, <1>8, <1>9 DEF SteadyInv

-----------------------------------------------------------------------------
(* Start and end of the process *)

(* The process ends: the tables stay, a batch between its two transactions *)
(* is torn.                                                                *)
LEMMA ProcessEndsKeeps ==
    ASSUME TypeInv, SteadyInv, NEW how \in {"down", "panicked"}, ProcessEnds(how)
    PROVE  SteadyInv' /\ UNCHANGED dbVars
<1>1. UNCHANGED <<point, rolledBack, tx, leaked>> /\ UNCHANGED dbVars
  BY DEF ProcessEnds, SteadyInv, KnownInv, TypeInv, TypeOK, DbTypeOK, dbVars
<1>2. Processed' = Processed /\ Rows' = Rows
  BY <1>1 DEF Processed, Rows
<1>3. /\ pc' = "idle" /\ highest' = ZeroPoint /\ ~conn' /\ points' = <<>> /\ status' = how
      /\ view' = Origin /\ csMsg' = NoMsg /\ nodeTip' = nodeTip
  BY DEF ProcessEnds, NoGoroutines, nodeVars
<1>4. KnownInv'
  <2>1. Announced' = {} /\ csMsg'.type # "backward"
    BY <1>3 DEF Announced, NoMsg
  <2>2. Chain[view'] = {} /\ Range(points') = {}
    BY <1>3, TreeAssumption, RangeOfEmpty
  <2> QED BY <1>1, <1>2, <1>3, <2>1, <2>2 DEF SteadyInv, KnownInv, OnNodeChain
<1>5. ChainInv'
  BY <1>2 DEF SteadyInv, ChainInv, WholeChain
<1>6. RoutineInv'
  BY <1>3, InitialValues DEF ProcessEnds, NoGoroutines, RoutineInv, FetchIdle
<1>7. HighestInv'
  BY <1>3 DEF HighestInv, IsHighestOrLost, ZeroPoint
<1>8. TxComplete'
  <2>1. torn' = torn \cup InFlight /\ InFlight' = {}
    BY <1>3 DEF ProcessEnds, InFlight
  <2> QED BY <1>1, <1>2, <2>1 DEF SteadyInv, TxComplete
<1> QED BY <1>1, <1>3, <1>4, <1>5, <1>6, <1>7, <1>8 DEF SteadyInv

(* The process starts with the end of the processed chain, which is also   *)
(* where the node's first message rolls back to.                           *)
LEMMA StartKeeps ==
    ASSUME TypeInv, IndexInv, SteadyInv, Start
    PROVE  SteadyInv' /\ UNCHANGED dbVars
<1>1. PICK h \in HighestRefs(point) : FollowChain(h)
  BY DEF Start
<1>2. IsHighest(h)
  BY HighestFound DEF IndexInv, SteadyInv, ChainInv
<1> DEFINE p == IF h.block = NoHash THEN Origin ELSE h.block
<1>3. p \in Point /\ Chain[p] = Processed
  BY <1>2, TreeAssumption DEF IsHighest, Processed, Point
<1>4. /\ UNCHANGED <<point, rolledBack, tx, leaked, torn, nodeTip, points>> /\ UNCHANGED dbVars
      /\ status # "up"
  BY DEF Start, dbVars, ghostVars, nodeVars
<1>5. Processed' = Processed /\ Rows' = Rows /\ Processed \subseteq Rows
  BY <1>4 DEF Processed, Rows, Absent
<1>6. OnNodeChain(p)
  <2>1. p # Origin => p \in Processed
    BY <1>2 DEF IsHighest
  <2> QED BY <1>5, <2>1 DEF SteadyInv, KnownInv, OnNodeChain
<1>7. NewBlockProcessor(h) /\ status' = "up" /\ view' = p /\ csMsg' = RollBackward(p)
  BY <1>1, <1>6 DEF FollowChain
<1> HIDE DEF p
<1>8. pc' = "idle" /\ highest' = h /\ conn'
  BY <1>7 DEF NewBlockProcessor, NoGoroutines
<1>9. KnownInv'
  <2>1. Announced' = {} /\ csMsg'.point = p
    BY <1>7 DEF Announced, RollBackward
  <2>2. points' = <<>> /\ Range(points') = {}
    BY <1>4, RangeOfEmpty DEF SteadyInv, KnownInv
  <2>3. (OnNodeChain(view))'
    BY <1>4, <1>6, <1>7 DEF OnNodeChain
  <2> QED BY <1>3, <1>4, <1>5, <1>7, <1>8, <2>1, <2>2, <2>3 DEF SteadyInv, KnownInv
<1>10. ChainInv'
  BY <1>5 DEF SteadyInv, ChainInv, WholeChain
<1>11. RoutineInv'
  BY <1>7, InitialValues DEF NewBlockProcessor, NoGoroutines, RoutineInv, Quiet, FetchIdle
<1>12. HighestInv'
  BY <1>2, <1>5, <1>8 DEF HighestInv, IsHighestOrLost, IsHighest
<1>13. TxComplete'
  <2>1. InFlight = {}
    BY <1>4 DEF InFlight, SteadyInv, KnownInv
  <2> QED BY <1>4, <2>1, TxCompleteKept DEF SteadyInv
<1> QED BY <1>4, <1>8, <1>9, <1>10, <1>11, <1>12, <1>13 DEF SteadyInv

-----------------------------------------------------------------------------
(* Chain-sync callbacks *)

(* A header is buffered, or the buffer goes to the table and a pass is     *)
(* triggered.                                                              *)
LEMMA OnRollForwardsKeeps ==
    ASSUME TypeInv, SteadyInv, OnRollForwards
    PROVE  SteadyInv' /\ [IndexNext]_dbVars
<1>1. /\ UNCHANGED <<highest, cur, chan, fetcher, ends, errChan, consumer, bf, conn>>
      /\ UNCHANGED <<rolledBack, tx, leaked, torn, nodeTip, view, status>>
      /\ status = "up" /\ conn /\ csMsg.type = "forward" /\ csMsg' = NoMsg
  BY DEF OnRollForwards, ghostVars, nodeVars
<1>2. csMsg.point \in Block /\ points \in Seq(Block) /\ Announced = {csMsg.point}
  BY <1>1 DEF TypeInv, TypeOK, Announced
<1>3. Range(Buffered) = Range(points) \cup Announced
  BY <1>2, RangeOfAppend DEF Buffered
<1>4. Announced' = {}
  BY <1>1 DEF Announced, NoMsg
<1>5. /\ pc' = pc \/ (pc = "idle" /\ pc' = "spawned")
      /\ \/ points' = Buffered /\ point' = point
         \/ points' = <<>> /\ AddPoints(Range(Buffered))
  BY DEF OnRollForwards, TryProcessBlocks
<1>6. /\ Rows' \cup Range(points') = Rows \cup Range(Buffered)
      /\ Rows \subseteq Rows' /\ Range(points') \subseteq Range(Buffered)
      /\ Pending \subseteq Pending' /\ Processed' = Processed
      /\ Rows' = Rows \/ Rows' = Rows \cup Range(Buffered)
      /\ [IndexNext]_dbVars
  <2>1. CASE points' = Buffered /\ point' = point
    BY <1>1, <2>1 DEF Rows, Pending, Processed, dbVars
  <2>2. CASE points' = <<>> /\ AddPoints(Range(Buffered))
    <3>1. Range(Buffered) \subseteq Block
      BY <1>2, <1>3 DEF Range
    <3>2. Rows' = Rows \cup Range(Buffered) /\ Pending \subseteq Pending' /\ Processed' = Processed
      BY <2>2, <3>1 DEF AddPoints, Rows, Pending, Processed, Absent, Unprocessed
    <3>3. Learn(Range(Buffered))
      BY <1>1, <2>2 DEF Learn, SteadyInv, KnownInv
    <3> QED BY <2>2, <3>1, <3>2, <3>3, RangeOfEmpty DEF IndexNext
  <2> QED BY <1>5, <2>1, <2>2
<1>7. KnownInv'
  <2>1. Range(Buffered) \subseteq Chain[view] /\ Chain[view] \subseteq Rows \cup Range(Buffered)
    BY <1>3 DEF SteadyInv, KnownInv
  <2>2. view \in Point /\ nodeTip \in Point
    BY DEF TypeInv, TypeOK
  <2>3. Chain[view] \subseteq Chain[nodeTip]
    BY <2>2, ChainOfPoint, TreeAssumption DEF SteadyInv, KnownInv, OnNodeChain
  <2>4. \A b \in Rows' : Chain[b] \subseteq Rows'
    <3>1. \A b \in Range(Buffered) : Chain[b] \subseteq Chain[view]
      BY <2>1, <2>2, ChainOfPoint
    <3> QED BY <1>6, <2>1, <3>1 DEF SteadyInv, KnownInv
  <2>5. Rows' \subseteq Chain[nodeTip]
    BY <1>6, <2>1, <2>3 DEF SteadyInv, KnownInv
  <2>6. Chain[view] \subseteq Rows' \cup Range(points') /\ Range(points') \subseteq Chain[view]
    BY <1>6, <2>1
  <2>7. (OnNodeChain(view))' /\ csMsg'.type # "backward"
    BY <1>1 DEF SteadyInv, KnownInv, OnNodeChain, NoMsg
  <2> QED BY <1>1, <1>4, <2>4, <2>5, <2>6, <2>7 DEF SteadyInv, KnownInv
<1>8. ChainInv'
  BY <1>6 DEF SteadyInv, ChainInv, WholeChain
<1>9. RoutineInv'
  BY <1>1, <1>5 DEF SteadyInv, RoutineInv, Quiet
<1>10. HighestInv'
  BY <1>1, <1>5, <1>6 DEF SteadyInv, HighestInv, IsHighestOrLost, IsHighest
<1>11. pc' = "select" => BatchInv'
  BY <1>1, <1>5, <1>6, BatchKept DEF SteadyInv
<1>12. pc' = "txs" => StoredInv'
  BY <1>1, <1>5, <1>6 DEF SteadyInv, StoredInv, Batch
<1>13. TxComplete'
  <2>1. InFlight' = InFlight
    BY <1>1, <1>5 DEF InFlight
  <2>2. \A b \in Processed : point'[b] = point[b]
    BY <1>5 DEF AddPoints, Processed, Absent
  <2> QED BY <1>1, <1>6, <2>1, <2>2 DEF SteadyInv, TxComplete
<1> QED BY <1>6, <1>7, <1>8, <1>9, <1>10, <1>11, <1>12, <1>13 DEF SteadyInv

(* The roll backward to the end of the processed chain finds nothing to    *)
(* take away.                                                              *)
LEMMA NothingAbove ==
    ASSUME TypeInv, IndexInv, SteadyInv, csMsg.type = "backward",
           NEW h \in HighestRefs(point)
    PROVE  ~(h.block # NoHash /\ SlotOf(csMsg.point) < Slot[h.block])
<1>1. IsHighest(h)
  BY HighestFound DEF IndexInv, SteadyInv, ChainInv
<1> SUFFICES ASSUME h.block # NoHash PROVE ~(SlotOf(csMsg.point) < Slot[h.block])
  OBVIOUS
<1>2. h.block \in Block /\ Chain[csMsg.point] = Chain[h.block] /\ csMsg.point \in Point
  BY <1>1 DEF IsHighest, Processed, SteadyInv, KnownInv, TypeInv, TypeOK
<1>3. csMsg.point = h.block
  BY <1>2, SameChain DEF Point
<1> QED BY <1>2, <1>3, SlotAssumption, HashAssumption DEF SlotOf

LEMMA OnRollBackwardsKeeps ==
    ASSUME TypeInv, IndexInv, SteadyInv, OnRollBackwards
    PROVE  SteadyInv' /\ UNCHANGED dbVars
<1>1. /\ csMsg.type = "backward" /\ csMsg' = NoMsg /\ status = "up" /\ conn
      /\ UNCHANGED <<nodeTip, view, status, points>>
  BY DEF OnRollBackwards, nodeVars, clientVars
<1>2. /\ UNCHANGED <<point, rolledBack, tx, leaked, highest>>
      /\ UNCHANGED <<pc, cur, chan, fetcher, ends, errChan, consumer, bf, conn>>
      /\ torn' = torn \/ torn' = {b \in torn : point'[b] # Absent}
  <2>1. CASE SlotOf(csMsg.point) > 0
    <3>1. HandleRollback(SlotOf(csMsg.point))
      BY <2>1 DEF OnRollBackwards
    <3> QED BY <1>1, <3>1, NothingAbove DEF HandleRollback
  <2>2. CASE ~(SlotOf(csMsg.point) > 0)
    BY <2>2 DEF OnRollBackwards, dbVars, procVars, ghostVars
  <2> QED BY <2>1, <2>2
<1>3. Processed' = Processed /\ Rows' = Rows /\ UNCHANGED dbVars
  BY <1>2 DEF Processed, Rows, dbVars
<1>4. pc = "idle"
  BY <1>1 DEF SteadyInv, KnownInv
<1>5. KnownInv'
  <2>1. Announced' = {} /\ Announced = {} /\ csMsg'.type # "backward"
    BY <1>1 DEF Announced, NoMsg
  <2>2. (OnNodeChain(view))' = OnNodeChain(view)
    BY <1>1 DEF OnNodeChain
  <2> QED BY <1>1, <1>2, <1>3, <2>1, <2>2 DEF SteadyInv, KnownInv
<1>6. ChainInv'
  BY <1>3 DEF SteadyInv, ChainInv, WholeChain
<1>7. RoutineInv'
  BY <1>2 DEF SteadyInv, RoutineInv, Quiet
<1>8. HighestInv'
  BY <1>2, <1>3 DEF SteadyInv, HighestInv, IsHighestOrLost, IsHighest
<1>9. TxComplete'
  <2>1. InFlight = {} /\ InFlight' = {}
    BY <1>2, <1>4 DEF InFlight
  <2>2. Processed \ torn' = Processed \ torn
    BY <1>2 DEF Processed, Absent
  <2> QED BY <1>2, <1>3, <2>1, <2>2 DEF SteadyInv, TxComplete
<1> QED BY <1>2, <1>3, <1>4, <1>5, <1>6, <1>7, <1>8, <1>9 DEF SteadyInv

LEMMA OnRollBackwardsSucceeds ==
    ASSUME TypeInv, IndexInv, SteadyInv
    PROVE  ~OnRollBackwardsFails
BY NothingAbove DEF OnRollBackwardsFails, HandleRollbackFails

-----------------------------------------------------------------------------
(* The fetcher, and the answers of the node *)

(* A step that neither numbers nor delivers a block. *)
LEMMA SameBlocks ==
    ASSUME BatchInv, UNCHANGED <<point, cur, ends>>, Buffer' = Buffer,
           consumer'[cur].refs = consumer[cur].refs, consumer'[cur].last = consumer[cur].last,
           consumer'[cur].prev = consumer[cur].prev, consumer'[cur].height = consumer[cur].height,
           consumer'[cur].prevBoundary = consumer[cur].prevBoundary, Barren => Barren'
    PROVE  /\ Batch' = Batch /\ Taken' = Taken /\ Delivered' = Delivered /\ Final' = Final
           /\ StreamInv' => BatchInv'
<1>1. Batch' = Batch /\ Processed' = Processed /\ Pending' = Pending /\ Rows' = Rows
  BY DEF Batch, Processed, Pending, Rows
<1>2. Taken' = Taken /\ Delivered' = Delivered /\ First' = First /\ Final' = Final
  BY <1>1 DEF Taken, Delivered, First, Final
<1>3. (Continues(consumer[cur]) \/ Barren)'
  BY <1>2 DEF BatchInv, Continues
<1>4. BufferInOrder'
  BY <1>2 DEF BatchInv, BufferInOrder
<1>5. NumberedInv'
  BY <1>1, <1>2 DEF BatchInv, NumberedInv
<1>6. RangeInv'
  BY <1>1, <1>2 DEF BatchInv, RangeInv
<1> QED BY <1>1, <1>2, <1>3, <1>4, <1>5, <1>6 DEF BatchInv

(* Only the fetcher of the current generation is alive. *)
LEMMA FetcherKeeps ==
    ASSUME TypeInv, SteadyInv, NEW g \in Gen, Fetcher(g)
    PROVE  SteadyInv' /\ UNCHANGED dbVars
<1>0. g = cur /\ cur \in Gen /\ cur # NoHash
  BY GenAssumption
     DEF Fetcher, FetchLock, FetchReportsError, FetchClosesChan, SteadyInv, RoutineInv,
         TypeInv, TypeOK, ProcTypeOK
<1>1. ASSUME FetchLock(g), Outside PROVE SteadyInv' /\ UNCHANGED dbVars
  <2>1. /\ UNCHANGED <<dbVars, pc, highest, cur, conn, torn, chan, ends, errChan, consumer, point>>
        /\ fetcher[cur] = "lock" /\ bf.st = "idle"
        /\ bf'.st = "request" /\ bf'.gen = cur /\ fetcher' = [fetcher EXCEPT ![cur] = "wait"]
    BY <1>0, <1>1 DEF FetchLock, ghostVars, FetchIdle, dbVars
  <2>2. RoutineInv'
    BY <1>0, <2>1 DEF SteadyInv, RoutineInv, Quiet, TypeInv, TypeOK, ProcTypeOK
  <2>3. pc = "select" => BatchInv'
    <3>1. SUFFICES ASSUME pc = "select" PROVE BatchInv'
      OBVIOUS
    <3>2. Buffer' = Buffer /\ BatchInv
      BY <2>1, <3>1 DEF SteadyInv, Buffer
    <3>3. Batch' = Batch
      BY <2>1 DEF Batch
    <3>4. Barren => Barren'
      BY <2>1, <3>2, <3>3 DEF Barren
    <3>5. StreamInv'
      BY <2>1, <3>2, <3>4, SameBlocks DEF BatchInv, StreamInv
    <3> QED BY <2>1, <3>2, <3>4, <3>5, SameBlocks
  <2> QED BY <1>1, <2>1, <2>2, <2>3, GoroutineKeeps
<1>2. ASSUME FetchReportsError(g), Outside PROVE SteadyInv' /\ UNCHANGED dbVars
  <2>1. /\ UNCHANGED <<dbVars, pc, highest, cur, conn, torn, chan, ends, consumer, bf, point>>
        /\ fetcher[cur] = "failed" /\ errChan' = errChan \cup {cur}
        /\ fetcher' = [fetcher EXCEPT ![cur] = "close"]
    BY <1>0, <1>2 DEF FetchReportsError, ghostVars, dbVars
  <2>2. RoutineInv'
    BY <1>0, <2>1 DEF SteadyInv, RoutineInv, Quiet, TypeInv, TypeOK, ProcTypeOK
  <2>3. pc = "select" => BatchInv'
    <3>1. Processed' = Processed /\ Pending' = Pending /\ Rows' = Rows
      BY <2>1 DEF Processed, Pending, Rows
    <3> QED BY <2>1, <3>1, BatchKept DEF SteadyInv
  <2> QED BY <1>2, <2>1, <2>2, <2>3, GoroutineKeeps
<1>3. ASSUME FetchClosesChan(g), Outside PROVE SteadyInv' /\ UNCHANGED dbVars
  <2>1. /\ UNCHANGED <<dbVars, pc, highest, cur, conn, torn, errChan, ends, consumer, bf, point>>
        /\ fetcher[cur] = "close" /\ ~chan[cur].closed
        /\ chan' = [chan EXCEPT ![cur].closed = TRUE]
        /\ fetcher' = [fetcher EXCEPT ![cur] = "off"]
    BY <1>0, <1>3 DEF FetchClosesChan, dbVars
  <2>2. chan'[cur].closed /\ chan'[cur].buf = chan[cur].buf /\ ~conn /\ bf.st = "idle"
    BY <1>0, <2>1 DEF SteadyInv, RoutineInv, TypeInv, TypeOK, ProcTypeOK
  <2>3. RoutineInv'
    BY <1>0, <2>1, <2>2 DEF SteadyInv, RoutineInv, Quiet, TypeInv, TypeOK, ProcTypeOK
  <2>4. pc = "select" => BatchInv'
    <3>1. SUFFICES ASSUME pc = "select" PROVE BatchInv'
      OBVIOUS
    <3>2. Buffer' = Buffer /\ BatchInv /\ Batch' = Batch
      BY <2>1, <2>2, <3>1 DEF SteadyInv, Buffer, Batch
    <3>3. Barren'
      BY <2>1, <2>2, <3>2 DEF Barren, BatchInv, StreamInv
    <3>4. StreamInv'
      BY <2>1, <2>2, <3>2, <3>3, SameBlocks DEF BatchInv, StreamInv
    <3> QED BY <2>1, <3>2, <3>3, <3>4, SameBlocks
  <2> QED BY <1>3, <2>1, <2>3, <2>4, GoroutineKeeps
<1> QED BY <1>1, <1>2, <1>3 DEF Fetcher

(* The node has the range, so only a lost connection makes a fetch fail. *)
LEMMA RangeIsServed ==
    ASSUME TypeInv, SteadyInv, bf.st = "request"
    PROVE  /\ bf.gen = cur /\ fetcher[cur] = "wait"
           /\ pc = "select" => ~RangeRefused
           /\ pc # "select" => ~conn
<1>1. bf.gen = cur /\ fetcher[cur] = "wait"
  BY DEF SteadyInv, RoutineInv
<1>2. pc = "select" => ~RangeRefused
  <2>1. SUFFICES ASSUME pc = "select" PROVE ~RangeRefused
    OBVIOUS
  <2>2. Final \in Rows /\ First \in Chain[Final]
    BY <2>1, RowsSplit DEF SteadyInv, BatchInv, RangeInv, TypeInv, TypeOK
  <2> QED BY <1>1, <2>2 DEF SteadyInv, KnownInv, RangeRefused, First, Final
<1>3. pc # "select" => ~conn
  BY DEF SteadyInv, RoutineInv, Quiet, TypeInv, TypeOK, ProcTypeOK
<1> QED BY <1>1, <1>2, <1>3

(* The blocks of the range are those of the chain up to its end that are   *)
(* not processed.                                                          *)
LEMMA RangeIsRest ==
    ASSUME TypeInv, SteadyInv, pc = "select"
    PROVE  RangeOf(First, Final) = Chain[Final] \ Processed
<1>1. First \in Block /\ Final \in Block /\ First \in Chain[Final] /\ Chain[Parent[First]] = Processed
  BY DEF SteadyInv, BatchInv, RangeInv
<1> QED BY <1>1, RangeIsChain

(* The stream is open only during a batch. *)
LEMMA StreamsInBatch ==
    ASSUME TypeInv, SteadyInv, conn, bf.st # "idle"
    PROVE  /\ pc = "select" /\ BatchInv /\ bf.gen = cur /\ cur \in Gen /\ cur # NoHash
           /\ ~chan[cur].closed /\ ~Barren /\ Continues(consumer[cur])
<1>1. /\ pc = "select" /\ BatchInv /\ bf.gen = cur /\ cur \in Gen /\ cur # NoHash
      /\ ~chan[cur].closed
  BY GenAssumption DEF SteadyInv, RoutineInv, Quiet, TypeInv, TypeOK, ProcTypeOK
<1> QED BY <1>1 DEF Barren, BatchInv

(* The next block of the stream follows the blocks delivered so far. *)
LEMMA NextFollows ==
    ASSUME TypeInv, SteadyInv, conn, bf.st = "stream", NEW b \in NextOfStream
    PROVE  /\ b \in Block /\ b \in Chain[Final] /\ b \notin Delivered
           /\ Chain[Parent[b]] = Delivered
<1>0. BatchInv /\ Continues(consumer[cur]) /\ pc = "select"
  BY StreamsInBatch
<1>1. Final \in Block /\ Delivered \subseteq Chain[Final] /\ bf.rest = Chain[Final] \ Delivered
  BY <1>0 DEF BatchInv, RangeInv, StreamInv
<1>2. b \in Chain[Final] /\ b \notin Delivered /\ b \in Block /\ \A c \in bf.rest : b \in Chain[c]
  BY <1>1, ChainOfBlock, ChainOfPoint DEF NextOfStream
<1>3. Chain[Final] \subseteq Block
  BY <1>1, ChainOfBlock, ChainOfPoint
<1>4. \A d \in Delivered : Chain[d] \subseteq Delivered
  <2>1. \A d \in Taken : Chain[d] \subseteq Taken
    <3>1. CASE Taken = {}
      BY <3>1
    <3>2. CASE Taken # {}
      <4>1. PICK e \in Block : Taken = Chain[e]
        BY <1>0, <1>1, <1>3, <3>2 DEF Continues, Delivered
      <4> QED BY <4>1, ChainOfBlock, ChainOfPoint
    <3> QED BY <3>1, <3>2
  <2>2. ASSUME NEW i \in 1..Len(Buffer) PROVE Chain[Buffer[i]] \subseteq Delivered
    <3>1. Buffer \in Seq(Block) /\ Buffer[i] \in Block
      BY <2>2 DEF Buffer, TypeInv, TypeOK, ProcTypeOK
    <3>2. Chain[Buffer[i]] = {Buffer[i]} \cup Chain[Parent[Buffer[i]]]
      BY <3>1, ChainOfBlock
    <3>3. Chain[Parent[Buffer[i]]] = Taken \cup {Buffer[j] : j \in 1..(i - 1)}
      BY <1>0, <2>2 DEF BatchInv, BufferInOrder
    <3>4. \A j \in 1..i : j \in DOMAIN Buffer
      BY <2>2, <3>1
    <3>5. Buffer[i] \in Range(Buffer) /\ \A j \in 1..(i - 1) : Buffer[j] \in Range(Buffer)
      BY <2>2, <3>4 DEF Range
    <3> QED BY <3>2, <3>3, <3>5 DEF Delivered
  <2>3. \A d \in Range(Buffer) : \E i \in 1..Len(Buffer) : d = Buffer[i]
    BY DEF Range, Buffer, TypeInv, TypeOK, ProcTypeOK
  <2> QED BY <2>1, <2>2, <2>3 DEF Delivered
<1>5. ASSUME NEW a \in Chain[Parent[b]] PROVE a \in Delivered
  <2>1. a \in Chain[b] /\ Chain[b] \subseteq Chain[Final] /\ a \in Block
    BY <1>1, <1>2, ChainOfBlock, ChainOfPoint
  <2>2. Chain[a] \subseteq Chain[Parent[b]] /\ b \notin Chain[a]
    BY <1>2, ChainOfBlock, ChainOfPoint
  <2> QED BY <1>1, <1>2, <2>1, <2>2
<1>6. ASSUME NEW d \in Delivered PROVE d \in Chain[Parent[b]]
  <2>1. d \in Chain[b] \/ b \in Chain[d]
    BY <1>1, <1>2, ChainOfBlock, ChainOfPoint
  <2>2. d \in Chain[b] /\ d # b
    BY <1>2, <1>4, <2>1
  <2> QED BY <1>2, <2>2, BelowParent
<1> QED BY <1>2, <1>5, <1>6

(* Lost connections apart, the node sends the range and closes the batch. *)
LEMMA BlockFetchKeeps ==
    ASSUME TypeInv, SteadyInv, BlockFetch
    PROVE  SteadyInv' /\ UNCHANGED dbVars
<1>1. ASSUME NodeServesRange PROVE SteadyInv' /\ UNCHANGED dbVars
  <2>1. bf.st = "request" /\ conn /\ Outside
    BY <1>1 DEF NodeServesRange, FetchStarts, Outside
  <2>2. /\ pc = "select" /\ BatchInv /\ bf.gen = cur /\ cur \in Gen
        /\ ~chan[cur].closed /\ ~Barren
    BY <2>1, StreamsInBatch
  <2>3. /\ UNCHANGED <<dbVars, pc, highest, cur, conn, torn, chan, ends, errChan, consumer, point>>
        /\ bf'.st = "stream" /\ bf'.gen = cur /\ bf'.rest = RangeOf(First, Final)
        /\ fetcher' = [fetcher EXCEPT ![cur] = "off"]
    BY <1>1, <2>2 DEF NodeServesRange, FetchStarts, ghostVars, dbVars, First, Final,
                      TypeInv, TypeOK, ProcTypeOK, FetchType
  <2>4. RoutineInv'
    BY <2>1, <2>2, <2>3 DEF SteadyInv, RoutineInv, TypeInv, TypeOK, ProcTypeOK
  <2>5. BatchInv'
    <3>1. Batch = {} /\ Buffer = <<>> /\ Delivered = Processed
      BY <2>1, <2>2, RangeOfEmpty DEF BatchInv, StreamInv, Delivered, Taken
    <3>2. bf'.rest = Chain[Final] \ Delivered
      BY <2>2, <2>3, <3>1, RangeIsRest
    <3>3. Buffer' = Buffer
      BY <2>3 DEF Buffer
    <3>4. StreamInv'
      BY <2>2, <2>3, <3>2, <3>3, SameBlocks DEF BatchInv, StreamInv
    <3> QED BY <2>2, <2>3, <3>3, <3>4, SameBlocks
  <2> QED BY <2>1, <2>3, <2>4, <2>5, GoroutineKeeps
<1>2. ASSUME FetchRefused PROVE SteadyInv' /\ UNCHANGED dbVars
  <2>1. bf.st = "request" /\ Outside
    BY <1>2 DEF FetchRefused, FetchFails, Outside
  <2>2. ~conn /\ bf.gen = cur /\ fetcher[cur] = "wait" /\ cur \in Gen
    BY <1>2, <2>1, RangeIsServed DEF FetchRefused, TypeInv, TypeOK, ProcTypeOK
  <2>3. /\ UNCHANGED <<dbVars, pc, highest, cur, conn, torn, chan, ends, errChan, consumer, point>>
        /\ bf'.st = "idle" /\ bf'.gen = NoHash
        /\ fetcher' = [fetcher EXCEPT ![cur] = "failed"]
    BY <1>2, <2>2 DEF FetchRefused, FetchFails, ghostVars, dbVars, FetchIdle
  <2>4. RoutineInv'
    BY <2>1, <2>2, <2>3 DEF SteadyInv, RoutineInv, Quiet, TypeInv, TypeOK, ProcTypeOK
  <2>5. pc = "select" => BatchInv'
    <3>1. SUFFICES ASSUME pc = "select" PROVE BatchInv'
      OBVIOUS
    <3>2. Buffer' = Buffer /\ BatchInv /\ Batch' = Batch
      BY <2>3, <3>1 DEF SteadyInv, Buffer, Batch
    <3>3. Barren => Barren'
      BY <2>3, <3>2 DEF Barren
    <3>4. StreamInv'
      BY <2>1, <2>3, <3>2, <3>3, SameBlocks DEF BatchInv, StreamInv
    <3> QED BY <2>3, <3>2, <3>3, <3>4, SameBlocks
  <2> QED BY <2>1, <2>3, <2>4, <2>5, GoroutineKeeps
<1>3. ASSUME OnBlock, Outside PROVE SteadyInv' /\ UNCHANGED dbVars
  <2>1. bf.st = "stream" /\ conn
    BY <1>3 DEF OnBlock
  <2>2. pc = "select" /\ BatchInv /\ bf.gen = cur /\ cur \in Gen /\ ~chan[cur].closed
    BY <2>1, StreamsInBatch
  <2>3. PICK b \in NextOfStream : /\ chan' = [chan EXCEPT ![cur].buf = Append(@, b)]
                                  /\ bf' = [bf EXCEPT !.rest = @ \ {b}]
    BY <1>3 DEF OnBlock
  <2>4. b \in Block /\ b \in Chain[Final] /\ b \notin Delivered /\ Chain[Parent[b]] = Delivered
    BY <2>1, NextFollows
  <2>5. /\ UNCHANGED <<dbVars, pc, highest, cur, conn, torn, fetcher, ends, errChan, consumer, point>>
        /\ bf'.st = "stream" /\ bf'.gen = cur /\ bf'.rest = bf.rest \ {b}
        /\ Buffer' = Append(Buffer, b) /\ chan'[cur].closed = chan[cur].closed
    BY <1>3, <2>1, <2>2, <2>3 DEF OnBlock, dbVars, Buffer, TypeInv, TypeOK, ProcTypeOK, FetchType
  <2>6. RoutineInv'
    BY <2>1, <2>2, <2>5 DEF SteadyInv, RoutineInv, TypeInv, TypeOK, ProcTypeOK
  <2>7. Batch' = Batch /\ Processed' = Processed /\ Pending' = Pending /\ Rows' = Rows
    BY <2>5 DEF Batch, Processed, Pending, Rows
  <2>8. Taken' = Taken /\ First' = First /\ Final' = Final
    BY <2>5, <2>7 DEF Taken, First, Final
  <2>9. Buffer \in Seq(Block)
    BY <2>2 DEF Buffer, TypeInv, TypeOK, ProcTypeOK
  <2>10. Delivered' = Delivered \cup {b}
    BY <2>4, <2>5, <2>8, <2>9, RangeOfAppend DEF Delivered
  <2>11. BatchInv'
    <3>1. Continues(consumer[cur])'
      BY <2>1, <2>5, <2>8, StreamsInBatch DEF Continues
    <3>2. BufferInOrder'
      <4>1. SUFFICES ASSUME NEW i \in 1..Len(Buffer')
                     PROVE  Chain[Parent[Buffer'[i]]] = Taken \cup {Buffer'[j] : j \in 1..(i - 1)}
        BY <2>8 DEF BufferInOrder
      <4>2. /\ Len(Buffer') = Len(Buffer) + 1 /\ Len(Buffer) \in Nat
            /\ \A j \in 1..Len(Buffer) : Buffer'[j] = Buffer[j]
            /\ Buffer'[Len(Buffer) + 1] = b
        BY <2>4, <2>5, <2>9, RangeOfAppend
      <4>3. \A j \in 1..(i - 1) : Buffer'[j] = Buffer[j] /\ j \in 1..Len(Buffer)
        BY <4>2
      <4>4. {Buffer'[j] : j \in 1..(i - 1)} = {Buffer[j] : j \in 1..(i - 1)}
        BY <4>3
      <4>5. CASE i \in 1..Len(Buffer)
        BY <2>2, <4>2, <4>4, <4>5 DEF BatchInv, BufferInOrder
      <4>6. CASE i = Len(Buffer) + 1
        <5>1. {Buffer[j] : j \in 1..(i - 1)} = Range(Buffer)
          BY <2>9, <4>2, <4>6 DEF Range
        <5>2. Buffer'[i] = b
          BY <4>2, <4>6
        <5>3. Chain[Parent[b]] = Taken \cup {Buffer'[j] : j \in 1..(i - 1)}
          BY <2>4, <4>4, <5>1 DEF Delivered
        <5> QED BY <5>2, <5>3
      <4> QED BY <4>2, <4>5, <4>6
    <3>3. NumberedInv'
      BY <2>2, <2>5, <2>7, <2>8 DEF BatchInv, NumberedInv
    <3>4. RangeInv'
      BY <2>2, <2>7, <2>8 DEF BatchInv, RangeInv
    <3>5. StreamInv'
      <4>1. bf.rest = Chain[Final] \ Delivered
        BY <2>1, <2>2 DEF BatchInv, StreamInv
      <4>2. consumer[cur].st # "done"
        BY <2>2 DEF BatchInv, StreamInv
      <4> QED BY <2>2, <2>4, <2>5, <2>8, <2>10, <4>1, <4>2 DEF BatchInv, StreamInv
    <3> QED BY <3>1, <3>2, <3>3, <3>4, <3>5 DEF BatchInv
  <2> QED BY <1>3, <2>5, <2>6, <2>11, GoroutineKeeps
<1>4. ASSUME OnBatchDone, Outside PROVE SteadyInv' /\ UNCHANGED dbVars
  <2>1. bf.st = "stream" /\ conn /\ bf.rest = {}
    BY <1>4 DEF OnBatchDone
  <2>2. pc = "select" /\ BatchInv /\ bf.gen = cur /\ cur \in Gen /\ ~chan[cur].closed /\ ~Barren
    BY <2>1, StreamsInBatch
  <2>3. /\ UNCHANGED <<dbVars, pc, highest, cur, conn, torn, fetcher, ends, errChan, consumer, point>>
        /\ bf'.st = "idle" /\ bf'.gen = NoHash
        /\ chan' = [chan EXCEPT ![cur].closed = TRUE]
        /\ Buffer' = Buffer /\ chan'[cur].closed
    BY <1>4, <2>2 DEF OnBatchDone, dbVars, Buffer, FetchIdle, TypeInv, TypeOK, ProcTypeOK
  <2>4. RoutineInv'
    BY <2>1, <2>2, <2>3 DEF SteadyInv, RoutineInv, TypeInv, TypeOK, ProcTypeOK
  <2>5. BatchInv'
    <3>1. Delivered = Chain[Final]
      BY <2>1, <2>2 DEF BatchInv, StreamInv
    <3>2. StreamInv'
      BY <2>2, <2>3, <3>1, SameBlocks DEF BatchInv, StreamInv
    <3> QED BY <2>2, <2>3, <3>2, SameBlocks
  <2> QED BY <1>4, <2>3, <2>4, <2>5, GoroutineKeeps
<1> QED BY <1>1, <1>2, <1>3, <1>4 DEF BlockFetch

-----------------------------------------------------------------------------
(* The consumer *)

(* A block in the channel continues the chain that has been numbered, and  *)
(* the height the consumer counts is its height.                           *)
LEMMA HeadFollows ==
    ASSUME TypeInv, SteadyInv, pc = "select", Buffer # <<>>
    PROVE  LET b == Head(Buffer)
           IN  /\ b \in Block /\ b \in Pending /\ b \notin Taken
               /\ Chain[b] = Taken \cup {b}
               /\ consumer[cur].height = Number[b] /\ (Number[b] = 0 <=> Parent[b] = Origin)
               /\ Parent[b] = Origin \/ Parent[b] \in Taken
               /\ Taken = {} => Parent[b] = Origin
               /\ LinkOK(consumer[cur], b)
<1> DEFINE b == Head(Buffer)
           c == consumer[cur]
<1>0. BatchInv /\ Continues(c) /\ Buffer \in Seq(Block)
  BY DEF SteadyInv, BatchInv, Barren, Buffer, TypeInv, TypeOK, ProcTypeOK
<1>1. b \in Block /\ b = Buffer[1] /\ Len(Buffer) >= 1 /\ b \in Range(Buffer)
  BY <1>0, RangeOfTail
<1>2. Chain[Parent[b]] = Taken
  <2>1. 1 \in 1..Len(Buffer) /\ 1..(1 - 1) = {}
    BY <1>0, <1>1
  <2>2. {Buffer[j] : j \in 1..(1 - 1)} = {}
    BY <2>1
  <2>3. Chain[Parent[Buffer[1]]] = Taken \cup {Buffer[j] : j \in 1..(1 - 1)}
    BY <1>0, <2>1, Zenon DEF BatchInv, BufferInOrder
  <2> QED BY <1>1, <2>2, <2>3
<1>3. b \notin Taken /\ Chain[b] = Taken \cup {b} /\ Parent[b] \in Point
  BY <1>1, <1>2, ChainOfBlock
<1>4. b \in Pending
  <2>1. b \in Chain[Final] /\ Final \in Pending
    BY <1>0, <1>1 DEF BatchInv, StreamInv, RangeInv, Delivered
  <2>2. Final \in Rows /\ Chain[Final] \subseteq Rows
    BY <2>1, RowsSplit DEF SteadyInv, KnownInv, TypeInv, TypeOK
  <2> QED BY <1>3, <2>1, <2>2, RowsSplit DEF Taken, TypeInv, TypeOK
<1> HIDE DEF b
<1>5. CASE Taken = {}
  <2>1. Parent[b] = Origin
    BY <1>2, <1>3, <1>5, ChainOfBlock DEF Point
  <2>2. c.height = 0 /\ Number[b] = 0
    BY <1>0, <1>1, <1>5, <2>1, NumbersGrow DEF Continues
  <2>3. LinkOK(c, b)
    BY <2>2 DEF LinkOK
  <2> QED BY <1>1, <1>3, <1>4, <2>1, <2>2, <2>3 DEF b
<1>6. CASE Taken # {}
  <2>1. PICK e \in {c.prev, c.prevBoundary} :
            e \in Taken /\ Taken = Chain[e] /\ c.height = NumberAfter(e)
    BY <1>0, <1>6 DEF Continues
  <2>2. e \in Block /\ e \in Point
    BY <1>2, <1>3, <2>1, ChainOfPoint DEF Point
  <2>3. Parent[b] = e
    BY <1>2, <1>3, <2>1, <2>2, SameChain
  <2>4. Parent[b] # Origin
    BY <2>2, <2>3, HashAssumption
  <2>5. Number[b] = c.height
    BY <1>1, <2>1, <2>3, <2>4, NumbersGrow
  <2>6. LinkOK(c, b)
    BY <2>1, <2>3 DEF LinkOK
  <2>7. Number[b] # 0
    <3>1. PICK r \in Chain[Parent[b]] : Parent[r] = Origin
      BY <1>0, <1>2, <1>6 DEF BatchInv, NumberedInv
    <3> QED BY <1>1, <3>1, NumbersGrow
  <2> QED BY <1>1, <1>3, <1>4, <1>6, <2>1, <2>3, <2>4, <2>5, <2>6, <2>7 DEF b
<1> QED BY <1>5, <1>6

(* Only the consumer of the current generation is alive. *)
LEMMA ConsumerKeeps ==
    ASSUME TypeInv, SteadyInv, NEW g \in Gen, Consumer(g)
    PROVE  SteadyInv' /\ UNCHANGED dbVars
<1>0. g = cur /\ cur \in Gen /\ cur # NoHash /\ consumer[cur] \in ConsumerType
  BY GenAssumption
     DEF Consumer, ConsumerStarts, ConsumeBlock, ChainBroken, ConsumerDone, Receives,
         SteadyInv, RoutineInv, TypeInv, TypeOK, ProcTypeOK
<1>1. ASSUME ConsumerStarts(g), Outside PROVE SteadyInv' /\ UNCHANGED dbVars
  <2>1. /\ UNCHANGED <<dbVars, pc, highest, cur, conn, torn, chan, ends, errChan, fetcher, bf, point>>
        /\ consumer[cur].st = "start"
        /\ \A k \in Gen \ {cur} : consumer'[k] = consumer[k]
        /\ consumer'[cur].st = "run" /\ consumer'[cur].on = cur
        /\ consumer'[cur].refs = consumer[cur].refs /\ consumer'[cur].last = consumer[cur].last
        /\ consumer'[cur].prev = consumer[cur].prev /\ consumer'[cur].height = consumer[cur].height
        /\ consumer'[cur].prevBoundary = consumer[cur].prevBoundary
    BY <1>0, <1>1 DEF ConsumerStarts, dbVars, TypeInv, TypeOK, ProcTypeOK, ConsumerType
  <2>2. RoutineInv'
    BY <1>0, <2>1 DEF SteadyInv, RoutineInv, Quiet
  <2>3. pc = "txs" => FALSE
    BY <2>1 DEF SteadyInv, RoutineInv, Quiet
  <2>4. pc = "select" => BatchInv'
    <3>1. SUFFICES ASSUME pc = "select" PROVE BatchInv'
      OBVIOUS
    <3>2. Buffer' = Buffer /\ BatchInv /\ Batch' = Batch
      BY <2>1, <3>1 DEF SteadyInv, Buffer, Batch
    <3>3. Barren = Barren'
      BY <2>1, <3>2 DEF Barren
    <3>4. StreamInv'
      BY <2>1, <3>2, <3>3, SameBlocks DEF BatchInv, StreamInv
    <3> QED BY <2>1, <3>2, <3>3, <3>4, SameBlocks
  <2> QED BY <1>1, <2>1, <2>2, <2>3, <2>4, GoroutineKeeps
<1>2. ASSUME ConsumerDone(g), Outside PROVE SteadyInv' /\ UNCHANGED dbVars
  <2>1. /\ UNCHANGED <<dbVars, pc, highest, cur, conn, torn, chan, ends, errChan, fetcher, bf, point>>
        /\ consumer[cur].st = "run" /\ consumer[cur].on = cur
        /\ chan[cur].closed /\ chan[cur].buf = <<>>
        /\ \A k \in Gen \ {cur} : consumer'[k] = consumer[k]
        /\ consumer'[cur].st = "done"
        /\ consumer'[cur].refs = consumer[cur].refs /\ consumer'[cur].last = consumer[cur].last
        /\ consumer'[cur].prev = consumer[cur].prev /\ consumer'[cur].height = consumer[cur].height
        /\ consumer'[cur].prevBoundary = consumer[cur].prevBoundary
    BY <1>0, <1>2 DEF ConsumerDone, dbVars, ghostVars, TypeInv, TypeOK, ProcTypeOK, ConsumerType,
                      SteadyInv, RoutineInv
  <2>2. RoutineInv'
    BY <1>0, <2>1 DEF SteadyInv, RoutineInv, Quiet
  <2>3. pc = "txs" => FALSE
    BY <2>1 DEF SteadyInv, RoutineInv, Quiet
  <2>4. pc = "select" => BatchInv'
    <3>1. SUFFICES ASSUME pc = "select" PROVE BatchInv'
      OBVIOUS
    <3>2. Buffer' = Buffer /\ Buffer = <<>> /\ BatchInv /\ Batch' = Batch
      BY <2>1, <3>1 DEF SteadyInv, Buffer, Batch
    <3>3. Barren = Barren'
      BY <2>1, <3>2 DEF Barren
    <3>4. StreamInv'
      BY <2>1, <3>2, <3>3, SameBlocks DEF BatchInv, StreamInv
    <3> QED BY <2>1, <3>2, <3>3, <3>4, SameBlocks
  <2> QED BY <1>2, <2>1, <2>2, <2>3, <2>4, GoroutineKeeps
<1>3. ASSUME ChainBroken(g), Outside PROVE SteadyInv' /\ UNCHANGED dbVars
  <2>1. /\ UNCHANGED <<dbVars, pc, highest, cur, conn, torn, ends, fetcher, bf>>
        /\ consumer[cur].st = "run" /\ consumer[cur].on = cur /\ Buffer # <<>>
        /\ ~LinkOK(consumer[cur], Head(Buffer))
        /\ chan' = [chan EXCEPT ![cur].buf = Tail(@)]
        /\ \A k \in Gen \ {cur} : consumer'[k] = consumer[k]
        /\ consumer'[cur] = NoConsumer
    BY <1>0, <1>3 DEF ChainBroken, Receives, ghostVars, TypeInv, TypeOK, ProcTypeOK,
                      SteadyInv, RoutineInv, Buffer
  <2>2. pc # "select" /\ pc # "txs" /\ chan'[cur].closed = chan[cur].closed
    BY <1>0, <2>1, HeadFollows DEF SteadyInv, RoutineInv, Quiet, TypeInv, TypeOK, ProcTypeOK
  <2>3. RoutineInv'
    BY <1>0, <2>1, <2>2, InitialValues DEF SteadyInv, RoutineInv, Quiet
  <2> QED BY <1>3, <2>1, <2>2, <2>3, GoroutineKeeps
<1>4. ASSUME ConsumeBlock(g), Outside PROVE SteadyInv' /\ UNCHANGED dbVars
  <2> DEFINE b == Head(Buffer)
             c == consumer[cur]
  <2>1. /\ UNCHANGED <<dbVars, pc, highest, cur, conn, torn, ends, fetcher, errChan, bf, point>>
        /\ c.st = "run" /\ c.on = cur /\ Buffer # <<>> /\ Buffer \in Seq(Block)
        /\ consumer' = [consumer EXCEPT ![cur] = Numbered(c, b)]
        /\ chan' = [chan EXCEPT ![cur].buf = Tail(@)]
    BY <1>0, <1>4 DEF ConsumeBlock, Receives, ghostVars, dbVars, TypeInv, TypeOK, ProcTypeOK,
                      SteadyInv, RoutineInv, Buffer
  <2>2. b \in Block /\ Buffer' = Tail(Buffer) /\ chan'[cur].closed = chan[cur].closed
    BY <1>0, <2>1, RangeOfTail DEF Buffer, TypeInv, TypeOK, ProcTypeOK
  <2>3. /\ \A k \in Gen \ {cur} : consumer'[k] = consumer[k]
        /\ consumer'[cur].st = "run" /\ consumer'[cur].on = cur
    BY <1>0, <2>1, <2>2, NumberedType DEF TypeInv, TypeOK, ProcTypeOK
  <2>4. RoutineInv'
    BY <1>0, <2>1, <2>2, <2>3 DEF SteadyInv, RoutineInv, Quiet
  <2>5. pc # "txs"
    BY <2>1 DEF SteadyInv, RoutineInv, Quiet
  <2>6. pc = "select" => BatchInv'
    <3> SUFFICES ASSUME pc = "select" PROVE BatchInv'
      OBVIOUS
    <3>0. BatchInv
      BY DEF SteadyInv
    <3>1. /\ b \in Pending /\ b \notin Taken /\ Chain[b] = Taken \cup {b} /\ c.height = Number[b]
          /\ Number[b] = 0 <=> Parent[b] = Origin
          /\ Taken = {} => Parent[b] = Origin
      BY <2>1, HeadFollows
    <3>2. /\ consumer'[cur].refs = [c.refs EXCEPT ![b] = c.height]
          /\ consumer'[cur].last = [block |-> b, height |-> c.height]
          /\ consumer'[cur].height = NumberAfter(b)
          /\ b \in {consumer'[cur].prev, consumer'[cur].prevBoundary}
      <4>1. consumer'[cur] = Numbered(c, b)
        BY <1>0, <2>1 DEF TypeInv, TypeOK, ProcTypeOK
      <4>2. Number[b] \in Nat
        BY <2>2, NumbersGrow
      <4>3. b \in Boundary /\ c.height > 0 <=> b \in Boundary /\ Parent[b] # Origin
        BY <3>1, <4>2
      <4>4. /\ consumer'[cur].refs = [c.refs EXCEPT ![b] = c.height]
            /\ consumer'[cur].last = [block |-> b, height |-> c.height]
            /\ consumer'[cur].height = IF b \in Boundary /\ c.height > 0 THEN c.height ELSE c.height + 1
            /\ consumer'[cur].prev = IF b \in Boundary THEN c.prev ELSE b
            /\ consumer'[cur].prevBoundary = IF b \in Boundary THEN b ELSE c.prevBoundary
        BY <1>0, <4>1 DEF Numbered, ConsumerType
      <4>5. consumer'[cur].height = NumberAfter(b)
        BY <3>1, <4>3, <4>4 DEF NumberAfter
      <4>6. b \in {consumer'[cur].prev, consumer'[cur].prevBoundary}
        BY <4>4
      <4> QED BY <4>4, <4>5, <4>6
    <3> HIDE DEF b
    <3>3. Processed' = Processed /\ Pending' = Pending /\ Rows' = Rows /\ First' = First /\ Final' = Final
      BY <2>1 DEF Processed, Pending, Rows, First, Final
    <3>4. Number[b] \in Nat
      BY <2>2, NumbersGrow
    <3>5. Batch' = Batch \cup {b}
      BY <1>0, <2>1, <2>2, <3>1, <3>2, <3>4 DEF Batch, ConsumerType, Absent
    <3>6. Taken' = Taken \cup {b} /\ Taken' = Chain[b]
      BY <3>1, <3>3, <3>5 DEF Taken
    <3>7. Delivered' = Delivered
      <4>1. Range(Buffer) = {b} \cup Range(Buffer')
        BY <2>1, <2>2, RangeOfTail DEF b
      <4> QED BY <3>6, <4>1 DEF Delivered
    <3>8. (Continues(consumer[cur]))'
      BY <2>1, <3>2, <3>6 DEF Continues
    <3>9. BufferInOrder'
      <4>1. SUFFICES ASSUME NEW i \in 1..Len(Buffer')
                     PROVE  Chain[Parent[Buffer'[i]]] = Taken' \cup {Buffer'[j] : j \in 1..(i - 1)}
        BY DEF BufferInOrder
      <4>2. /\ i + 1 \in 1..Len(Buffer) /\ (i + 1) - 1 = i /\ Buffer'[i] = Buffer[i + 1]
            /\ {Buffer[j] : j \in 1..i} = {b} \cup {Buffer'[j] : j \in 1..(i - 1)}
        <5>1. i \in 1..Len(Tail(Buffer))
          BY <2>2
        <5>2. /\ i + 1 \in 1..Len(Buffer) /\ (i + 1) - 1 = i /\ Tail(Buffer)[i] = Buffer[i + 1]
              /\ {Buffer[j] : j \in 1..i} = {Head(Buffer)} \cup {Tail(Buffer)[j] : j \in 1..(i - 1)}
          BY <2>1, <5>1, FrontOfTail
        <5> QED BY <2>2, <5>2, Zenon DEF b
      <4>3. Chain[Parent[Buffer[i + 1]]] = Taken \cup {Buffer[j] : j \in 1..i}
        BY <3>0, <4>2 DEF BatchInv, BufferInOrder
      <4> QED BY <3>6, <4>2, <4>3
    <3>10. NumberedInv'
      <4>1. \A a \in Batch' : consumer'[cur].refs[a] = Number[a]
        BY <1>0, <2>2, <3>0, <3>1, <3>2, <3>5 DEF BatchInv, NumberedInv, ConsumerType, Batch
      <4>2. \E a \in Taken' : Parent[a] = Origin
        BY <3>0, <3>1, <3>6 DEF BatchInv, NumberedInv
      <4>3. Batch' \subseteq Pending'
        BY <3>0, <3>1, <3>3, <3>5 DEF BatchInv, NumberedInv
      <4> QED BY <2>1, <3>1, <3>2, <3>5, <3>6, <4>1, <4>2, <4>3 DEF NumberedInv
    <3>11. RangeInv'
      BY <3>0, <3>3 DEF BatchInv, RangeInv
    <3>12. StreamInv'
      BY <2>1, <2>2, <2>3, <3>0, <3>3, <3>7 DEF BatchInv, StreamInv, Barren
    <3> QED BY <3>8, <3>9, <3>10, <3>11, <3>12 DEF BatchInv
  <2> QED BY <1>4, <2>1, <2>4, <2>5, <2>6, GoroutineKeeps
<1> QED BY <1>1, <1>2, <1>3, <1>4 DEF Consumer

-----------------------------------------------------------------------------
(* The range of a batch *)

(* BatchLength leaves at least the window of pending points behind. *)
LEMMA BatchLengthBound ==
    /\ IsFiniteSet(Pending) /\ Cardinality(Pending) \in Nat
    /\ BatchLength \in Int /\ BatchLength <= Cardinality(Pending) - ReorgWindow
<1>1. IsFiniteSet(Pending) /\ Cardinality(Pending) \in Nat
  BY TreeAssumption, FS_Subset, FS_CardinalityType DEF Pending
<1> DEFINE n == Cardinality(Pending)
           m == BlockBatchSize + ReorgWindow
           least == Min({n, m})
<1>2. n \in Nat /\ m \in Nat
  BY <1>1, BatchAssumption
<1> HIDE DEF n, m
<1>3. least \in {n, m} /\ \A y \in {n, m} : least <= y
  <2>1. \E x \in {n, m} : \A y \in {n, m} : x <= y
    BY <1>2
  <2> QED BY <2>1 DEF Min
<1>4. least \in Int /\ least <= n
  BY <1>2, <1>3
<1>5. BatchLength = least - ReorgWindow
  BY DEF BatchLength, n, m
<1> HIDE DEF least
<1> QED BY <1>1, <1>4, <1>5, BatchAssumption DEF n

(* On the chain of the rows, a row that is not before an end of a batch is *)
(* that one or comes after it.                                             *)
LEMMA RowsOrdered ==
    ASSUME TypeInv, SteadyInv, NEW e, CutInOrder(e),
           NEW b \in Rows, b \in {e[1], e[2]}, NEW c \in Rows, b # c
    PROVE  \/ b \in Chain[Parent[c]] /\ Before(b, c, early)
           \/ c \in Chain[Parent[b]] /\ Before(c, b, early)
<1>1. b \in Block /\ c \in Block /\ (b \in Chain[c] \/ c \in Chain[b])
  BY ChainOfPoint DEF SteadyInv, KnownInv, TypeInv, TypeOK
<1>2. b \in Chain[Parent[c]] \/ c \in Chain[Parent[b]]
  BY <1>1, BelowParent
<1> QED BY <1>1, <1>2 DEF CutInOrder

(* The range of a batch begins where the processed chain ends, and its     *)
(* last block has the window of rows above it.                             *)
LEMMA RangeOfBatch ==
    ASSUME TypeInv, SteadyInv, NEW e \in BatchEnds(early), CutInOrder(e)
    PROVE  /\ e[1] \in Pending /\ e[2] \in Pending
           /\ e[1] \in Chain[e[2]]
           /\ Chain[Parent[e[1]]] = Processed
           /\ Cardinality({c \in Rows : e[2] \in Chain[Parent[c]]}) >= ReorgWindow
<1> DEFINE first == e[1]
           final == e[2]
           before(b) == {c \in Pending : Before(c, b, early)}
<1>1. /\ first \in Pending /\ final \in Pending
      /\ Cardinality(before(first)) < 1 /\ Cardinality(before(final)) < BatchLength
  BY DEF BatchEnds, PendingAt
<1>2. Pending \cup Processed = Rows /\ Pending \cap Processed = {} /\ Rows \subseteq Block
  BY RowsSplit DEF TypeInv, TypeOK
<1>3. before(first) = {} /\ IsFiniteSet(before(final))
  <2>1. \A b : before(b) \subseteq Pending
    OBVIOUS
  <2>2. \A b : IsFiniteSet(before(b)) /\ Cardinality(before(b)) \in Nat
    BY <2>1, BatchLengthBound, FS_Subset, FS_CardinalityType
  <2> HIDE DEF before
  <2> QED BY <1>1, <2>2, FS_EmptySet
<1>10. CutInOrder(e) /\ first \in {e[1], e[2]} /\ final \in {e[1], e[2]}
  OBVIOUS
<1> HIDE DEF first, final
<1>4. ASSUME NEW a \in Chain[Parent[first]] PROVE a \in Processed
  <2>1. a \in Chain[first] /\ Chain[first] \subseteq Rows
    BY <1>1, <1>2, ChainOfBlock DEF SteadyInv, KnownInv
  <2>2. a # first
    BY <1>1, <1>2, ChainOfBlock
  <2>3. Before(a, first, early)
    BY <1>1, <1>2, <1>10 DEF CutInOrder
  <2> QED BY <1>2, <1>3, <2>1, <2>3
<1>5. ASSUME NEW b \in Processed PROVE b \in Chain[Parent[first]]
  <2>1. b \in Chain[Parent[first]] \/ first \in Chain[Parent[b]]
    BY <1>1, <1>2, <1>10, RowsOrdered
  <2>2. first \notin Chain[Parent[b]]
    <3>1. b \in Block /\ Chain[b] \subseteq Processed
      BY ProcessedClosed DEF SteadyInv, ChainInv
    <3> QED BY <1>1, <1>2, <3>1, ChainOfBlock
  <2> QED BY <2>1, <2>2
<1>6. Chain[Parent[first]] = Processed
  BY <1>4, <1>5
<1>7. first \in Chain[final]
  <2>1. CASE first = final
    BY <1>1, <1>2, <2>1, ChainOfBlock
  <2>2. CASE first # final
    BY <1>1, <1>2, <1>6, <1>10, <2>2, RowsOrdered, ChainOfBlock
  <2> QED BY <2>1, <2>2
<1> DEFINE above == {c \in Rows : final \in Chain[Parent[c]]}
           below == before(final)
<1>8. Cardinality(above) >= ReorgWindow
  <2>1. Pending \subseteq (below \cup {final}) \cup above
    <3>1. SUFFICES ASSUME NEW c \in Pending, c # final PROVE c \in below \/ c \in above
      OBVIOUS
    <3>2. c \in Rows /\ final \in Rows
      BY <1>1, <1>2, <3>1
    <3>3. Before(c, final, early) \/ final \in Chain[Parent[c]]
      BY <1>10, <3>1, <3>2, RowsOrdered
    <3> QED BY <3>1, <3>2, <3>3
  <2>2. IsFiniteSet(above)
    BY <1>2, TreeAssumption, FS_Subset
  <2> HIDE DEF above, below
  <2>3. IsFiniteSet(below) /\ Cardinality(below) \in Nat /\ Cardinality(below) < BatchLength
    BY <1>1, <1>3, FS_CardinalityType DEF below
  <2> DEFINE low == below \cup {final}
  <2>4. IsFiniteSet(low) /\ Cardinality(low) \in Nat /\ Cardinality(low) <= Cardinality(below) + 1
    <3>1. /\ IsFiniteSet(low)
          /\ Cardinality(low) = Cardinality(below) \/ Cardinality(low) = Cardinality(below) + 1
      BY <2>3, FS_AddElement, ZenonT(30)
    <3>2. Cardinality(low) \in Nat
      BY <3>1, FS_CardinalityType
    <3> QED BY <2>3, <3>1, <3>2
  <2> HIDE DEF low
  <2>5. /\ IsFiniteSet(low \cup above)
        /\ Cardinality(low \cup above) = Cardinality(low) + Cardinality(above) - Cardinality(low \cap above)
    BY <2>2, <2>4, FS_Union
  <2>6. /\ Cardinality(above) \in Nat /\ Cardinality(low \cap above) \in Nat
        /\ Cardinality(low \cup above) \in Nat
    BY <2>2, <2>4, <2>5, FS_CardinalityType, FS_Intersection
  <2>7. Cardinality(Pending) <= Cardinality(low \cup above)
    BY <2>1, <2>5, FS_Subset DEF low
  <2> QED BY <2>3, <2>4, <2>5, <2>6, <2>7, BatchLengthBound, BatchAssumption
<1> QED BY <1>1, <1>6, <1>7, <1>8 DEF first, final

-----------------------------------------------------------------------------
(* The pass *)

(* A pass that ends without having stored anything. *)
LEMMA PassLeaves ==
    ASSUME TypeInv, SteadyInv, Outside, pc \notin {"idle", "txs"}, pc' \in {"idle", "exit"},
           UNCHANGED <<highest, cur, chan, fetcher, ends, consumer, bf, conn>>,
           UNCHANGED <<dbVars, torn>>, errChan' \subseteq errChan, conn => Quiet
    PROVE  SteadyInv'
<1>1. UNCHANGED <<point, rolledBack, tx, leaked>>
  BY DEF dbVars
<1>2. Processed' = Processed /\ KnownInv'
  BY <1>1, KnownKept DEF SteadyInv, Processed
<1>3. ChainInv'
  BY <1>2 DEF SteadyInv, ChainInv, WholeChain
<1>4. RoutineInv'
  BY DEF SteadyInv, RoutineInv, Quiet
<1>5. HighestInv'
  BY <1>2 DEF SteadyInv, HighestInv, IsHighestOrLost, IsHighest
<1>6. TxComplete'
  <2>1. InFlight = {} /\ InFlight' = {}
    BY DEF InFlight
  <2> QED BY <1>1, <2>1, TxCompleteKept DEF SteadyInv
<1> QED BY <1>2, <1>3, <1>4, <1>5, <1>6 DEF SteadyInv

(* A batch begins at the end of the processed chain. *)
LEMMA StartBatchKeeps ==
    ASSUME TypeInv, SteadyInv, NEW g \in Gen, StartBatch(g), Outside, WellCut'
    PROVE  SteadyInv' /\ UNCHANGED dbVars
<1> DEFINE height == IF HighestIsSet THEN highest.height + 1 ELSE highest.height
           new == [NoConsumer EXCEPT !.st = "start", !.height = height, !.prev = highest.block]
<1>1. /\ UNCHANGED <<point, rolledBack, tx, leaked, torn, highest, bf, conn>> /\ UNCHANGED dbVars
      /\ cur' = g /\ pc' = "select" /\ pc \in {"spawned", "loop"}
      /\ chan' = [chan EXCEPT ![g] = [buf |-> <<>>, closed |-> FALSE]]
      /\ errChan' = errChan \ {g}
      /\ fetcher' = [fetcher EXCEPT ![g] = "lock"]
      /\ consumer' = [consumer EXCEPT ![g] = new]
  BY DEF StartBatch, AtLoopHead, dbVars, ghostVars
<1>2. PICK e \in BatchEnds(early) : ends' = [ends EXCEPT ![g] = e]
  BY DEF StartBatch
<1>3. /\ consumer'[g].st = "start" /\ consumer'[g].refs = EmptyRefs /\ consumer'[g].last = ZeroPoint
      /\ consumer'[g].prev = highest.block /\ consumer'[g].height = height
      /\ \A k \in Gen \ {g} : consumer'[k] = consumer[k]
  BY <1>1 DEF NoConsumer, TypeInv, TypeOK, ProcTypeOK
<1>4. /\ chan'[g].buf = <<>> /\ ~chan'[g].closed
      /\ fetcher'[g] = "lock" /\ \A k \in Gen \ {g} : fetcher'[k] = fetcher[k]
      /\ ends'[g] = e /\ g \notin errChan'
  BY <1>1, <1>2 DEF TypeInv, TypeOK, ProcTypeOK
<1>5. Processed' = Processed /\ Pending' = Pending /\ Rows' = Rows
  BY <1>1 DEF Processed, Pending, Rows
<1>6. Batch' = {} /\ Taken' = Processed /\ Buffer' = <<>> /\ Delivered' = Processed
  <2>1. Batch' = {}
    BY <1>1, <1>3 DEF Batch, EmptyRefs
  <2>2. Buffer' = <<>>
    BY <1>1, <1>4 DEF Buffer
  <2> QED BY <1>5, <2>1, <2>2, RangeOfEmpty DEF Taken, Delivered
<1>7. First' = e[1] /\ Final' = e[2]
  BY <1>1, <1>4 DEF First, Final
<1>8. KnownInv'
  BY <1>1, KnownKept DEF SteadyInv
<1>9. ChainInv'
  BY <1>5 DEF SteadyInv, ChainInv, WholeChain
<1>10. Quiet
  BY <1>1 DEF SteadyInv, RoutineInv
<1>11. RoutineInv'
  BY <1>1, <1>3, <1>4, <1>10 DEF SteadyInv, RoutineInv, Quiet
<1>12. HighestInv'
  BY <1>1, <1>5 DEF SteadyInv, HighestInv, IsHighestOrLost, IsHighest
<1>13. BatchInv'
  <2>1. IsHighestOrLost(highest) /\ highest \in PointRef
    BY <1>1 DEF SteadyInv, HighestInv, TypeInv, TypeOK, ProcTypeOK
  <2>2. (Continues(consumer[cur]) \/ Barren)'
    <3>1. CASE IsHighest(highest)
      <4>1. CASE Processed = {}
        BY <1>1, <1>3, <1>6, <3>1, <4>1 DEF IsHighest, Continues, HighestIsSet
      <4>2. CASE Processed # {}
        <5>1. /\ highest.block # NoHash /\ highest.block \in Processed
              /\ Processed = Chain[highest.block] /\ highest.height = Number[highest.block]
          BY <3>1, <4>2 DEF IsHighest
        <5>2. highest.block \notin Boundary
          BY <5>1 DEF SteadyInv, ChainInv, Processed
        <5>3. height = NumberAfter(highest.block)
          BY <5>1, <5>2 DEF HighestIsSet, NumberAfter
        <5> QED BY <1>1, <1>3, <1>6, <4>2, <5>1, <5>3 DEF Continues
      <4> QED BY <4>1, <4>2
    <3>2. CASE ~conn
      BY <1>1, <1>6, <1>10, <3>2 DEF Barren, Quiet
    <3> QED BY <2>1, <3>1, <3>2 DEF IsHighestOrLost
  <2>3. BufferInOrder'
    BY <1>6 DEF BufferInOrder
  <2>4. NumberedInv'
    <3>1. Processed # {} => \E b \in Processed : Parent[b] = Origin
      BY DEF SteadyInv, ChainInv, WholeChain
    <3> QED BY <1>1, <1>3, <1>6, <3>1 DEF NumberedInv
  <2>5. /\ e[1] \in Pending /\ e[2] \in Pending /\ e[1] \in Chain[e[2]]
        /\ Chain[Parent[e[1]]] = Processed
        /\ Cardinality({c \in Rows : e[2] \in Chain[Parent[c]]}) >= ReorgWindow
    <3>1. CutInOrder(e)
      BY <1>1, <1>4 DEF WellCut, CutInOrder, Outside, clientVars
    <3> QED BY <3>1, RangeOfBatch
  <2>6. e[1] \in Block /\ e[2] \in Block
    BY <2>5 DEF Pending
  <2>7. RangeInv'
    <3>1. Final' \notin Boundary
      BY <1>1 DEF WellCut
    <3> QED BY <1>5, <1>7, <2>5, <2>6, <3>1 DEF RangeInv
  <2>8. Processed \subseteq Chain[e[2]]
    BY <2>5, <2>6, ChainOfBlock, ChainOfPoint
  <2>9. StreamInv'
    BY <1>1, <1>3, <1>4, <1>6, <1>7, <1>10, <2>8 DEF StreamInv, Quiet
  <2> QED BY <2>2, <2>3, <2>4, <2>7, <2>9 DEF BatchInv
<1>14. TxComplete'
  <2>1. InFlight = {}
    BY <1>1 DEF InFlight
  <2> QED BY <1>1, <2>1, TxCompleteKept DEF SteadyInv
<1> QED BY <1>1, <1>8, <1>9, <1>11, <1>12, <1>13, <1>14 DEF SteadyInv

(* A batch that is done is the rest of the chain up to its last point, or  *)
(* is empty because the connection was lost.                               *)
LEMMA TakeDoneKeeps ==
    ASSUME TypeInv, IndexInv, SteadyInv, TakeDone, Outside
    PROVE  SteadyInv' /\ [IndexNext]_dbVars
<1> DEFINE c == consumer[cur]
<1>1. /\ pc = "select" /\ c.st = "done" /\ pc' = "txs"
      /\ UNCHANGED <<highest, cur, chan, fetcher, ends, errChan, consumer, bf, conn>>
      /\ UNCHANGED <<rolledBack, tx, leaked, torn>>
      /\ SetPointHeights(c.refs) /\ ~leaked
  BY DEF TakeDone, SteadyInv, KnownInv
<1>2. BatchInv /\ chan[cur].closed /\ Buffer = <<>> /\ Delivered = Taken
  BY <1>1, RangeOfEmpty DEF SteadyInv, BatchInv, StreamInv, Delivered
<1>3. c.refs \in [Block -> {Absent} \cup Nat]
  BY DEF TypeInv, TypeOK, ProcTypeOK, ConsumerType
<1>4. /\ Batch \subseteq Pending /\ \A b \in Batch : c.refs[b] = Number[b] /\ Number[b] \in Nat
      /\ \A b \in Block \ Batch : c.refs[b] = Absent
  BY <1>2, NumberAssumption DEF BatchInv, NumberedInv, Batch
<1>5. Batch' = Batch
  BY <1>1 DEF Batch
<1>6. /\ \A b \in Batch : point'[b] = Number[b]
      /\ \A b \in Block \ Batch : point'[b] = point[b]
  BY <1>1, <1>3, <1>4 DEF SetPointHeights, Pending, Absent, Unprocessed
<1>7. Processed' = Taken /\ Rows' = Rows
  <2>1. Batch \subseteq Block
    BY DEF Batch
  <2>2. Processed' = Taken
    BY <1>4, <1>6, <2>1 DEF Processed, Taken
  <2>3. Rows' = Rows
    BY <1>4, <1>6, <2>1 DEF Rows, Pending, Absent, Unprocessed
  <2> QED BY <2>2, <2>3
<1>8. \/ Batch = {} /\ ~conn
      \/ Batch # {}
  <2>1. CASE Barren
    BY <2>1 DEF Barren
  <2>2. CASE Delivered = Chain[Final]
    <3>1. Final \in Pending /\ Final \in Block /\ Final \in Taken
      BY <1>2, <2>2, ChainOfBlock DEF BatchInv, RangeInv
    <3> QED BY <3>1, RowsSplit DEF Taken, TypeInv, TypeOK
  <2> QED BY <1>2, <2>1, <2>2 DEF BatchInv, StreamInv
<1>9. [IndexNext]_dbVars
  <2>1. CASE Batch = {}
    <3>1. \A b \in Block : point'[b] = point[b]
      BY <1>6, <2>1
    <3>2. point' = point
      BY <1>1, <3>1 DEF SetPointHeights, TypeInv, TypeOK, DbTypeOK
    <3> QED BY <1>1, <3>2 DEF dbVars
  <2>2. CASE Batch # {}
    <3>1. c.last.block \in Batch /\ Processed \cup Batch = Chain[c.last.block]
      BY <1>2, <2>2 DEF BatchInv, NumberedInv, Taken
    <3>2. c.refs = [b \in Block |-> IF b \in Batch THEN Number[b] ELSE Absent]
      BY <1>3, <1>4
    <3>3. Process(Batch)
      BY <1>1, <1>4, <3>1, <3>2, Zenon DEF Process
    <3> QED BY <3>3 DEF IndexNext, Batch
  <2> QED BY <2>1, <2>2
<1>10. KnownInv'
  <2>1. Announced' = Announced /\ (OnNodeChain(view))' = OnNodeChain(view)
    BY DEF Outside, Announced, OnNodeChain, nodeVars, syncVars
  <2>2. csMsg.type # "backward" /\ status = "up"
    BY <1>1 DEF SteadyInv, KnownInv
  <2> QED BY <1>1, <1>7, <2>1, <2>2
          DEF SteadyInv, KnownInv, Outside, nodeVars, syncVars, clientVars
<1>11. ChainInv'
  <2>1. CASE Batch = {}
    BY <1>7, <2>1 DEF Taken, SteadyInv, ChainInv, WholeChain
  <2>2. CASE Batch # {}
    <3>1. c.last.block \in Block /\ Taken = Chain[c.last.block]
      BY <1>2, <2>2 DEF BatchInv, NumberedInv, Batch
    <3>2. \E b \in Taken : Parent[b] = Origin
      BY <1>2, <2>2 DEF BatchInv, NumberedInv, Taken
    <3>3. Taken = Chain[Final] /\ Final \in Block /\ Final \notin Boundary
      BY <1>2, <2>2 DEF BatchInv, StreamInv, RangeInv, Barren
    <3>4. ASSUME NEW t \in Block, Taken = Chain[t] PROVE t \notin Boundary
      BY <3>3, <3>4, SameChain DEF Point
    <3> QED BY <1>7, <3>1, <3>2, <3>4 DEF ChainInv, WholeChain
  <2> QED BY <2>1, <2>2
<1>12. RoutineInv'
  BY <1>1, <1>2 DEF SteadyInv, RoutineInv, Quiet
<1>13. HighestInv'
  <2>1. (IsHighestOrLost(consumer[cur].last))'
    <3>1. CASE Batch = {}
      BY <1>1, <1>2, <1>8, <3>1 DEF BatchInv, NumberedInv, IsHighestOrLost
    <3>2. CASE Batch # {}
      <4>1. /\ c.last.block \in Batch /\ Taken = Chain[c.last.block]
            /\ c.last.height = Number[c.last.block]
        BY <1>2, <3>2 DEF BatchInv, NumberedInv
      <4>2. c.last.block # NoHash
        BY <4>1, HashAssumption DEF Batch, Point
      <4>3. c.last.block \in Taken
        BY <4>1 DEF Taken
      <4> QED BY <1>1, <1>7, <4>1, <4>2, <4>3 DEF IsHighestOrLost, IsHighest
    <3> QED BY <3>1, <3>2
  <2>2. Processed \subseteq Processed'
    BY <1>7 DEF Taken
  <2> QED BY <1>1, <2>1, <2>2 DEF SteadyInv, HighestInv
<1>14. StoredInv'
  <2>1. Batch' \subseteq Processed' /\ \A b \in Batch' : consumer'[cur'].refs[b] = Number[b]
    BY <1>1, <1>4, <1>5, <1>7 DEF Taken
  <2>2. ASSUME NEW b \in Batch, NEW t \in TxsOf[b], tx[t] # Absent PROVE FALSE
    <3>1. b \in Block /\ t \in Tx
      BY <2>2, TxAssumption DEF Batch
    <3>2. PICK d \in Processed : t \in TxsOf[d]
      BY <2>2, <3>1 DEF IndexInv, TxBacked
    <3>3. c.last.block \in Point /\ Taken = Chain[c.last.block]
      BY <1>2, <2>2 DEF BatchInv, NumberedInv, Batch, Point
    <3>4. b # d
      BY <1>4, RowsSplit DEF TypeInv, TypeOK
    <3> QED BY <2>2, <3>2, <3>3, <3>4, TxsApart DEF Taken
  <2> QED BY <1>1, <1>5, <2>1, <2>2 DEF StoredInv
<1>15. TxComplete'
  <2>1. InFlight = {} /\ InFlight' = Batch
    BY <1>1 DEF InFlight, Batch
  <2>2. \A b \in Processed : b \in Block /\ b \notin Batch /\ point'[b] = point[b]
    BY <1>4, <1>6, RowsSplit DEF TypeInv, TypeOK
  <2> QED BY <1>1, <1>7, <2>1, <2>2 DEF SteadyInv, TxComplete, Taken
<1> QED BY <1>1, <1>9, <1>10, <1>11, <1>12, <1>13, <1>14, <1>15 DEF SteadyInv

(* No transaction of a stored batch is in two processed blocks, or         *)
(* recorded already.                                                       *)
LEMMA StoredIsNew ==
    ASSUME TypeInv, WholeChain, StoredInv
    PROVE  /\ \A t \in Tx : Holders(consumer[cur].refs, t) = {b \in Batch : t \in TxsOf[b]}
           /\ \A t \in Tx : \A b, d \in Processed : t \in TxsOf[b] /\ t \in TxsOf[d] => b = d
           /\ ~TxConflict(consumer[cur].refs)
<1> DEFINE c == consumer[cur]
<1>1. \A t \in Tx : Holders(c.refs, t) = {b \in Batch : t \in TxsOf[b]}
  BY DEF Holders, Batch
<1>2. ASSUME NEW t \in Tx, NEW b \in Processed, NEW d \in Processed, t \in TxsOf[b], t \in TxsOf[d]
      PROVE  b = d
  <2>1. PICK top \in Block : Processed = Chain[top]
    BY DEF WholeChain
  <2> QED BY <1>2, <2>1, TxsApart DEF Point
<1>3. ~TxConflict(c.refs)
  <2>1. SUFFICES ASSUME NEW t \in Tx, Holders(c.refs, t) # {}
                 PROVE  tx[t] = Absent /\ ~(Cardinality(Holders(c.refs, t)) > 1)
    BY DEF TxConflict
  <2>2. PICK b : b \in Holders(c.refs, t)
    BY <2>1
  <2>3. Holders(c.refs, t) = {b}
    BY <1>1, <1>2, <2>2 DEF StoredInv
  <2>4. Cardinality({b}) = 1
    BY FS_Singleton
  <2>5. tx[t] = Absent
    BY <1>1, <2>2 DEF StoredInv
  <2> QED BY <2>3, <2>4, <2>5
<1> QED BY <1>1, <1>2, <1>3

(* So the second SQL transaction of a batch succeeds, and records the      *)
(* transactions of processed blocks.                                       *)
LEMMA StoreTxsRecords ==
    ASSUME TypeInv, IndexInv, WholeChain, ~leaked, StoredInv, StoreTxs
    PROVE  /\ pc' = "loop" /\ highest' = consumer[cur].last /\ torn' = torn /\ leaked' = leaked
           /\ tx' = [t \in Tx |-> IF Holders(consumer[cur].refs, t) = {} THEN tx[t]
                                  ELSE consumer[cur].refs[CHOOSE b \in Block :
                                                            b \in Holders(consumer[cur].refs, t)]]
           /\ [IndexNext]_dbVars
<1> DEFINE c == consumer[cur]
<1>1. AddTxsForBlock(c.refs) /\ UNCHANGED <<point, rolledBack>>
  BY DEF StoreTxs
<1>2. c.refs \in [Block -> {Absent} \cup Nat]
  BY DEF TypeInv, TypeOK, ProcTypeOK, ConsumerType
<1>3. /\ pc' = "loop" /\ highest' = c.last /\ torn' = torn /\ leaked' = leaked
      /\ tx' = [t \in Tx |-> IF Holders(c.refs, t) = {} THEN tx[t]
                             ELSE c.refs[CHOOSE b \in Block : b \in Holders(c.refs, t)]]
  BY <1>1, StoredIsNew DEF StoreTxs, AddTxsForBlock
<1>4. \A b \in Batch : b \in Processed /\ c.refs[b] = point[b]
  BY DEF StoredInv, IndexInv, HeightTrue
<1>5. c.refs = [b \in Block |-> IF b \in Batch THEN point[b] ELSE Absent]
  BY <1>2, <1>4 DEF Batch
<1>6. AddTxsForBlock([b \in Block |-> IF b \in Batch THEN point[b] ELSE Absent])
  BY <1>1, <1>5, Zenon
<1>7. Record(Batch)
  BY <1>1, <1>4, <1>6 DEF Record
<1>8. IndexNext
  BY <1>7 DEF IndexNext, Batch
<1> QED BY <1>3, <1>8

(* highestPoint moves to the end of the processed chain. *)
LEMMA StoreTxsKeeps ==
    ASSUME TypeInv, IndexInv, SteadyInv, StoreTxs, Outside
    PROVE  SteadyInv' /\ [IndexNext]_dbVars
<1> DEFINE c == consumer[cur]
<1>1. /\ pc = "txs" /\ StoredInv /\ WholeChain /\ ~leaked
      /\ UNCHANGED <<cur, chan, fetcher, ends, errChan, consumer, bf, conn, point, rolledBack>>
  BY DEF StoreTxs, SteadyInv, KnownInv, ChainInv
<1>3. \A t \in Tx : Holders(c.refs, t) = {b \in Batch : t \in TxsOf[b]}
  BY <1>1, StoredIsNew
<1>4. ASSUME NEW t \in Tx, NEW b \in Processed, NEW d \in Processed, t \in TxsOf[b], t \in TxsOf[d]
      PROVE  b = d
  BY <1>1, <1>4, StoredIsNew
<1>7. /\ pc' = "loop" /\ highest' = c.last /\ torn' = torn /\ leaked' = leaked
      /\ tx' = [t \in Tx |-> IF Holders(c.refs, t) = {} THEN tx[t]
                             ELSE c.refs[CHOOSE b \in Block : b \in Holders(c.refs, t)]]
  BY <1>1, StoreTxsRecords
<1>8. Processed' = Processed
  BY <1>1 DEF Processed
<1>9. [IndexNext]_dbVars
  BY <1>1, StoreTxsRecords
<1>10. KnownInv'
  BY <1>1, <1>7, KnownKept DEF SteadyInv
<1>11. ChainInv'
  BY <1>8 DEF SteadyInv, ChainInv, WholeChain
<1>12. RoutineInv'
  BY <1>1, <1>7 DEF SteadyInv, RoutineInv, Quiet
<1>13. HighestInv'
  <2>1. IsHighestOrLost(c.last)
    BY <1>1 DEF SteadyInv, HighestInv
  <2> QED BY <1>1, <1>7, <1>8, <2>1 DEF HighestInv, IsHighestOrLost, IsHighest, ZeroPoint
<1>14. TxComplete'
  <2>1. InFlight = Batch /\ InFlight' = {}
    BY <1>1, <1>7 DEF InFlight, Batch
  <2>2. SUFFICES ASSUME NEW b \in Processed, b \notin torn, NEW t \in TxsOf[b]
                 PROVE  tx'[t] = point[b]
    BY <1>1, <1>7, <1>8, <2>1 DEF TxComplete
  <2>3. t \in Tx /\ b \in Block
    BY TxAssumption DEF Processed
  <2>4. CASE b \in Batch
    <3>1. Holders(c.refs, t) = {b}
      BY <1>1, <1>3, <1>4, <2>3, <2>4 DEF StoredInv
    <3>2. (CHOOSE d \in Block : d \in {b}) = b
      BY <2>3
    <3>3. tx'[t] = c.refs[b]
      BY <1>7, <2>3, <3>1, <3>2, Zenon
    <3> QED BY <1>1, <2>4, <3>3 DEF StoredInv, IndexInv, HeightTrue
  <2>5. CASE b \notin Batch
    <3>1. Holders(c.refs, t) = {}
      BY <1>1, <1>3, <1>4, <2>3, <2>5 DEF StoredInv
    <3> QED BY <1>7, <2>1, <2>2, <2>3, <2>5, <3>1 DEF SteadyInv, TxComplete
  <2> QED BY <2>4, <2>5
<1> QED BY <1>7, <1>9, <1>10, <1>11, <1>12, <1>13, <1>14 DEF SteadyInv

(* The steps of a pass. *)
LEMMA PassKeeps ==
    ASSUME TypeInv, IndexInv, SteadyInv, Pass, WellCut'
    PROVE  SteadyInv' /\ [IndexNext]_dbVars
<1>1. CASE (NothingToProcess \/ BoundaryLookupFails) /\ Outside
  <2>1. /\ pc \in {"spawned", "loop"} /\ pc' = "exit" /\ UNCHANGED <<dbVars, torn>>
        /\ UNCHANGED <<highest, cur, chan, fetcher, ends, errChan, consumer, bf, conn>>
    BY <1>1 DEF NothingToProcess, BoundaryLookupFails, AtLoopHead, ghostVars
  <2>2. Quiet
    BY <2>1 DEF SteadyInv, RoutineInv
  <2> QED BY <1>1, <2>1, <2>2, PassLeaves
<1>2. CASE PassEnds /\ Outside
  <2>1. /\ pc = "exit" /\ pc' = "idle" /\ UNCHANGED <<dbVars, torn>>
        /\ UNCHANGED <<highest, cur, chan, fetcher, ends, errChan, consumer, bf, conn>>
    BY <1>2 DEF PassEnds, ghostVars
  <2>2. conn => Quiet
    BY <2>1 DEF SteadyInv, RoutineInv
  <2> QED BY <1>2, <2>1, <2>2, PassLeaves
<1>3. CASE TakeError /\ Outside
  <2>1. /\ pc = "select" /\ pc' = "exit" /\ cur \in errChan /\ UNCHANGED <<dbVars, torn>>
        /\ UNCHANGED <<highest, cur, chan, fetcher, ends, consumer, bf, conn>>
        /\ errChan' \subseteq errChan
    BY <1>3 DEF TakeError, ghostVars
  <2>2. ~conn
    BY <2>1 DEF SteadyInv, RoutineInv
  <2> QED BY <1>3, <2>1, <2>2, PassLeaves
<1>4. ASSUME NEW g \in Gen, StartBatch(g), Outside PROVE SteadyInv' /\ UNCHANGED dbVars
  BY <1>4, StartBatchKeeps
<1>5. CASE TakeDone /\ Outside
  BY <1>5, TakeDoneKeeps
<1>6. CASE StoreTxs /\ Outside
  BY <1>6, StoreTxsKeeps
<1> QED BY <1>1, <1>2, <1>3, <1>4, <1>5, <1>6 DEF Pass

-----------------------------------------------------------------------------
(* The invariant, and the refinement *)

(* An empty database and no process. *)
LEMMA InitSteady == Init => SteadyInv
<1> SUFFICES ASSUME Init PROVE SteadyInv
  OBVIOUS
<1>1. Processed = {} /\ Rows = {}
  BY DEF Init, DbInit, Processed, Rows, Absent
<1>2. KnownInv
  <2>1. Announced = {} /\ csMsg.type # "backward"
    BY DEF Init, Announced, NoMsg
  <2> QED BY <1>1, <2>1, RangeOfEmpty, TreeAssumption DEF Init, DbInit, KnownInv, OnNodeChain
<1>3. RoutineInv
  BY InitialValues DEF Init, RoutineInv, FetchIdle
<1>4. HighestInv
  BY <1>1 DEF Init, HighestInv, IsHighestOrLost, IsHighest, ZeroPoint
<1>5. TxComplete
  BY <1>1 DEF TxComplete
<1>6. ChainInv
  BY <1>1, ChainOfBlock DEF ChainInv, WholeChain
<1> QED BY <1>2, <1>3, <1>4, <1>5, <1>6 DEF SteadyInv, Init

(* Every step keeps the invariant and is a step of the index. *)
LEMMA NextSteady ==
    ASSUME SteadyNode, TypeInv, IndexInv, SteadyInv, [Next]_vars, WellCut'
    PROVE  SteadyInv' /\ [IndexNext]_dbVars
<1>1. CASE NodeExtends \/ NodeSwitches
  BY <1>1, NodeExtendsKeeps, NeverBackward
<1>2. CASE Start
  BY <1>2, StartKeeps
<1>3. CASE Crash \/ Panic \/ AddPointsFatal
  BY <1>3, ProcessEndsKeeps DEF Crash, Panic, AddPointsFatal
<1>4. CASE ConnectionDrops
  BY <1>4, ConnectionDropsKeeps
<1>5. CASE ChainSync
  BY <1>3, <1>5, NodeRollsForwardKeeps, NeverBackward, OnRollForwardsKeeps,
     OnRollBackwardsKeeps, OnRollBackwardsSucceeds DEF ChainSync
<1>6. CASE BlockFetch
  BY <1>6, BlockFetchKeeps
<1>7. CASE Pass
  BY <1>7, PassKeeps
<1>8. CASE \E g \in Gen : Fetcher(g) \/ Consumer(g)
  BY <1>8, FetcherKeeps, ConsumerKeeps
<1>9. CASE UNCHANGED vars
  <2>1. UNCHANGED <<dbVars, procVars, ghostVars>> /\ Outside
    BY <1>9 DEF vars, Outside
  <2>2. KnownInv'
    BY <2>1, KnownKept DEF SteadyInv, dbVars, procVars
  <2> QED BY <2>1, <2>2, NodeKeeps
<1> QED BY <1>1, <1>2, <1>3, <1>4, <1>5, <1>6, <1>7, <1>8, <1>9 DEF Next

(* The invariants hold in every behaviour with a steady node in which no   *)
(* batch ends with a boundary block.                                       *)
LEMMA SteadyInvHolds ==
    ASSUME SteadyNode
    PROVE  Spec /\ []WellCut => [](TypeInv /\ IndexInv /\ SteadyInv)
<1>1. Init => TypeInv /\ IndexInv /\ SteadyInv
  BY InitTypeInv, EmptyIndex, InitSteady DEF Init
<1>2. (TypeInv /\ IndexInv /\ SteadyInv) /\ [Next]_vars /\ WellCut' => (TypeInv /\ IndexInv /\ SteadyInv)'
  BY NextTypeInv, NextSteady, IndexStepKeeps
<1> QED BY <1>1, <1>2, PTL DEF Spec

(* With a node that does not reorganise, and as long as no batch ends with *)
(* a boundary block, all the goroutines, channels and SQL transactions of  *)
(* a pass amount to steps of the abstract index: batches continue the      *)
(* processed chain with true heights, boundary blocks in the middle of a   *)
(* batch included, transactions are those of processed blocks, and nothing *)
(* is ever taken away.                                                     *)
THEOREM FollowerImplementsIndex ==
    ASSUME SteadyNode
    PROVE  Spec /\ []WellCut => IndexSpec
<1>1. Init => DbInit
  BY DEF Init
<1>2. TypeInv /\ IndexInv /\ SteadyInv /\ [Next]_vars /\ WellCut' => [IndexNext]_dbVars
  BY NextSteady
<1> QED BY <1>1, <1>2, SteadyInvHolds, PTL DEF Spec, IndexSpec

(* Every height in the table is the block's height on the chain, across    *)
(* batches, crashes and restarts.                                          *)
THEOREM SteadyHeightTrue ==
    ASSUME SteadyNode
    PROVE  Spec /\ []WellCut => []HeightTrue
BY SteadyInvHolds, PTL DEF IndexInv

(* Every transaction of a processed block is recorded at its height,       *)
(* unless the process died between the two SQL transactions of its batch.  *)
THEOREM SteadyTxComplete ==
    ASSUME SteadyNode
    PROVE  Spec /\ []WellCut => []TxComplete
BY SteadyInvHolds, PTL DEF SteadyInv

(* Nobody closes or fills a closed channel, and with a window there is     *)
(* always a first point to read.                                           *)
THEOREM SteadyNoPanic ==
    ASSUME SteadyNode, ReorgWindow > 0
    PROVE  Spec /\ []WellCut => []NoPanic
<1>1. Init => NoPanic
  BY DEF Init, NoPanic
<1>2. TypeInv /\ IndexInv /\ SteadyInv /\ NoPanic /\ [Next]_vars => NoPanic'
  <2> SUFFICES ASSUME TypeInv, SteadyInv, NoPanic, [Next]_vars PROVE NoPanic'
    OBVIOUS
  <2>1. ~Panics
    <3>1. ~IndexPanics
      BY BatchAssumption DEF IndexPanics
    <3>2. ~StreamIntoClosedChan
      BY DEF SteadyInv, RoutineInv, StreamIntoClosedChan
    <3>3. ASSUME NEW g \in Gen, CloseOfClosedChan(g) PROVE FALSE
      BY <3>3 DEF SteadyInv, RoutineInv, CloseOfClosedChan
    <3> QED BY <3>1, <3>2, <3>3 DEF Panics
  <2>2. status' = status \/ status' \in {"up", "down"}
    <3>1. ASSUME Pass \/ \E g \in Gen : Fetcher(g) \/ Consumer(g) PROVE status' = status
      BY <3>1 DEF Pass, Fetcher, Consumer, Outside, clientVars
    <3>2. ASSUME BlockFetch PROVE status' = status
      BY <3>2 DEF BlockFetch, NodeServesRange, FetchRefused, Outside, clientVars
    <3>3. ASSUME ChainSync PROVE status' = status \/ status' = "down"
      BY <3>3 DEF ChainSync, NodeRollsForward, NodeRollsBackward, OnRollForwards, OnRollBackwards,
                  OnRollBackwardsFails, AddPointsFatal, ProcessEnds, clientVars
    <3>4. ASSUME NodeExtends \/ NodeSwitches \/ ConnectionDrops PROVE status' = status
      BY <3>4 DEF NodeExtends, NodeSwitches, ConnectionDrops, clientVars
    <3>5. ASSUME Start \/ Crash PROVE status' \in {"up", "down"}
      BY <3>5 DEF Start, FollowChain, Crash, ProcessEnds
    <3>6. ~Panic
      BY <2>1 DEF Panic
    <3>7. ASSUME UNCHANGED vars PROVE status' = status
      BY <3>7 DEF vars, clientVars
    <3> QED BY <3>1, <3>2, <3>3, <3>4, <3>5, <3>6, <3>7 DEF Next
  <2> QED BY <2>2 DEF NoPanic
<1> QED BY <1>1, <1>2, SteadyInvHolds, PTL DEF Spec

(* Only the end of a batch gives heights: every other step at most adds    *)
(* rows.                                                                   *)
LEMMA OnlyBatchesNumber ==
    ASSUME SteadyNode, TypeInv, IndexInv, SteadyInv, [Next]_vars
    PROVE  \/ TakeDone
           \/ \A b \in Block : point'[b] = point[b] \/ (point[b] = Absent /\ point'[b] = Unprocessed)
<1>1. CASE UNCHANGED point
  BY <1>1
<1>2. CASE OnRollForwards
  BY <1>2 DEF OnRollForwards, AddPoints
<1>3. CASE TakeDone
  BY <1>3
<1>4. ASSUME Next, ~OnRollForwards, ~TakeDone PROVE UNCHANGED point
  <2>1. CASE NodeExtends \/ NodeSwitches \/ Start \/ Crash \/ Panic \/ ConnectionDrops
    BY <2>1, NodeExtendsKeeps, NeverBackward, StartKeeps, ConnectionDropsKeeps
       DEF Crash, Panic, ProcessEnds, dbVars
  <2>2. CASE ChainSync
    BY <1>4, <2>2, NodeRollsForwardKeeps, NeverBackward, OnRollBackwardsKeeps,
       OnRollBackwardsSucceeds DEF ChainSync, AddPointsFatal, ProcessEnds, dbVars
  <2>3. CASE BlockFetch
    BY <2>3, BlockFetchKeeps DEF dbVars
  <2>4. CASE Pass
    BY <1>4, <2>4 DEF Pass, NothingToProcess, BoundaryLookupFails, StartBatch, TakeError,
                      StoreTxs, PassEnds, dbVars
  <2>5. CASE \E g \in Gen : Fetcher(g) \/ Consumer(g)
    BY <2>5, FetcherKeeps, ConsumerKeeps DEF dbVars
  <2> QED BY <1>4, <2>1, <2>2, <2>3, <2>4, <2>5 DEF Next
<1>5. CASE UNCHANGED vars
  BY <1>5, <1>1 DEF vars, dbVars
<1> QED BY <1>1, <1>2, <1>3, <1>4, <1>5

(* A finished batch leaves the heights of other blocks alone, and ends at  *)
(* the last point of its range.                                            *)
LEMMA BatchNumbers ==
    ASSUME TypeInv, SteadyInv, TakeDone
    PROVE  /\ \A b \in Block \ Batch : point'[b] = point[b]
           /\ Batch \subseteq Pending
           /\ Batch \subseteq Chain[Final] /\ RangeInv
<1>1. BatchInv /\ ~leaked
  BY DEF TakeDone, SteadyInv, KnownInv
<1>2. \A b \in Block \ Batch : point'[b] = point[b]
  BY <1>1 DEF TakeDone, SetPointHeights, Batch
<1>3. Batch \subseteq Pending /\ Batch \subseteq Chain[Final] /\ RangeInv
  BY <1>1 DEF BatchInv, NumberedInv, StreamInv, Delivered, Taken
<1> QED BY <1>2, <1>3

(* A block gets its height only when as many rows as the window are known  *)
(* above it on its own chain.                                              *)
THEOREM SteadyConfirmed ==
    ASSUME SteadyNode
    PROVE  Spec /\ []WellCut => ConfirmedWhenProcessed
<1> DEFINE above(b) == {c \in Block : point[c] # Absent /\ b \in Chain[Parent[c]]}
<1>1. TypeInv /\ IndexInv /\ SteadyInv /\ [Next]_vars =>
        \A b \in Block : point[b] = Unprocessed /\ point'[b] >= 0 =>
            Cardinality({c \in Block : point[c] # Absent /\ b \in Chain[Parent[c]]}) >= ReorgWindow
  <2> SUFFICES ASSUME TypeInv, IndexInv, SteadyInv, [Next]_vars,
                      NEW b \in Block, point[b] = Unprocessed, point'[b] >= 0
               PROVE  Cardinality(above(b)) >= ReorgWindow
    OBVIOUS
  <2>1. TakeDone
    BY OnlyBatchesNumber DEF Unprocessed
  <2>2. b \in Chain[Final] /\ RangeInv
    BY <2>1, BatchNumbers DEF Unprocessed
  <2> DEFINE window == {c \in Rows : Final \in Chain[Parent[c]]}
  <2>3. window \subseteq above(b)
    <3>1. SUFFICES ASSUME NEW c \in Rows, Final \in Chain[Parent[c]] PROVE b \in Chain[Parent[c]]
      BY DEF Rows
    <3>2. Parent[c] \in Point
      BY ChainOfBlock DEF Rows
    <3> QED BY <2>2, <3>1, <3>2, ChainOfPoint
  <2>4. IsFiniteSet(above(b))
    BY TreeAssumption, FS_Subset
  <2>5. Cardinality(window) >= ReorgWindow
    BY <2>2 DEF RangeInv
  <2> HIDE DEF window, above
  <2>6. IsFiniteSet(window) /\ Cardinality(window) <= Cardinality(above(b))
    BY <2>3, <2>4, FS_Subset
  <2>7. Cardinality(window) \in Nat /\ Cardinality(above(b)) \in Nat
    BY <2>4, <2>6, FS_CardinalityType
  <2> QED BY <2>5, <2>6, <2>7, BatchAssumption
<1> QED BY <1>1, SteadyInvHolds, PTL DEF Spec, ConfirmedWhenProcessed

(* What GetHeight answers, torn reads included, is a processed block and   *)
(* the height of a processed block.                                        *)
THEOREM SteadyHeightAnswered ==
    ASSUME SteadyNode
    PROVE  Spec /\ []WellCut => HeightAnswered
<1>1. TypeInv /\ IndexInv /\ SteadyInv /\ [Next]_vars /\ WellCut' =>
        (status = "up" /\ status' = "up" /\ ~raced' =>
            \A a \in GetHeightAnswers :
                /\ point'[a.block] >= 0
                /\ \E b \in Block : point'[b] = a.height)
  <2> SUFFICES ASSUME TypeInv, IndexInv, SteadyInv, [Next]_vars, WellCut', NEW a \in GetHeightAnswers
               PROVE  point'[a.block] >= 0 /\ \E b \in Block : point'[b] = a.height
    OBVIOUS
  <2>1. IndexInv' /\ SteadyInv'
    BY NextSteady, IndexStepKeeps
  <2>2. Processed \subseteq Processed'
    <3>1. CASE TakeDone
      <4>1. \A b \in Processed : b \in Block /\ b \notin Batch
        BY <3>1, BatchNumbers, RowsSplit DEF TypeInv, TypeOK
      <4> QED BY <3>1, <4>1, BatchNumbers DEF Processed
    <3>2. CASE ~TakeDone
      BY <3>2, OnlyBatchesNumber DEF Processed, Absent
    <3> QED BY <3>1, <3>2
  <2>3. /\ a.block \in {highest.block, highest'.block} /\ a.block # NoHash
        /\ a.height \in {highest.height, highest'.height}
    BY DEF GetHeightAnswers
  <2>4. \A p \in {highest, highest'} : /\ p.block = NoHash => p.height = 0
                                       /\ p.block # NoHash => /\ p.block \in Processed'
                                                              /\ p.height = Number[p.block]
    BY <2>1, <2>2 DEF SteadyInv, HighestInv
  <2>5. a.block \in Processed'
    BY <2>3, <2>4
  <2>6. \A b \in Processed' : b \in Block /\ point'[b] = Number[b]
    BY <2>1 DEF IndexInv, HeightTrue, Processed
  <2>7. \E b \in Processed' : Number[b] = 0
    <3>1. PICK b \in Processed' : Parent[b] = Origin
      BY <2>1, <2>5 DEF SteadyInv, ChainInv, WholeChain
    <3> QED BY <2>6, <3>1, NumbersGrow
  <2>8. \E b \in Processed' : Number[b] = a.height
    BY <2>3, <2>4, <2>7
  <2> QED BY <2>5, <2>6, <2>8 DEF Processed
<1> QED BY <1>1, SteadyInvHolds, PTL DEF Spec, HeightAnswered

(* So a chain without boundary blocks, as every chain after the Byron era, *)
(* is indexed as it should be whatever the batches.                        *)
THEOREM NumberedChainsAreIndexed ==
    ASSUME SteadyNode, Boundary = {}
    PROVE  Spec => IndexSpec /\ []HeightTrue /\ []TxComplete /\ HeightAnswered /\ ConfirmedWhenProcessed
<1>1. WellCut
  <2>1. \A b \in Block : \A a \in Chain[Parent[b]] : Before(a, b, early)
    BY SlotsOrdered
  <2> QED BY <2>1 DEF WellCut, CutInOrder
<1> QED BY <1>1, FollowerImplementsIndex, SteadyHeightTrue, SteadyTxComplete, SteadyHeightAnswered,
           SteadyConfirmed, PTL
=============================================================================
