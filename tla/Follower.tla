------------------------------ MODULE Follower ------------------------------
(***************************************************************************)
(* The chain follower: the client's chain-sync callbacks (client.go), the  *)
(* block processor and its database, and the node they talk to.  The node  *)
(* is external: it moves its tip along the block tree and answers the      *)
(* chain-sync and block-fetch requests.  The process may crash at any      *)
(* step and be started again on the same database.                         *)
(***************************************************************************)
EXTENDS BlockProcessor, ChainIndex, Functions

CONSTANTS
    InitialTip,  \* the node's tip when the follower first starts
    MaxReorgs,   \* how often the node switches to another fork: a bound
    MaxStarts,   \* how often the process is started: a bound
    MayDrop      \* whether the connection may be closed

ASSUME BoundAssumption ==
    /\ InitialTip \in Point
    /\ MaxReorgs \in Nat
    /\ MaxStarts \in Nat
    /\ MayDrop \in BOOLEAN

VARIABLES
    nodeTip,     \* the node's tip
    reorgs,      \* fork switches so far
    view,        \* the point up to which the node has told the client
    csMsg,       \* the chain-sync message that is delivered next
    status,      \* the process: "down", "up" or "panicked"
    starts,      \* starts so far
    points,      \* c.points, headers not yet in the database
    tipReached   \* c.tipReached

nodeVars == <<nodeTip, reorgs>>
syncVars == <<view, csMsg>>
clientVars == <<status, starts, points, tipReached, early>>
vars == <<dbVars, procVars, ghostVars, nodeVars, syncVars, clientVars>>

NoMsg == [type |-> "none", point |-> Origin, atTip |-> FALSE]
RollForward(b, atTip) == [type |-> "forward", point |-> b, atTip |-> atTip]
RollBackward(p) == [type |-> "backward", point |-> p, atTip |-> FALSE]

TypeOK ==
    /\ DbTypeOK
    /\ ProcTypeOK
    /\ nodeTip \in Point
    /\ reorgs \in 0..MaxReorgs
    /\ view \in Point
    /\ csMsg \in [type : {"none", "forward", "backward"}, point : Point, atTip : BOOLEAN]
    /\ csMsg.type = "forward" => csMsg.point \in Block
    /\ status \in {"down", "up", "panicked"}
    /\ starts \in 0..MaxStarts
    /\ points \in Seq(Block)
    /\ tipReached \in BOOLEAN
    /\ early \in SUBSET Block

Init ==
    /\ DbInit
    /\ pc = "idle" /\ highest = ZeroPoint
    /\ cur = CHOOSE g \in Gen : TRUE
    /\ chan = [g \in Gen |-> [buf |-> <<>>, closed |-> FALSE]]
    /\ fetcher = [g \in Gen |-> "off"]
    /\ ends = [g \in Gen |-> <<>>]
    /\ errChan = {}
    /\ consumer = [g \in Gen |-> NoConsumer]
    /\ bf = FetchIdle /\ conn = FALSE
    /\ declined = FALSE /\ raced = FALSE /\ torn = {}
    /\ nodeTip = InitialTip /\ reorgs = 0
    /\ view = Origin /\ csMsg = NoMsg
    /\ status = "down" /\ starts = 0
    /\ points = <<>> /\ tipReached = FALSE /\ early = {}

-----------------------------------------------------------------------------
(* The node (external) *)

NodeExtends ==
    /\ \E b \in Block : Parent[b] = nodeTip /\ nodeTip' = b
    /\ UNCHANGED <<dbVars, procVars, ghostVars, reorgs, syncVars, clientVars>>

(* A switch to a fork that is at least as long. *)
NodeSwitches ==
    /\ reorgs < MaxReorgs
    /\ nodeTip # Origin
    /\ \E b \in Block : /\ nodeTip \notin Chain[b]
                        /\ b \notin Chain[nodeTip]
                        /\ Number[b] >= Number[nodeTip]
                        /\ nodeTip' = b
    /\ reorgs' = reorgs + 1
    /\ UNCHANGED <<dbVars, procVars, ghostVars, syncVars, clientVars>>

OnNodeChain(p) == p = Origin \/ p \in Chain[nodeTip]

(* The answer to RequestNext: one request is outstanding at a time. *)
NodeRollsForward ==
    /\ status = "up" /\ conn
    /\ csMsg = NoMsg
    /\ OnNodeChain(view)
    /\ \E b \in Chain[nodeTip] :
          /\ Parent[b] = view
          /\ csMsg' = RollForward(b, Slot[b] = Slot[nodeTip])
          /\ view' = b
    /\ UNCHANGED <<dbVars, procVars, ghostVars, nodeVars, clientVars>>

NodeRollsBackward ==
    /\ status = "up" /\ conn
    /\ csMsg = NoMsg
    /\ ~OnNodeChain(view)
    /\ \E p \in Point :
          /\ Chain[p] = Chain[view] \cap Chain[nodeTip]
          /\ csMsg' = RollBackward(p)
          /\ view' = p
    /\ UNCHANGED <<dbVars, procVars, ghostVars, nodeVars, clientVars>>

(* The answer to RequestRange.  A range on the node's chain is served; one *)
(* on an abandoned fork may be served or refused.                          *)
NodeServesRange ==
    /\ conn
    /\ FetchStarts
    /\ ends[bf.gen][1] \in Chain[ends[bf.gen][2]]
    /\ UNCHANGED <<nodeVars, syncVars, clientVars>>

RangeRefused ==
    ~(ends[bf.gen][2] \in Chain[nodeTip] /\ ends[bf.gen][1] \in Chain[ends[bf.gen][2]])

FetchRefused ==
    /\ FetchFails
    /\ ~conn \/ RangeRefused
    /\ UNCHANGED <<nodeVars, syncVars, clientVars>>

-----------------------------------------------------------------------------
(* Start, stop, crash *)

(* Every goroutine and channel goes with the process; SQLite drops the     *)
(* open transaction.  Heights stored without their transactions stay.      *)
ProcessEnds(how) ==
    /\ status' = how
    /\ NoGoroutines
    /\ highest' = ZeroPoint /\ conn' = FALSE
    /\ torn' = torn \cup (IF pc = "txs" THEN {b \in Block : consumer[cur].refs[b] # Absent} ELSE {})
    /\ points' = <<>> /\ tipReached' = FALSE
    /\ view' = Origin /\ csMsg' = NoMsg
    /\ leaked' = FALSE
    /\ UNCHANGED <<point, rolledBack, tx, raced, nodeVars, starts, early>>

(* followChain: the intersection is the highest point of the database, or  *)
(* the origin.  An intersection the node does not know is fatal.  The      *)
(* first message is a roll backward to the intersection.                   *)
FollowChain(h) ==
    LET p == IF h.block = NoHash THEN Origin ELSE h.block
    IN  IF OnNodeChain(p)
          THEN /\ NewBlockProcessor(h)
               /\ status' = "up"
               /\ view' = p /\ csMsg' = RollBackward(p)
          ELSE status' = "down" /\ UNCHANGED <<procVars, syncVars>>

Start ==
    /\ status # "up"
    /\ starts < MaxStarts
    /\ starts' = starts + 1
    /\ \E h \in HighestRefs(point) : FollowChain(h)
    /\ UNCHANGED <<dbVars, ghostVars, nodeVars, points, tipReached, early>>

Crash ==
    /\ status = "up"
    /\ starts < MaxStarts
    /\ ProcessEnds("down")

(* A run-time panic in any goroutine ends the process. *)
Panics ==
    \/ IndexPanics
    \/ StreamIntoClosedChan
    \/ \E g \in Gen : CloseOfClosedChan(g)

Panic ==
    /\ status = "up"
    /\ Panics
    /\ ProcessEnds("panicked")

(* Client.Stop, or the peer closes: nothing reconnects. *)
ConnectionDrops ==
    /\ MayDrop
    /\ status = "up" /\ conn
    /\ conn' = FALSE
    /\ UNCHANGED <<pc, highest, cur, chan, fetcher, ends, errChan, consumer, bf, declined>>
    /\ UNCHANGED <<dbVars, ghostVars, nodeVars, syncVars, clientVars>>

-----------------------------------------------------------------------------
(* Chain-sync callbacks *)

(* The buffer that onRollForwards has after appending the new header. *)
Buffered == Append(points, csMsg.point)

(* Faulty variant: reaching the tip does not flush. *)
FlushesWhenFull == Len(Buffered) >= BlockBatchSize

(* Whether the buffer goes to the database. *)
Flushes == Len(Buffered) >= BlockBatchSize \/ tipReached \/ csMsg.atTip

OnRollForwards ==
    /\ status = "up" /\ conn
    /\ csMsg.type = "forward"
    /\ Flushes => ~leaked
    /\ tipReached' = (tipReached \/ csMsg.atTip)
    /\ IF Flushes
         THEN /\ AddPoints(Range(Buffered)) /\ early' = RowsEarly(early, Buffered)
              /\ TryProcessBlocks /\ points' = <<>>
         ELSE points' = Buffered /\ UNCHANGED <<point, early, pc, declined>>
    /\ csMsg' = NoMsg
    /\ UNCHANGED <<highest, cur, chan, fetcher, ends, errChan, consumer, bf, conn>>
    /\ UNCHANGED <<rolledBack, tx, leaked, ghostVars, nodeVars, view, status, starts>>

(* AddPoints fails: log.Fatal. *)
AddPointsFatal ==
    /\ status = "up" /\ conn
    /\ csMsg.type = "forward"
    /\ Flushes /\ leaked
    /\ ProcessEnds("down")

(* c.startPoint is never assigned, so its slot is 0.  c.points is kept:    *)
(* headers from before the rollback reach the table after it.              *)
OnRollBackwards ==
    /\ status = "up" /\ conn
    /\ csMsg.type = "backward"
    /\ csMsg' = NoMsg
    /\ IF SlotOf(csMsg.point) > 0
         THEN HandleRollback(SlotOf(csMsg.point))
         ELSE UNCHANGED <<dbVars, procVars, ghostVars>>
    /\ UNCHANGED <<nodeVars, view, clientVars>>

(* The callback returns an error: the protocol closes the connection. *)
OnRollBackwardsFails ==
    /\ status = "up" /\ conn
    /\ csMsg.type = "backward"
    /\ SlotOf(csMsg.point) > 0
    /\ ~MutexHeld
    /\ HandleRollbackFails(SlotOf(csMsg.point))
    /\ conn' = FALSE
    /\ csMsg' = NoMsg
    /\ UNCHANGED <<pc, highest, cur, chan, fetcher, ends, errChan, consumer, bf, declined>>
    /\ UNCHANGED <<dbVars, ghostVars, nodeVars, view, clientVars>>

-----------------------------------------------------------------------------
Outside == UNCHANGED <<nodeVars, syncVars, clientVars>>

Pass ==
    \/ NothingToProcess /\ Outside
    \/ BoundaryLookupFails /\ Outside
    \/ \E g \in Gen : StartBatch(g) /\ Outside
    \/ TakeError /\ Outside
    \/ TakeDone /\ Outside
    \/ StoreTxs /\ Outside
    \/ PassEnds /\ Outside

Fetcher(g) ==
    \/ FetchLock(g) /\ Outside
    \/ FetchReportsError(g) /\ Outside
    \/ FetchClosesChan(g) /\ Outside

Consumer(g) ==
    \/ ConsumerStarts(g) /\ Outside
    \/ ConsumeBlock(g) /\ Outside
    \/ ChainBroken(g) /\ Outside
    \/ ConsumerDone(g) /\ Outside

BlockFetch ==
    \/ NodeServesRange
    \/ FetchRefused
    \/ OnBlock /\ Outside
    \/ OnBatchDone /\ Outside

ChainSync ==
    \/ NodeRollsForward
    \/ NodeRollsBackward
    \/ OnRollForwards
    \/ OnRollBackwards
    \/ OnRollBackwardsFails
    \/ AddPointsFatal

Next ==
    \/ NodeExtends \/ NodeSwitches
    \/ Start \/ Crash \/ Panic \/ ConnectionDrops
    \/ ChainSync \/ BlockFetch \/ Pass
    \/ \E g \in Gen : Fetcher(g) \/ Consumer(g)

Spec == Init /\ [][Next]_vars

(* The node answers, and no goroutine is starved.  Nothing is assumed of   *)
(* the node's own chain, of crashes or of the connection.                  *)
Fairness ==
    /\ WF_vars(Start)
    /\ WF_vars(ChainSync)
    /\ WF_vars(BlockFetch)
    /\ WF_vars(Pass)
    /\ \A g \in Gen : WF_vars(Fetcher(g)) /\ WF_vars(Consumer(g))

FairSpec == Spec /\ Fairness

-----------------------------------------------------------------------------
(* Properties of the index *)

(* The batch whose heights are stored and whose transactions are not yet. *)
InFlight == IF pc = "txs" THEN {b \in Block : consumer[cur].refs[b] # Absent} ELSE {}

(* Every transaction of a processed block is recorded, whatever crashes    *)
(* and rollbacks came before; only a batch the process died in, between    *)
(* SetPointHeights and AddTxsForBlock, may miss some.                      *)
TxComplete == \A b \in Processed \ (torn \cup InFlight) : \A t \in TxsOf[b] : tx[t] = point[b]

(* The same without that exception: what is processed is recorded. *)
TxRecorded == \A b \in Processed \ InFlight : \A t \in TxsOf[b] : tx[t] = point[b]

(* A block is processed only when ReorgWindow points above it are known:   *)
(* the window is measured on the block's own chain.                        *)
ConfirmedWhenProcessed ==
    [][\A b \in Block : point[b] = Unprocessed /\ point'[b] >= 0 =>
          Cardinality({c \in Block : point[c] # Absent /\ b \in Chain[Parent[c]]}) >= ReorgWindow]_vars

(* What GetHeight answers to a request during a step: it reads             *)
(* highestPoint without the mutex, so each field may be the old one or the *)
(* new one.                                                                *)
GetHeightAnswers ==
    {a \in [block : {highest.block, highest'.block}, height : {highest.height, highest'.height}] :
        a.block # NoHash}

(* Even torn, such an answer names a processed block and the height of a   *)
(* processed block: it never runs ahead of what the tables hold.           *)
HeightAnswered ==
    [][status = "up" /\ status' = "up" /\ ~raced' =>
          \A a \in GetHeightAnswers :
              /\ point'[a.block] >= 0
              /\ \E b \in Block : point'[b] = a.height]_vars

(* A roll backward to a point keeps that point, which is still on the      *)
(* node's chain.                                                           *)
RollbackKeepsPoint ==
    [][csMsg.type = "backward" /\ csMsg.point \in Processed /\ csMsg' = NoMsg /\ status' = "up"
          => point'[csMsg.point] = point[csMsg.point]]_vars

(* No send on, or close of, a closed channel, and no index out of range. *)
NoPanic == status # "panicked"

(* In an environment that reorganises each property of the index is        *)
(* claimed as long as no two batches got mixed, no failed fetch passed for *)
(* a finished one and no batch ran across a row that a rollback had        *)
(* deleted (raced).  Here: the rollback and the previous-hash check        *)
(* together keep the blocks of two forks apart.                            *)
OneChainUnlessRaced == raced \/ OneChain

(* HandleRollback leaves no transaction of an abandoned block behind.      *)
TxBackedUnlessRaced == raced \/ TxBacked

(* Every change of the tables is one the abstract index may make: a batch  *)
(* continues the processed chain with true heights, transactions are those *)
(* of processed blocks, and only a rollback takes anything away.           *)
IndexStepsUnlessRaced == [][raced' \/ IndexNext]_dbVars

-----------------------------------------------------------------------------
(* Liveness *)

(* A pass ends: neither the channels nor the select block it for ever,     *)
(* while the connection is open.                                           *)
ProcessorReturns == pc # "idle" ~> (pc = "idle" \/ ~conn)

(* When the node stops growing, the processor comes to rest with no more   *)
(* than the window of the node's chain left to do: no header stays in the  *)
(* buffer and no point in the table.  The exceptions are a connection that *)
(* was closed, and a trigger that came after the last read of the points   *)
(* and was declined.                                                       *)
TrailsByWindow ==
    <>[](~conn \/ (pc = "idle" /\ (Cardinality(Chain[nodeTip] \ Processed) <= ReorgWindow \/ declined)))
=============================================================================
