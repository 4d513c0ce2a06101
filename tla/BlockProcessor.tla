--------------------------- MODULE BlockProcessor ---------------------------
(***************************************************************************)
(* The block processor (block_processor.go) and the block-fetch client it  *)
(* drives.  A pass of processBlocks runs in its own goroutine under        *)
(* processingMutex and loops over batches.  For each batch it makes a new  *)
(* blockChan, starts a goroutine that requests the range (the fetcher) and *)
(* one that numbers the blocks (the consumer), and waits in a select for   *)
(* the error channel or the done channel of that batch.                    *)
(*                                                                         *)
(* The goroutines and channels made for one batch form a generation.  A    *)
(* goroutine can outlive its pass: the fetcher closes, and the node's      *)
(* callbacks fill, whatever channel bp.blockChan names at that moment.     *)
(***************************************************************************)
EXTENDS PointDb, Sequences

CONSTANT Gen    \* generations alive at the same time: a bound

ASSUME GenAssumption == Gen # {} /\ NoHash \notin Gen

VARIABLES
    pc,        \* where the goroutine of TryProcessBlocks is
    highest,   \* bp.highestPoint: block and height
    cur,       \* the generation whose channel bp.blockChan names
    chan,      \* the block channel of each generation
    fetcher,   \* where the fetcher of each generation is
    ends,      \* the first and last point each fetcher requests
    errChan,   \* the generations whose errChan holds an error
    consumer,  \* the consumer of each generation and its local variables
    conn,      \* the node-to-node connection is open
    bf,        \* the block-fetch client: who holds busyMutex, what it awaits
    early,     \* rows that ORDER BY slot puts before one they follow on the chain
    declined,  \* a trigger was declined since points were last read
    raced,     \* a batch mixed with another one, ended as done though it
               \* failed, or held a block whose row a rollback had deleted
    torn       \* blocks whose heights were stored and transactions were not

procVars == <<pc, highest, cur, chan, fetcher, ends, errChan, consumer, bf, conn, declined>>
ghostVars == <<raced, torn>>

ZeroPoint == [block |-> NoHash, height |-> 0]
EmptyRefs == [b \in Block |-> Absent]
NoConsumer == [st |-> "off", on |-> NoHash, height |-> 0, prev |-> NoHash,
               prevBoundary |-> NoHash, refs |-> EmptyRefs, last |-> ZeroPoint]
FetchIdle == [st |-> "idle", gen |-> NoHash, rest |-> {}]

PointRef == [block : Block \cup {NoHash}, height : Nat]

ConsumerType ==
    [st : {"off", "start", "run", "done"}, on : Gen \cup {NoHash}, height : Nat,
     prev : Block \cup {NoHash}, prevBoundary : Block \cup {NoHash},
     refs : [Block -> {Absent} \cup Nat], last : PointRef]

FetchType == [st : {"idle", "request", "stream"}, gen : Gen \cup {NoHash}, rest : SUBSET Block]

ProcTypeOK ==
    /\ pc \in {"idle", "spawned", "loop", "select", "txs", "exit"}
    /\ highest \in PointRef
    /\ cur \in Gen
    /\ chan \in [Gen -> [buf : Seq(Block), closed : BOOLEAN]]
    /\ fetcher \in [Gen -> {"off", "lock", "wait", "failed", "close"}]
    /\ ends \in [Gen -> (Block \X Block) \cup {<<>>}]
    /\ errChan \in SUBSET Gen
    /\ consumer \in [Gen -> ConsumerType]
    /\ conn \in BOOLEAN
    /\ bf \in FetchType
    /\ declined \in BOOLEAN
    /\ raced \in BOOLEAN
    /\ torn \in SUBSET Block

(* A process without goroutines or channels. *)
NoGoroutines ==
    /\ pc' = "idle"
    /\ cur' = CHOOSE g \in Gen : TRUE
    /\ chan' = [g \in Gen |-> [buf |-> <<>>, closed |-> FALSE]]
    /\ fetcher' = [g \in Gen |-> "off"]
    /\ ends' = [g \in Gen |-> <<>>]
    /\ errChan' = {}
    /\ consumer' = [g \in Gen |-> NoConsumer]
    /\ bf' = FetchIdle
    /\ declined' = FALSE

(* What GetHighestPoint returns; no row is the zero PointRef. *)
HighestRefs(table) ==
    IF GetHighestPoint(table) = {} THEN {ZeroPoint}
    ELSE {[block |-> b, height |-> table[b]] : b \in GetHighestPoint(table)}

-----------------------------------------------------------------------------
(* The pass *)

(* NewBlockProcessor and the connection that Client.Start then opens. *)
NewBlockProcessor(h) ==
    /\ NoGoroutines
    /\ highest' = h
    /\ conn' = TRUE

MutexHeld == pc \in {"loop", "select", "txs"}

(* TryProcessBlocks: the compare-and-swap on isProcessing. *)
TryProcessBlocks ==
    IF pc = "idle" THEN pc' = "spawned" /\ UNCHANGED declined
                   ELSE declined' = TRUE /\ UNCHANGED pc

(* A generation no goroutine refers to any more. *)
Free(g) ==
    /\ fetcher[g] = "off"
    /\ bf.gen # g
    /\ consumer[g].st \in {"off", "done"}
    /\ \A k \in Gen \ {g} : ~(consumer[k].st = "run" /\ consumer[k].on = g)

(* The head of the loop: points are read, under the mutex. *)
AtLoopHead == pc \in {"spawned", "loop"}

NothingToProcess ==
    /\ AtLoopHead
    /\ ReorgWindow > 0 /\ BatchLength <= 0
    /\ pc' = "exit" /\ declined' = FALSE
    /\ UNCHANGED <<highest, cur, chan, fetcher, ends, errChan, consumer, bf, conn>>
    /\ UNCHANGED <<dbVars, ghostVars>>

(* With no window and no points, points[0] is out of range. *)
IndexPanics == AtLoopHead /\ ReorgWindow = 0 /\ BatchLength <= 0

HighestIsSet == highest.block # NoHash

BoundaryLookupFails ==
    /\ AtLoopHead
    /\ BatchLength > 0
    /\ HighestIsSet /\ ~BoundaryLookupOK(highest.block)
    /\ pc' = "exit" /\ declined' = FALSE
    /\ UNCHANGED <<highest, cur, chan, fetcher, ends, errChan, consumer, bf, conn>>
    /\ UNCHANGED <<dbVars, ghostVars>>

StartBatch(g) ==
    /\ AtLoopHead
    /\ BatchLength > 0
    /\ HighestIsSet => BoundaryLookupOK(highest.block)
    /\ Free(g)
    /\ cur' = g
    /\ chan' = [chan EXCEPT ![g] = [buf |-> <<>>, closed |-> FALSE]]
    /\ errChan' = errChan \ {g}
    /\ fetcher' = [fetcher EXCEPT ![g] = "lock"]
    /\ \E e \in BatchEnds(early) : ends' = [ends EXCEPT ![g] = e]
    /\ consumer' = [consumer EXCEPT ![g] =
          [NoConsumer EXCEPT !.st = "start",
                             !.height = IF HighestIsSet THEN highest.height + 1 ELSE highest.height,
                             !.prev = highest.block]]
    /\ pc' = "select" /\ declined' = FALSE
    /\ UNCHANGED <<highest, bf, conn>>
    /\ UNCHANGED <<dbVars, ghostVars>>

(* select: the error branch ends the pass. *)
TakeError ==
    /\ pc = "select"
    /\ cur \in errChan
    /\ errChan' = errChan \ {cur}
    /\ pc' = "exit"
    /\ UNCHANGED <<highest, cur, chan, fetcher, ends, consumer, bf, conn, declined>>
    /\ UNCHANGED <<dbVars, ghostVars>>

(* select: the done branch stores the heights, in one SQL transaction ...  *)
TakeDone ==
    /\ pc = "select"
    /\ consumer[cur].st = "done"
    /\ IF leaked THEN pc' = "exit" /\ UNCHANGED point
                 ELSE pc' = "txs" /\ SetPointHeights(consumer[cur].refs)
    /\ raced' = (raced \/ cur \in errChan \/ fetcher[cur] # "off"
                  \/ \E b \in Block : consumer[cur].refs[b] # Absent /\ point[b] = Absent)
    /\ UNCHANGED <<highest, cur, chan, fetcher, ends, errChan, consumer, bf, conn, declined>>
    /\ UNCHANGED <<rolledBack, tx, leaked, torn>>

(* Faulty variant: highestPoint gets the height of the block to come. *)
StoreTxsAhead ==
    /\ pc = "txs"
    /\ AddTxsForBlock(consumer[cur].refs)
    /\ pc' = "loop"
    /\ highest' = [consumer[cur].last EXCEPT !.height = @ + 1]
    /\ UNCHANGED <<cur, chan, fetcher, ends, errChan, consumer, bf, conn, declined>>
    /\ UNCHANGED <<point, rolledBack, raced, torn>>

(* ... and the transactions in a second one, then moves highestPoint. *)
StoreTxs ==
    /\ pc = "txs"
    /\ AddTxsForBlock(consumer[cur].refs)
    /\ IF TxConflict(consumer[cur].refs)
         THEN /\ pc' = "exit" /\ UNCHANGED highest
              /\ torn' = torn \cup {b \in Block : consumer[cur].refs[b] # Absent}
         ELSE pc' = "loop" /\ highest' = consumer[cur].last /\ UNCHANGED torn
    /\ UNCHANGED <<cur, chan, fetcher, ends, errChan, consumer, bf, conn, declined>>
    /\ UNCHANGED <<point, rolledBack, raced>>

(* The mutex is free already when the deferred Store(false) runs. *)
PassEnds ==
    /\ pc = "exit"
    /\ pc' = "idle"
    /\ UNCHANGED <<highest, cur, chan, fetcher, ends, errChan, consumer, bf, conn, declined>>
    /\ UNCHANGED <<dbVars, ghostVars>>
-----------------------------------------------------------------------------
(* The fetcher of a generation: GetBlockRange of the block-fetch client *)

(* busyMutex is taken and the request sent. *)
FetchLock(g) ==
    /\ fetcher[g] = "lock"
    /\ bf.st = "idle"
    /\ bf' = [FetchIdle EXCEPT !.st = "request", !.gen = g]
    /\ fetcher' = [fetcher EXCEPT ![g] = "wait"]
    /\ UNCHANGED <<pc, highest, cur, chan, ends, errChan, consumer, conn, declined>>
    /\ UNCHANGED <<dbVars, ghostVars>>

(* NoBlocks, or the shutdown of the protocol: GetBlockRange gives up the   *)
(* mutex and returns an error.                                             *)
FetchFails ==
    /\ bf.st = "request"
    /\ bf' = FetchIdle
    /\ fetcher' = [fetcher EXCEPT ![bf.gen] = "failed"]
    /\ UNCHANGED <<pc, highest, cur, chan, ends, errChan, consumer, conn, declined>>
    /\ UNCHANGED <<dbVars, ghostVars>>

(* StartBatch: GetBlockRange returns nil and keeps the mutex until         *)
(* BatchDone; the blocks of the range follow.                              *)
FetchStarts ==
    /\ bf.st = "request"
    /\ bf' = [bf EXCEPT !.st = "stream", !.rest = RangeOf(ends[bf.gen][1], ends[bf.gen][2])]
    /\ fetcher' = [fetcher EXCEPT ![bf.gen] = "off"]
    /\ UNCHANGED <<pc, highest, cur, chan, ends, errChan, consumer, conn, declined>>
    /\ UNCHANGED <<dbVars, ghostVars>>

(* Faulty variant: the channel is closed here and once more below. *)
FetchReportsErrorClosing(g) ==
    /\ fetcher[g] = "failed"
    /\ g \notin errChan
    /\ errChan' = errChan \cup {g}
    /\ chan' = [chan EXCEPT ![cur].closed = TRUE]
    /\ fetcher' = [fetcher EXCEPT ![g] = "close"]
    /\ UNCHANGED <<pc, highest, cur, ends, consumer, bf, conn, declined>>
    /\ UNCHANGED <<dbVars, ghostVars>>

(* The error is reported first, ... *)
FetchReportsError(g) ==
    /\ fetcher[g] = "failed"
    /\ g \notin errChan
    /\ errChan' = errChan \cup {g}
    /\ fetcher' = [fetcher EXCEPT ![g] = "close"]
    /\ UNCHANGED <<pc, highest, cur, chan, ends, consumer, bf, conn, declined>>
    /\ UNCHANGED <<dbVars, ghostVars>>

(* ... then the channel bp.blockChan names now is closed. *)
FetchClosesChan(g) ==
    /\ fetcher[g] = "close"
    /\ ~chan[cur].closed
    /\ chan' = [chan EXCEPT ![cur].closed = TRUE]
    /\ fetcher' = [fetcher EXCEPT ![g] = "off"]
    /\ raced' = (raced \/ g # cur)
    /\ UNCHANGED <<pc, highest, cur, ends, errChan, consumer, bf, conn, declined>>
    /\ UNCHANGED <<dbVars, torn>>

CloseOfClosedChan(g) == fetcher[g] = "close" /\ chan[cur].closed

(* onBlock: the next block of the stream goes to bp.blockChan. *)
NextOfStream == {b \in bf.rest : \A c \in bf.rest : b \in Chain[c]}

OnBlock ==
    /\ bf.st = "stream" /\ conn
    /\ ~chan[cur].closed
    /\ Len(chan[cur].buf) < BlockBatchSize
    /\ \E b \in NextOfStream :
          /\ chan' = [chan EXCEPT ![cur].buf = Append(@, b)]
          /\ bf' = [bf EXCEPT !.rest = @ \ {b}]
    /\ raced' = (raced \/ bf.gen # cur)
    /\ UNCHANGED <<pc, highest, cur, fetcher, ends, errChan, consumer, conn, declined>>
    /\ UNCHANGED <<dbVars, torn>>

(* Faulty variant: the channel stays open. *)
OnBatchDoneLeavingOpen ==
    /\ bf.st = "stream" /\ conn
    /\ bf.rest = {}
    /\ bf' = FetchIdle
    /\ UNCHANGED <<pc, highest, cur, chan, fetcher, ends, errChan, consumer, conn, declined>>
    /\ UNCHANGED <<dbVars, ghostVars>>

(* onBatchDone closes bp.blockChan; then the client frees busyMutex. *)
OnBatchDone ==
    /\ bf.st = "stream" /\ conn
    /\ bf.rest = {}
    /\ ~chan[cur].closed
    /\ chan' = [chan EXCEPT ![cur].closed = TRUE]
    /\ bf' = FetchIdle
    /\ raced' = (raced \/ bf.gen # cur)
    /\ UNCHANGED <<pc, highest, cur, fetcher, ends, errChan, consumer, conn, declined>>
    /\ UNCHANGED <<dbVars, torn>>

StreamIntoClosedChan == bf.st = "stream" /\ conn /\ chan[cur].closed

-----------------------------------------------------------------------------
(* The consumer of a generation *)

(* "range bp.blockChan" evaluates the field when the goroutine first runs. *)
ConsumerStarts(g) ==
    /\ consumer[g].st = "start"
    /\ consumer' = [consumer EXCEPT ![g].st = "run", ![g].on = cur]
    /\ raced' = (raced \/ g # cur)
    /\ UNCHANGED <<pc, highest, cur, chan, fetcher, ends, errChan, bf, conn, declined>>
    /\ UNCHANGED <<dbVars, torn>>

(* Faulty variant: the previous hash is not checked. *)
LinkUnchecked(c, b) == TRUE

(* The previous-hash check: the first block of all and boundary blocks are *)
(* exempt.                                                                 *)
LinkOK(c, b) ==
    \/ c.height = 0
    \/ b \in Boundary
    \/ Parent[b] \in {c.prev, c.prevBoundary}

(* Faulty variants: the height is counted down, is not counted, and is     *)
(* counted for boundary blocks too.                                        *)
NumberedDown(c, b) ==
    [c EXCEPT !.refs = [@ EXCEPT ![b] = c.height], !.height = @ - 1, !.prev = b,
              !.last = [block |-> b, height |-> c.height]]

NumberedOnce(c, b) ==
    [c EXCEPT !.refs = [@ EXCEPT ![b] = c.height], !.prev = b,
              !.last = [block |-> b, height |-> c.height]]

NumberedBoundaryToo(c, b) ==
    [c EXCEPT !.refs = [@ EXCEPT ![b] = c.height], !.height = @ + 1, !.prev = b,
              !.last = [block |-> b, height |-> c.height]]

(* The local variables after a block has been numbered. *)
Numbered(c, b) ==
    LET isBoundary == b \in Boundary
    IN  [c EXCEPT !.refs = [@ EXCEPT ![b] = c.height],
                  !.last = [block |-> b, height |-> c.height],
                  !.height = IF isBoundary /\ c.height > 0 THEN @ ELSE @ + 1,
                  !.prev = IF isBoundary THEN @ ELSE b,
                  !.prevBoundary = IF isBoundary THEN b ELSE @]

Receives(g) ==
    /\ consumer[g].st = "run"
    /\ chan[consumer[g].on].buf # <<>>

ConsumeBlock(g) ==
    /\ Receives(g)
    /\ LET k == consumer[g].on
           b == Head(chan[k].buf)
       IN  /\ LinkOK(consumer[g], b)
           /\ consumer' = [consumer EXCEPT ![g] = Numbered(@, b)]
           /\ chan' = [chan EXCEPT ![k].buf = Tail(@)]
    /\ UNCHANGED <<pc, highest, cur, fetcher, ends, errChan, bf, conn, declined>>
    /\ UNCHANGED <<dbVars, ghostVars>>

(* "block chain broken": the consumer returns and leaves the channel. *)
ChainBroken(g) ==
    /\ Receives(g)
    /\ LET k == consumer[g].on
       IN  /\ ~LinkOK(consumer[g], Head(chan[k].buf))
           /\ chan' = [chan EXCEPT ![k].buf = Tail(@)]
    /\ g \notin errChan
    /\ errChan' = errChan \cup {g}
    /\ consumer' = [consumer EXCEPT ![g] = NoConsumer]
    /\ UNCHANGED <<pc, highest, cur, fetcher, ends, bf, conn, declined>>
    /\ UNCHANGED <<dbVars, ghostVars>>

(* The channel is closed and drained: maxPoint goes to doneChan. *)
ConsumerDone(g) ==
    /\ consumer[g].st = "run"
    /\ chan[consumer[g].on].buf = <<>>
    /\ chan[consumer[g].on].closed
    /\ consumer' = [consumer EXCEPT ![g].st = "done", ![g].on = NoHash]
    /\ UNCHANGED <<pc, highest, cur, chan, fetcher, ends, errChan, bf, conn, declined>>
    /\ UNCHANGED <<dbVars, ghostVars>>

-----------------------------------------------------------------------------
(* Rollback *)

(* HandleRollback waits for processingMutex.  It acts only below the       *)
(* highest processed slot.  When no processed point is left it returns nil *)
(* and keeps the old highestPoint.                                         *)
HandleRollbackFails(slot) ==
    \E h \in HighestRefs(point) :
        /\ h.block # NoHash /\ slot < Slot[h.block]
        /\ leaked \/ RollbackConflict(slot)

HandleRollback(slot) ==
    /\ ~MutexHeld
    /\ \E h \in HighestRefs(point) :
          IF h.block # NoHash /\ slot < Slot[h.block]
            THEN /\ ~leaked /\ ~RollbackConflict(slot)
                 /\ DbHandleRollback(slot)
                 /\ \E n \in HighestRefs(point') :
                       highest' = IF n.block = NoHash THEN highest ELSE n
            ELSE UNCHANGED <<point, rolledBack, tx, highest>>
    /\ torn' = {b \in torn : point'[b] # Absent}
    /\ UNCHANGED <<pc, cur, chan, fetcher, ends, errChan, consumer, bf, conn, declined>>
    /\ UNCHANGED <<leaked, raced>>
=============================================================================
