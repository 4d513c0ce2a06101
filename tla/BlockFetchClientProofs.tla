----------------------- MODULE BlockFetchClientProofs -----------------------
(***************************************************************************)
(* Proofs about the shared block-fetch client, for every set of callers    *)
(* and blocks: each caller gets its own blocks.                            *)
(***************************************************************************)
EXTENDS BlockFetchClient, TLAPS

(* The invariant holds when the client is created: nobody holds the mutex  *)
(* and the protocol is idle.                                               *)
LEMMA InitInv == Init => Inv
<1>1. <<>> \in Seq(Caller)
  OBVIOUS
<1> QED
  BY <1>1, CallerAssumption
  DEF Init, Inv, TypeOK, WaiterHolds, FreeMeansIdle, QueuedIsHolders, BusyIsHolders,
      StreamIsHolders, CallbackIsHolders, SingleRequests, BlockPhase, DeliveredSoFar, OwnBlock

(* A caller's entry into GetBlock or GetBlockRange: it may come while the  *)
(* stream of its own previous range is still arriving.                     *)
LEMMA CallInv == ASSUME Inv, NEW c \in Caller, Call(c) PROVE Inv'
<1> USE CallerAssumption
<1>1. PICK S \in Requests(c) : req' = [req EXCEPT ![c] = S]
  BY DEF Call
<1>2. TypeOK'
  BY <1>1 DEF Inv, TypeOK, Call, Requests
<1>3. WaiterHolds' /\ FreeMeansIdle' /\ QueuedIsHolders'
  BY DEF Inv, TypeOK, Call, WaiterHolds, FreeMeansIdle, QueuedIsHolders
<1>4. BusyIsHolders' /\ StreamIsHolders'
  BY <1>1 DEF Inv, TypeOK, Call, BusyIsHolders, StreamIsHolders
<1>5. CallbackIsHolders' /\ BlockPhase' /\ DeliveredSoFar'
  BY DEF Inv, TypeOK, Call, CallbackIsHolders, BlockPhase, DeliveredSoFar
<1>6. SingleRequests'
  BY <1>1 DEF Inv, TypeOK, Call, Requests, SingleRequests
<1>7. OwnBlock'
  BY <1>1 DEF Inv, TypeOK, Call, OwnBlock
<1> QED BY <1>2, <1>3, <1>4, <1>5, <1>6, <1>7 DEF Inv

(* busyMutex is free only between two requests, so the new holder finds    *)
(* the protocol idle and the send queue empty.                             *)
LEMMA LockInv == ASSUME Inv, NEW c \in Caller, Lock(c) PROVE Inv'
<1> USE CallerAssumption DEF Inv, Lock
<1>1. TypeOK'
  BY DEF TypeOK
<1>2. WaiterHolds' /\ FreeMeansIdle' /\ QueuedIsHolders'
  BY DEF TypeOK, WaiterHolds, FreeMeansIdle, QueuedIsHolders
<1>3. BusyIsHolders' /\ StreamIsHolders'
  BY DEF TypeOK, FreeMeansIdle, BusyIsHolders, StreamIsHolders
<1>4. CallbackIsHolders' /\ BlockPhase' /\ SingleRequests'
  BY DEF TypeOK, CallbackIsHolders, BlockPhase, SingleRequests
<1>5. DeliveredSoFar'
  BY DEF TypeOK, FreeMeansIdle, DeliveredSoFar
<1>6. OwnBlock'
  BY DEF TypeOK, OwnBlock
<1> QED BY <1>1, <1>2, <1>3, <1>4, <1>5, <1>6

(* While the connection is open the holder's request is the only one in    *)
(* the send queue.                                                         *)
LEMMA SendMessageInv == ASSUME Inv, NEW c \in Caller, SendMessage(c) PROVE Inv'
<1> USE CallerAssumption DEF Inv, SendMessage
<1>1. holder = c /\ delivered = {}
  BY DEF TypeOK, WaiterHolds, DeliveredSoFar
<1>2. open => proto = "Idle" /\ queued' = <<c>>
  <2>1. open => proto = "Idle" /\ queued = <<>>
    BY DEF QueuedIsHolders
  <2>2. Append(<<>>, c) = <<c>>
    OBVIOUS
  <2>3. queued' = Append(queued, c)
    OBVIOUS
  <2> QED BY ONLY <2>1, <2>2, <2>3
<1>3. TypeOK'
  BY DEF TypeOK
<1>4. WaiterHolds' /\ FreeMeansIdle'
  BY <1>1 DEF TypeOK, WaiterHolds, FreeMeansIdle
<1>5. QueuedIsHolders'
  BY <1>1, <1>2 DEF TypeOK, WaiterHolds, QueuedIsHolders
<1>6. BusyIsHolders' /\ StreamIsHolders'
  BY <1>2 DEF TypeOK, BusyIsHolders, StreamIsHolders
<1>7. CallbackIsHolders' /\ BlockPhase' /\ SingleRequests' /\ OwnBlock'
  BY DEF TypeOK, CallbackIsHolders, BlockPhase, SingleRequests, OwnBlock
<1>8. DeliveredSoFar'
  BY <1>1, <1>2 DEF TypeOK, DeliveredSoFar
<1> QED BY <1>3, <1>4, <1>5, <1>6, <1>7, <1>8

(* After the connection closed only callers that wait for a result return, *)
(* with an error; no message is handled any more.                          *)
LEMMA ShuttingDownInv == ASSUME Inv, NEW c \in Caller, ShuttingDown(c) PROVE Inv'
<1> USE CallerAssumption DEF Inv, ShuttingDown
<1>1. TypeOK'
  BY DEF TypeOK
<1>2. WaiterHolds' /\ FreeMeansIdle' /\ QueuedIsHolders' /\ BusyIsHolders' /\ StreamIsHolders'
  BY DEF TypeOK, WaiterHolds, FreeMeansIdle, QueuedIsHolders, BusyIsHolders, StreamIsHolders
<1>3. CallbackIsHolders' /\ BlockPhase' /\ SingleRequests' /\ OwnBlock'
  BY DEF TypeOK, CallbackIsHolders, BlockPhase, SingleRequests, OwnBlock
<1>4. DeliveredSoFar'
  BY DEF TypeOK, WaiterHolds, DeliveredSoFar
<1> QED BY <1>1, <1>2, <1>3, <1>4

(* The request that leaves the send queue is the holder's. *)
LEMMA SendRequestInv == ASSUME Inv, NEW c \in Caller, SendRequest(c) PROVE Inv'
<1> USE CallerAssumption DEF Inv, SendRequest
<1>1. holder = c /\ cpc[c] = "start" /\ queued' = <<>>
  BY DEF TypeOK, QueuedIsHolders
<1>2. TypeOK'
  BY <1>1 DEF TypeOK
<1>3. WaiterHolds' /\ FreeMeansIdle'
  BY <1>1 DEF TypeOK, WaiterHolds, FreeMeansIdle
<1>4. QueuedIsHolders'
  BY <1>1 DEF TypeOK, WaiterHolds, QueuedIsHolders
<1>5. BusyIsHolders' /\ StreamIsHolders'
  BY <1>1 DEF TypeOK, BusyIsHolders, StreamIsHolders
<1>6. CallbackIsHolders' /\ BlockPhase' /\ SingleRequests' /\ OwnBlock'
  BY DEF TypeOK, CallbackIsHolders, BlockPhase, SingleRequests, OwnBlock
<1>7. DeliveredSoFar'
  BY DEF TypeOK, DeliveredSoFar
<1> QED BY <1>2, <1>3, <1>4, <1>5, <1>6, <1>7

(* Only the holder waits on startBatchResultChan, so StartBatch reaches    *)
(* the caller whose range is about to arrive.                              *)
LEMMA StartBatchInv == ASSUME Inv, NEW c \in Caller, HandleStartBatch(c) PROVE Inv'
<1> USE CallerAssumption DEF Inv, HandleStartBatch
<1>1. holder = c /\ asked = req[c] /\ delivered = {}
  BY DEF TypeOK, WaiterHolds, BusyIsHolders, DeliveredSoFar
<1>2. TypeOK'
  BY DEF TypeOK
<1>3. WaiterHolds' /\ FreeMeansIdle' /\ QueuedIsHolders' /\ BusyIsHolders'
  BY <1>1 DEF TypeOK, WaiterHolds, FreeMeansIdle, QueuedIsHolders, BusyIsHolders
<1>4. StreamIsHolders'
  BY <1>1 DEF TypeOK, StreamIsHolders
<1>5. CallbackIsHolders' /\ BlockPhase' /\ SingleRequests' /\ OwnBlock'
  BY DEF TypeOK, CallbackIsHolders, BlockPhase, SingleRequests, OwnBlock
<1>6. DeliveredSoFar'
  BY <1>1 DEF TypeOK, DeliveredSoFar
<1> QED BY <1>2, <1>3, <1>4, <1>5, <1>6

(* NoBlocks returns the client to the idle state and frees the mutex. *)
LEMMA NoBlocksInv == ASSUME Inv, NEW c \in Caller, HandleNoBlocks(c) PROVE Inv'
<1> USE CallerAssumption DEF Inv, HandleNoBlocks
<1>1. holder = c /\ queued = <<>> /\ delivered = {}
  BY DEF TypeOK, WaiterHolds, QueuedIsHolders, DeliveredSoFar
<1>2. TypeOK'
  BY DEF TypeOK
<1>3. WaiterHolds' /\ FreeMeansIdle' /\ QueuedIsHolders' /\ BusyIsHolders' /\ StreamIsHolders'
  BY <1>1 DEF TypeOK, WaiterHolds, FreeMeansIdle, QueuedIsHolders, BusyIsHolders, StreamIsHolders
<1>4. CallbackIsHolders' /\ BlockPhase' /\ SingleRequests' /\ OwnBlock'
  BY DEF TypeOK, CallbackIsHolders, BlockPhase, SingleRequests, OwnBlock
<1>5. DeliveredSoFar'
  BY <1>1 DEF TypeOK, DeliveredSoFar
<1> QED BY <1>2, <1>3, <1>4, <1>5

(* A block of a range goes to the callback.  A single block goes to the    *)
(* holder, whose request it answers.                                       *)
LEMMA BlockInv == ASSUME Inv, NEW b \in Block, HandleBlock(b) PROVE Inv'
<1> USE CallerAssumption DEF Inv
<1>1. CASE useCallback
  <2>1. /\ delivered' = delivered \cup {b} /\ rest' = rest \ {b}
        /\ UNCHANGED <<cpc, req, result, holder, useCallback, queued, proto, asked, open>>
        /\ open /\ proto = "Streaming" /\ b \in rest
    BY <1>1 DEF HandleBlock
  <2>2. holder \in RangeCaller /\ holder # None
    BY <1>1, <2>1 DEF StreamIsHolders, CallbackIsHolders
  <2>3. cpc[holder] \notin {"send", "start", "block"} /\ rest \subseteq asked
    BY <1>1, <2>1, <2>2 DEF TypeOK, StreamIsHolders, BlockPhase, DeliveredSoFar
  <2>4. TypeOK'
    BY <2>1 DEF TypeOK
  <2>5. WaiterHolds' /\ FreeMeansIdle' /\ QueuedIsHolders' /\ BusyIsHolders' /\ StreamIsHolders'
    BY <2>1, <2>2 DEF TypeOK, WaiterHolds, FreeMeansIdle, QueuedIsHolders, BusyIsHolders, StreamIsHolders
  <2>6. CallbackIsHolders' /\ BlockPhase' /\ SingleRequests' /\ OwnBlock'
    BY <2>1 DEF TypeOK, CallbackIsHolders, BlockPhase, SingleRequests, OwnBlock
  <2>7. DeliveredSoFar'
    BY <1>1, <2>1, <2>2, <2>3 DEF TypeOK, DeliveredSoFar
  <2> QED BY <2>4, <2>5, <2>6, <2>7
<1>2. CASE ~useCallback
  <2>1. PICK c \in Caller : /\ cpc[c] = "block"
                            /\ result' = [result EXCEPT ![c] = b]
                            /\ cpc' = [cpc EXCEPT ![c] = "idle"]
    BY <1>2 DEF HandleBlock
  <2>2. /\ rest' = rest \ {b} /\ open /\ proto = "Streaming" /\ b \in rest
        /\ UNCHANGED <<req, holder, useCallback, queued, proto, asked, open, delivered>>
    BY <1>2 DEF HandleBlock
  <2>3. holder = c /\ c \notin RangeCaller /\ delivered = {}
    BY <2>1, <2>2 DEF TypeOK, WaiterHolds, BlockPhase, DeliveredSoFar
  <2>4. req[c] = {b} /\ rest = {b} /\ rest \subseteq asked
    BY <2>1, <2>2, <2>3 DEF TypeOK, StreamIsHolders, SingleRequests
  <2>5. TypeOK'
    BY <2>1, <2>2 DEF TypeOK
  <2>6. WaiterHolds' /\ FreeMeansIdle' /\ QueuedIsHolders' /\ BusyIsHolders'
    BY <2>1, <2>2, <2>3 DEF TypeOK, WaiterHolds, FreeMeansIdle, QueuedIsHolders, BusyIsHolders
  <2>7. StreamIsHolders'
    BY <2>1, <2>2, <2>3, <2>4 DEF TypeOK, StreamIsHolders
  <2>8. CallbackIsHolders' /\ BlockPhase' /\ SingleRequests'
    BY <2>1, <2>2 DEF TypeOK, CallbackIsHolders, BlockPhase, SingleRequests
  <2>9. DeliveredSoFar'
    BY <1>2, <2>1, <2>2, <2>3 DEF TypeOK, DeliveredSoFar
  <2>10. OwnBlock'
    BY <2>1, <2>2, <2>4 DEF TypeOK, OwnBlock
  <2> QED BY <2>5, <2>6, <2>7, <2>8, <2>9, <2>10
<1> QED BY <1>1, <1>2

(* BatchDone frees the mutex when the whole stream has been handled. *)
LEMMA BatchDoneInv == ASSUME Inv, HandleBatchDone PROVE Inv'
<1> USE CallerAssumption DEF Inv, HandleBatchDone
<1>1. holder \in Caller /\ queued = <<>>
  BY DEF TypeOK, StreamIsHolders, QueuedIsHolders
<1>2. \A c \in Caller : cpc[c] \notin {"send", "start", "block"}
  <2> SUFFICES ASSUME NEW c \in Caller, cpc[c] \in {"send", "start", "block"} PROVE FALSE
    OBVIOUS
  <2>1. holder = c /\ cpc[c] = "block"
    BY DEF WaiterHolds, StreamIsHolders
  <2>2. c \notin RangeCaller
    BY <2>1 DEF BlockPhase
  <2>3. req[c] = {}
    BY <2>1, <2>2 DEF StreamIsHolders
  <2>4. \E b \in Block : req[c] = {b}
    BY <2>1, <2>2 DEF SingleRequests
  <2> QED BY <2>3, <2>4
<1>3. TypeOK'
  BY DEF TypeOK
<1>4. WaiterHolds' /\ FreeMeansIdle' /\ QueuedIsHolders' /\ BusyIsHolders' /\ StreamIsHolders'
  BY <1>1, <1>2 DEF TypeOK, WaiterHolds, FreeMeansIdle, QueuedIsHolders, BusyIsHolders, StreamIsHolders
<1>5. CallbackIsHolders' /\ BlockPhase' /\ SingleRequests' /\ OwnBlock'
  BY DEF TypeOK, CallbackIsHolders, BlockPhase, SingleRequests, OwnBlock
<1>6. delivered' = {}
  BY <1>1 DEF DeliveredSoFar, CallbackIsHolders
<1>7. DeliveredSoFar'
  BY <1>6 DEF DeliveredSoFar
<1> QED BY <1>3, <1>4, <1>5, <1>7

(* Closing the connection weakens what the invariant says. *)
LEMMA CloseInv == ASSUME Inv, Close PROVE Inv'
BY DEF Close, Inv, TypeOK, WaiterHolds, FreeMeansIdle, QueuedIsHolders, BusyIsHolders,
    StreamIsHolders, CallbackIsHolders, SingleRequests, BlockPhase, DeliveredSoFar, OwnBlock

(* A step that changes nothing. *)
LEMMA StutterInv == ASSUME Inv, UNCHANGED vars PROVE Inv'
BY DEF vars, Inv, TypeOK, WaiterHolds, FreeMeansIdle, QueuedIsHolders, BusyIsHolders,
    StreamIsHolders, CallbackIsHolders, SingleRequests, BlockPhase, DeliveredSoFar, OwnBlock

(* Every step of the client, its callers, the node and the connection      *)
(* preserves the invariant.                                                *)
LEMMA NextInv == Inv /\ [Next]_vars => Inv'
<1> SUFFICES ASSUME Inv, [Next]_vars PROVE Inv'
  OBVIOUS
<1>1. ASSUME NEW c \in Caller, Call(c) \/ Lock(c) \/ SendMessage(c) \/ ShuttingDown(c) PROVE Inv'
  BY <1>1, CallInv, LockInv, SendMessageInv, ShuttingDownInv
<1>2. ASSUME NEW c \in Caller, SendRequest(c) \/ HandleStartBatch(c) \/ HandleNoBlocks(c) PROVE Inv'
  BY <1>2, SendRequestInv, StartBatchInv, NoBlocksInv
<1>3. ASSUME NEW b \in Block, HandleBlock(b) PROVE Inv'
  BY <1>3, BlockInv
<1>4. CASE HandleBatchDone
  BY <1>4, BatchDoneInv
<1>5. CASE Close
  BY <1>5, CloseInv
<1>6. CASE UNCHANGED vars
  BY <1>6, StutterInv
<1> QED BY <1>1, <1>2, <1>3, <1>4, <1>5, <1>6 DEF Next, Answer

(* The invariant ties the waiting caller, the queued request, the protocol *)
(* state and the stream to the holder of busyMutex, in every behaviour.    *)
THEOREM InvHolds == Spec => []Inv
<1>1. Init => Inv
  BY InitInv
<1>2. Inv /\ [Next]_vars => Inv'
  BY NextInv
<1> QED BY <1>1, <1>2, PTL DEF Spec

(* The variables of the client keep their types. *)
THEOREM TypeCorrect == Spec => []TypeOK
<1>1. Inv => TypeOK
  BY DEF Inv
<1> QED BY <1>1, InvHolds, PTL

(* GetBlock returns the block it was asked for, for any number of callers: *)
(* busyMutex is kept until BatchDone, after GetBlock has returned.         *)
THEOREM EachGetsItsOwn == Spec => []OwnBlock
<1>1. Inv => OwnBlock
  BY DEF Inv
<1> QED BY <1>1, InvHolds, PTL

(* onBlock sees blocks of the range request in progress only. *)
THEOREM CallbacksOfOneRange == Spec => []OwnCallback
<1>1. Inv => OwnCallback
  BY DEF Inv, DeliveredSoFar, OwnCallback
<1> QED BY <1>1, InvHolds, PTL

(* onBatchDone follows the last block of the range, and no block is missing. *)
THEOREM BatchesAreWhole == Spec => WholeBatch
<1>1. Inv /\ [Next]_vars => [useCallback /\ HandleBatchDone => delivered = asked]_vars
  BY DEF Inv, DeliveredSoFar, HandleBatchDone
<1> QED BY <1>1, InvHolds, PTL DEF Spec, WholeBatch
=============================================================================
