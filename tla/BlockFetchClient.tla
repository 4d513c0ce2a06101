-------------------------- MODULE BlockFetchClient --------------------------
(***************************************************************************)
(* The block-fetch client of gouroboros (vendored), shared by the block    *)
(* processor, which calls GetBlockRange, and the request handlers, which   *)
(* call GetBlock.  One connection and one protocol state serve them all;   *)
(* busyMutex is taken by the caller and freed by the receive loop when     *)
(* BatchDone arrives, after the caller has returned.                       *)
(*                                                                         *)
(* The receive loop hands results over on unbuffered channels, so a        *)
(* message and the caller's receive are one step.                          *)
(***************************************************************************)
EXTENDS Naturals, Sequences

CONSTANTS
    Caller,        \* goroutines that use the client
    RangeCaller,   \* the callers of GetBlockRange; the others call GetBlock
    Block,         \* blocks
    None,          \* no caller, no block
    QueueSize,     \* how many messages the send queue holds
    MayClose       \* whether the connection may be closed

ASSUME CallerAssumption ==
    /\ RangeCaller \subseteq Caller
    /\ None \notin Caller /\ None \notin Block
    /\ QueueSize \in Nat \ {0}
    /\ MayClose \in BOOLEAN

VARIABLES
    cpc,        \* where each caller is
    req,        \* the blocks each caller last asked for
    result,     \* what the last GetBlock of each caller returned
    holder,     \* who took busyMutex, None when it is free
    useCallback,\* blockUseCallback
    queued,     \* the send queue: the callers whose RequestRange is in it
    proto,      \* the protocol state
    asked,      \* the range of the request the node is answering
    rest,       \* its blocks that have not arrived yet
    delivered,  \* blocks given to BlockFunc since the last BatchDone
    open        \* the connection is open

vars == <<cpc, req, result, holder, useCallback, queued, proto, asked, rest, delivered, open>>

TypeOK ==
    /\ cpc \in [Caller -> {"idle", "lock", "send", "start", "block"}]
    /\ req \in [Caller -> SUBSET Block]
    /\ result \in [Caller -> Block \cup {None}]
    /\ holder \in Caller \cup {None}
    /\ useCallback \in BOOLEAN
    /\ queued \in Seq(Caller)
    /\ proto \in {"Idle", "Busy", "Streaming"}
    /\ asked \in SUBSET Block
    /\ rest \in SUBSET Block
    /\ delivered \in SUBSET Block
    /\ open \in BOOLEAN

Init ==
    /\ cpc = [c \in Caller |-> "idle"]
    /\ req = [c \in Caller |-> {}]
    /\ result = [c \in Caller |-> None]
    /\ holder = None /\ useCallback = FALSE
    /\ queued = <<>> /\ proto = "Idle"
    /\ asked = {} /\ rest = {} /\ delivered = {}
    /\ open = TRUE

-----------------------------------------------------------------------------
(* Callers *)

Requests(c) == {S \in SUBSET Block : S # {} /\ (c \in RangeCaller \/ \E b \in Block : S = {b})}

Call(c) ==
    /\ cpc[c] = "idle"
    /\ cpc' = [cpc EXCEPT ![c] = "lock"]
    /\ \E S \in Requests(c) : req' = [req EXCEPT ![c] = S]
    /\ result' = [result EXCEPT ![c] = None]
    /\ UNCHANGED <<holder, useCallback, queued, proto, asked, rest, delivered, open>>

(* Faulty variant: GetBlock forgets to clear blockUseCallback. *)
LockKeepingCallback(c) ==
    /\ cpc[c] = "lock"
    /\ holder = None
    /\ holder' = c
    /\ useCallback' = (useCallback \/ c \in RangeCaller)
    /\ cpc' = [cpc EXCEPT ![c] = "send"]
    /\ UNCHANGED <<req, result, queued, proto, asked, rest, delivered, open>>

(* busyMutex, then the callback flag. *)
Lock(c) ==
    /\ cpc[c] = "lock"
    /\ holder = None
    /\ holder' = c
    /\ useCallback' = (c \in RangeCaller)
    /\ cpc' = [cpc EXCEPT ![c] = "send"]
    /\ UNCHANGED <<req, result, queued, proto, asked, rest, delivered, open>>

(* The request goes into the send queue, which may be full once the        *)
(* connection is closed and nothing takes messages out of it.              *)
SendMessage(c) ==
    /\ cpc[c] = "send"
    /\ Len(queued) < QueueSize
    /\ queued' = Append(queued, c)
    /\ cpc' = [cpc EXCEPT ![c] = "start"]
    /\ UNCHANGED <<req, result, holder, useCallback, proto, asked, rest, delivered, open>>

(* The channels were closed: the caller frees the mutex and fails. *)
ShuttingDown(c) ==
    /\ ~open
    /\ cpc[c] \in {"start", "block"}
    /\ cpc' = [cpc EXCEPT ![c] = "idle"]
    /\ holder' = None
    /\ UNCHANGED <<req, result, useCallback, queued, proto, asked, rest, delivered, open>>

-----------------------------------------------------------------------------
(* Protocol: the send loop, the node's answer, the receive loop *)

(* The send loop may send in the Idle state only. *)
SendRequest(c) ==
    /\ open
    /\ proto = "Idle"
    /\ queued # <<>> /\ Head(queued) = c
    /\ queued' = Tail(queued)
    /\ proto' = "Busy"
    /\ asked' = req[c] /\ rest' = {}
    /\ UNCHANGED <<cpc, req, result, holder, useCallback, delivered, open>>

(* StartBatch reaches a caller that waits on startBatchResultChan. *)
HandleStartBatch(c) ==
    /\ open
    /\ proto = "Busy"
    /\ cpc[c] = "start"
    /\ proto' = "Streaming"
    /\ rest' = asked
    /\ cpc' = [cpc EXCEPT ![c] = IF c \in RangeCaller THEN "idle" ELSE "block"]
    /\ UNCHANGED <<req, result, holder, useCallback, queued, asked, delivered, open>>

(* Faulty variant: the error path keeps the mutex. *)
HandleNoBlocksLocked(c) ==
    /\ open
    /\ proto = "Busy"
    /\ cpc[c] = "start"
    /\ proto' = "Idle"
    /\ cpc' = [cpc EXCEPT ![c] = "idle"]
    /\ UNCHANGED <<req, result, holder, useCallback, queued, asked, rest, delivered, open>>

(* NoBlocks: the caller frees the mutex and returns the error. *)
HandleNoBlocks(c) ==
    /\ open
    /\ proto = "Busy"
    /\ cpc[c] = "start"
    /\ proto' = "Idle"
    /\ cpc' = [cpc EXCEPT ![c] = "idle"]
    /\ holder' = None
    /\ UNCHANGED <<req, result, useCallback, queued, asked, rest, delivered, open>>

(* Faulty variant: GetBlock frees the mutex as soon as it has its block. *)
HandleBlockUnlocking(b) ==
    /\ open
    /\ proto = "Streaming"
    /\ b \in rest
    /\ rest' = rest \ {b}
    /\ IF useCallback
         THEN delivered' = delivered \cup {b} /\ UNCHANGED <<cpc, result, holder>>
         ELSE /\ \E c \in Caller : /\ cpc[c] = "block"
                                   /\ result' = [result EXCEPT ![c] = b]
                                   /\ cpc' = [cpc EXCEPT ![c] = "idle"]
              /\ holder' = None
              /\ UNCHANGED delivered
    /\ UNCHANGED <<req, useCallback, queued, proto, asked, open>>

(* A block goes to the callback or to a caller waiting on blockChan. *)
HandleBlock(b) ==
    /\ open
    /\ proto = "Streaming"
    /\ b \in rest
    /\ rest' = rest \ {b}
    /\ \/ /\ useCallback
          /\ delivered' = delivered \cup {b}
          /\ UNCHANGED <<cpc, result>>
       \/ /\ ~useCallback
          /\ \E c \in Caller : /\ cpc[c] = "block"
                               /\ result' = [result EXCEPT ![c] = b]
                               /\ cpc' = [cpc EXCEPT ![c] = "idle"]
          /\ UNCHANGED delivered
    /\ UNCHANGED <<req, holder, useCallback, queued, proto, asked, open>>

(* BatchDone: the callback when one is in use, then the mutex is freed. *)
HandleBatchDone ==
    /\ open
    /\ proto = "Streaming"
    /\ rest = {}
    /\ proto' = "Idle"
    /\ delivered' = IF useCallback THEN {} ELSE delivered
    /\ holder' = None
    /\ UNCHANGED <<cpc, req, result, useCallback, queued, asked, rest, open>>

Close ==
    /\ MayClose
    /\ open
    /\ open' = FALSE
    /\ UNCHANGED <<cpc, req, result, holder, useCallback, queued, proto, asked, rest, delivered>>

Answer ==
    \/ \E c \in Caller : SendRequest(c) \/ HandleStartBatch(c) \/ HandleNoBlocks(c)
    \/ \E b \in Block : HandleBlock(b)
    \/ HandleBatchDone

Next ==
    \/ \E c \in Caller : Call(c) \/ Lock(c) \/ SendMessage(c) \/ ShuttingDown(c)
    \/ Answer
    \/ Close

Spec == Init /\ [][Next]_vars

(* The node answers and the receive loop runs; sync.Mutex starves nobody. *)
Fairness ==
    /\ WF_vars(Answer)
    /\ \A c \in Caller : SF_vars(Lock(c)) /\ WF_vars(SendMessage(c)) /\ WF_vars(ShuttingDown(c))

FairSpec == Spec /\ Fairness

-----------------------------------------------------------------------------
(* Properties *)

(* GetBlock returns the block it was asked for, however the calls of other *)
(* goroutines and the end of earlier batches interleave with it.           *)
OwnBlock == \A c \in Caller : result[c] # None => req[c] = {result[c]}

(* What reaches onBlock belongs to the range request in progress, and a    *)
(* block a request handler fetched never does.                             *)
OwnCallback == delivered # {} => holder \in RangeCaller /\ delivered \subseteq asked

(* onBatchDone is called exactly when the whole range has been delivered. *)
WholeBatch ==
    [][useCallback /\ HandleBatchDone => delivered = asked]_vars

(* Every call returns while the connection is open. *)
CallReturnsWhileOpen == \A c \in Caller : cpc[c] = "lock" ~> (cpc[c] = "idle" \/ ~open)

(* Every call returns. *)
CallReturns == \A c \in Caller : cpc[c] = "lock" ~> cpc[c] = "idle"

(* The inductive invariant.  While the connection is open, the caller that *)
(* waits, the queued request, the protocol state and the stream all belong *)
(* to the holder of the mutex.                                             *)
WaiterHolds == \A c \in Caller : cpc[c] \in {"send", "start", "block"} => holder = c

FreeMeansIdle == open /\ holder = None => proto = "Idle" /\ queued = <<>>

QueuedIsHolders ==
    /\ open /\ queued # <<>> => queued = <<holder>> /\ cpc[holder] = "start" /\ proto = "Idle"
    /\ open => \A c \in Caller : cpc[c] = "send" => proto = "Idle" /\ queued = <<>>

BusyIsHolders ==
    open /\ proto = "Busy" => holder # None /\ cpc[holder] = "start" /\ asked = req[holder]

StreamIsHolders ==
    open /\ proto = "Streaming" =>
        /\ holder # None
        /\ cpc[holder] \notin {"send", "start"}
        /\ rest \subseteq asked
        /\ holder \notin RangeCaller =>
              rest = IF cpc[holder] = "block" THEN req[holder] ELSE {}

CallbackIsHolders == holder # None => (useCallback <=> holder \in RangeCaller)

SingleRequests ==
    \A c \in Caller \ RangeCaller : cpc[c] # "idle" => \E b \in Block : req[c] = {b}

BlockPhase == \A c \in Caller : cpc[c] = "block" => c \notin RangeCaller

DeliveredSoFar ==
    /\ delivered # {} => /\ holder \in RangeCaller /\ cpc[holder] \notin {"send", "start", "block"}
                         /\ proto = "Streaming" /\ delivered \subseteq asked
    /\ open /\ proto = "Streaming" /\ useCallback => delivered \cup rest = asked

Inv ==
    /\ TypeOK
    /\ WaiterHolds
    /\ FreeMeansIdle
    /\ QueuedIsHolders
    /\ BusyIsHolders
    /\ StreamIsHolders
    /\ CallbackIsHolders
    /\ SingleRequests
    /\ BlockPhase
    /\ DeliveredSoFar
    /\ OwnBlock
=============================================================================
