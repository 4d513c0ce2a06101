----------------------------- MODULE RpcServer -----------------------------
(***************************************************************************)
(* The request handlers of the RPC server that read the index (http.go)    *)
(* and the methods of Client they call.  A handler makes several reads of  *)
(* the database, each in a critical section of its own, and a request to   *)
(* the node; the follower goes on between them.  Handlers share nothing    *)
(* but the block-fetch client, which is BlockFetchClient: the block that   *)
(* is asked for is the block that comes back (OwnBlock there).  So one     *)
(* request is followed at a time, beside the steps of the abstract index.  *)
(* Requests are well formed: a parameter that does not parse is answered   *)
(* with an error before anything is read.                                  *)
(***************************************************************************)
EXTENDS ChainIndex

CONSTANT Byron    \* blocks whose BlockNumber() is 0: they do not store their height

ASSUME ByronAssumption ==
    /\ Boundary \subseteq Byron
    /\ Byron \subseteq Block
    /\ \A b \in Boundary : TxsOf[b] = {}

VARIABLES
    req,      \* the request and the local variables of its handler
    rolled,   \* rows were rolled back since the request came in
    seen,     \* the blocks processed when the request came in
    known     \* the transactions recorded when the request came in

ghosts == <<rolled, seen, known>>
rpcVars == <<dbVars, req, ghosts>>

(* route, hash, tx and height are the request; height is also the block    *)
(* number read for tx.  point and pointHeight are the PointRef given to    *)
(* blockResponse, ask is the block asked of the node, answer the height    *)
(* sent with it, listed the transactions sent with their heights.          *)
NoRequest ==
    [st |-> "idle", route |-> "latest", hash |-> NoHash, tx |-> NoHash, height |-> Absent,
     point |-> NoHash, pointHeight |-> Absent, ask |-> NoHash, answer |-> Absent, listed |-> {}]

Requests ==
    {[NoRequest EXCEPT !.st = "point"]}
    \cup {[NoRequest EXCEPT !.st = "point", !.route = "hash", !.hash = b] : b \in Block}
    \cup {[NoRequest EXCEPT !.st = "point", !.route = "height", !.height = Number[b]] : b \in Block}
    \cup {[NoRequest EXCEPT !.st = "tx", !.route = "tx", !.tx = t] : t \in Tx}
    \cup {[NoRequest EXCEPT !.st = "tx", !.route = "txBlock", !.tx = t] : t \in Tx}
    \cup {[NoRequest EXCEPT !.st = "query", !.route = "utxo"]}

RpcInit ==
    /\ DbInit
    /\ req = NoRequest
    /\ rolled = FALSE /\ seen = {} /\ known = {}

(* A route is matched and its handler starts. *)
Receive ==
    /\ req.st = "idle"
    /\ req' \in Requests
    /\ seen' = Processed
    /\ known' = GetTxs(Tx)
    /\ UNCHANGED <<dbVars, rolled>>

-----------------------------------------------------------------------------
(* Reads of the database *)

(* Faulty variant: the transaction is looked for one block too high. *)
ReadTxHeightShifted ==
    /\ req.st = "tx"
    /\ IF GetBlockNumForTx(req.tx) = {}
         THEN req' = [req EXCEPT !.st = "notFound"]
         ELSE req' = [req EXCEPT !.st = IF req.route = "tx" THEN "block" ELSE "point",
                                 !.height = tx[req.tx] + 1]
    /\ UNCHANGED <<dbVars, ghosts>>

(* getTransaction, getTransactionBlock: GetBlockNumForTx. *)
ReadTxHeight ==
    /\ req.st = "tx"
    /\ IF GetBlockNumForTx(req.tx) = {}
         THEN req' = [req EXCEPT !.st = "notFound"]
         ELSE \E h \in GetBlockNumForTx(req.tx) :
                 req' = [req EXCEPT !.st = IF req.route = "tx" THEN "block" ELSE "point",
                                    !.height = h]
    /\ UNCHANGED <<dbVars, ghosts>>

(* The rows a handler may get for the point it asks for. *)
PointRows ==
    CASE req.route = "latest" -> GetHighestPoint(point)
      [] req.route = "hash"   -> GetPointByHash(req.hash)
      [] OTHER                -> GetPointByHeight(req.height)

(* getLatestBlock, getBlockByHash and getBlockByHeight ask the node for    *)
(* the point they read; getTransactionBlock keeps it and reads again.      *)
ReadPoint ==
    /\ req.st = "point"
    /\ IF PointRows = {}
         THEN req' = [req EXCEPT !.st = "notFound"]
         ELSE \E b \in PointRows :
                 req' = [req EXCEPT !.point = b, !.pointHeight = point[b],
                                    !.ask = IF req.route = "txBlock" THEN NoHash ELSE b,
                                    !.st = IF req.route = "txBlock" THEN "block" ELSE "fetch"]
    /\ UNCHANGED <<dbVars, ghosts>>

(* Client.GetBlockByHeight, up to the request to the node. *)
GetBlockByHeight ==
    /\ req.st = "block"
    /\ IF GetPointByHeight(req.height) = {}
         THEN req' = [req EXCEPT !.st = "notFound"]
         ELSE \E b \in GetPointByHeight(req.height) :
                 req' = [req EXCEPT !.ask = b, !.st = "fetch"]
    /\ UNCHANGED <<dbVars, ghosts>>

(* GetUtxoForAddress: the node lists outputs of any transactions; those    *)
(* the index does not know are left out.                                   *)
GetUtxoForAddress ==
    /\ req.st = "query"
    /\ \E ts \in SUBSET Tx :
          req' = [req EXCEPT !.st = "answered", !.listed = {<<t, tx[t]>> : t \in GetTxs(ts)}]
    /\ UNCHANGED <<dbVars, ghosts>>

-----------------------------------------------------------------------------
(* The answer *)

BlockNumber(b) == IF b \in Byron THEN 0 ELSE Number[b]

(* Faulty variant: the height is always taken from the block. *)
BlockResponseHeightUnset(b, pointHeight) == BlockNumber(b)

(* blockResponse: a block without a number of its own gets the point's. *)
BlockResponseHeight(b, pointHeight) ==
    IF BlockNumber(b) = 0 THEN pointHeight ELSE BlockNumber(b)

(* The block has come.  getTransaction looks for the transaction in it.    *)
NodeSendsBlock ==
    /\ req.st = "fetch"
    /\ IF req.route = "tx"
         THEN req' = [req EXCEPT !.st = IF req.tx \in TxsOf[req.ask] THEN "answered" ELSE "notFound"]
         ELSE req' = [req EXCEPT !.st = "answered",
                                 !.answer = BlockResponseHeight(req.ask, req.pointHeight)]
    /\ UNCHANGED <<dbVars, ghosts>>

(* NoBlocks, or the connection is gone. *)
NodeFails ==
    /\ req.st \in {"fetch", "query"}
    /\ req' = [req EXCEPT !.st = "nodeError"]
    /\ UNCHANGED <<dbVars, ghosts>>

Respond ==
    /\ req.st \in {"answered", "notFound", "nodeError"}
    /\ req' = NoRequest
    /\ rolled' = FALSE /\ seen' = {} /\ known' = {}
    /\ UNCHANGED dbVars

Handler ==
    \/ Receive \/ ReadTxHeight \/ ReadPoint \/ GetBlockByHeight \/ GetUtxoForAddress
    \/ NodeSendsBlock \/ NodeFails \/ Respond

(* The follower works beside the handler. *)
IndexStep ==
    /\ IndexNext
    /\ rolled' = (req.st # "idle" /\ (rolled \/ rolledBack' # rolledBack))
    /\ UNCHANGED <<req, seen, known>>

RpcSpec == RpcInit /\ [][Handler \/ IndexStep]_rpcVars

-----------------------------------------------------------------------------
(* Properties *)

Answered(routes) == req.st = "answered" /\ req.route \in routes

(* The block answered for a transaction holds it.  getTransaction makes    *)
(* sure of it; getTransactionBlock depends on its three reads being of the *)
(* same chain, so rows rolled back in between are excepted.                *)
AnswerHoldsTx ==
    Answered({"tx", "txBlock"}) => req.tx \in TxsOf[req.ask] \/ (req.route = "txBlock" /\ rolled)

(* The height sent with a block is the block's, also when it comes from a  *)
(* PointRef that was read before the block was chosen, and whatever was    *)
(* rolled back in between.                                                 *)
AnswerHeight ==
    Answered({"latest", "hash", "height", "txBlock"}) => req.answer = Number[req.ask]

(* getLatestBlock never answers a block below one that was processed when  *)
(* the request came in, unless rows were rolled back since.                *)
LatestNotBehind ==
    Answered({"latest"}) => rolled \/ \A b \in seen : Number[b] <= req.answer

(* A transaction that was recorded when the request came in is not         *)
(* reported missing because batches are stored between the reads.          *)
NoSpuriousMiss == req.st = "notFound" /\ req.route \in {"tx", "txBlock"} => req.tx \notin known \/ rolled

(* An output that GetUtxoForAddress lists carries the height of the        *)
(* processed block that holds its transaction.                             *)
ListedConfirmed ==
    Answered({"utxo"}) /\ ~rolled =>
        \A e \in req.listed : \E b \in Processed : e[1] \in TxsOf[b] /\ e[2] = Number[b]

-----------------------------------------------------------------------------
(* The invariant behind these properties *)

TxRoutes == {"tx", "txBlock"}

RequestType ==
    [st : {"idle", "point", "tx", "block", "query", "fetch", "answered", "notFound", "nodeError"},
     route : {"latest", "hash", "height", "tx", "txBlock", "utxo"},
     hash : Block \cup {NoHash}, tx : Tx \cup {NoHash}, height : {Absent} \cup Nat,
     point : Block \cup {NoHash}, pointHeight : {Absent} \cup Nat,
     ask : Block \cup {NoHash}, answer : {Absent} \cup Nat, listed : SUBSET (Tx \X Nat)]

RpcTypeOK ==
    /\ req \in RequestType
    /\ rolled \in BOOLEAN
    /\ seen \subseteq Block
    /\ known \subseteq Tx

(* What was there when the request came in is still there. *)
NothingLost ==
    /\ req.st = "idle" => seen = {} /\ known = {}
    /\ ~rolled => seen \subseteq Processed /\ known \subseteq GetTxs(Tx)

(* The parameter of the route is there when the point is read. *)
ParameterGiven ==
    /\ req.st = "query" => req.route = "utxo"
    /\ req.st = "point" => /\ req.route # "utxo"
                           /\ req.route = "hash" => req.hash \in Block
                           /\ req.route = "height" => req.height \in Nat

(* The height that was read for the transaction is that of its block. *)
TxLocated ==
    /\ req.st \in {"tx", "block"} => req.route \in TxRoutes /\ req.tx \in Tx
    /\ req.st \in {"point", "block"} /\ req.route \in TxRoutes =>
          /\ req.tx \in Tx /\ req.height \in Nat
          /\ rolled \/ \E b \in Processed : req.tx \in TxsOf[b] /\ point[b] = req.height
    /\ req.st = "block" /\ req.route = "txBlock" => req.pointHeight = req.height

(* The block asked of the node is the one the answer is about. *)
AskedRight ==
    req.st = "fetch" =>
        /\ req.ask \in Block
        /\ req.route # "utxo"
        /\ req.route # "tx" => req.pointHeight = Number[req.ask]
        /\ req.route \in TxRoutes => rolled \/ req.tx \in TxsOf[req.ask]
        /\ req.route = "latest" => rolled \/ \A b \in seen : Number[b] <= req.pointHeight

(* The inductive invariant of the handlers. *)
RpcInv ==
    /\ IndexInv
    /\ RpcTypeOK
    /\ NothingLost
    /\ ParameterGiven
    /\ TxLocated
    /\ AskedRight
    /\ AnswerHoldsTx
    /\ AnswerHeight
    /\ LatestNotBehind
    /\ NoSpuriousMiss
    /\ ListedConfirmed
=============================================================================
