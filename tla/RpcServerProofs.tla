-------------------------- MODULE RpcServerProofs --------------------------
(***************************************************************************)
(* What the request handlers answer, proved for every block tree and every *)
(* order of the handler's reads and the follower's writes.  The argument:  *)
(* without a rollback the index only grows, so what one read has located   *)
(* stays where it is until the next one; heights are true at every read.   *)
(***************************************************************************)
EXTENDS RpcServer, ChainIndexProofs

(* A step of the index that rolls nothing back leaves processed rows and   *)
(* recorded transactions as they are.                                      *)
LEMMA IndexOnlyGrows ==
    ASSUME IndexInv, IndexNext, rolledBack' = rolledBack
    PROVE  /\ Processed \subseteq Processed'
           /\ \A b \in Processed : point'[b] = point[b]
           /\ \A t \in Tx : tx[t] # Absent => tx'[t] = tx[t]
<1>1. CASE Reopen
    BY <1>1 DEF Reopen, Processed
<1>2. ASSUME NEW blocks \in SUBSET Block, Learn(blocks)
      PROVE  /\ Processed \subseteq Processed'
             /\ \A b \in Processed : point'[b] = point[b]
             /\ tx' = tx
    BY <1>2 DEF Learn, AddPoints, Processed, Absent
<1>3. ASSUME NEW blocks \in SUBSET Block, Process(blocks)
      PROVE  /\ Processed \subseteq Processed'
             /\ \A b \in Processed : point'[b] = point[b]
             /\ tx' = tx
    BY <1>3 DEF Process, SetPointHeights, Pending, Processed, Absent, Unprocessed
<1>4. ASSUME NEW blocks \in SUBSET Block, Record(blocks)
      PROVE  /\ point' = point
             /\ \A t \in Tx : tx[t] # Absent => tx'[t] = tx[t]
    BY <1>4 DEF Record, AddTxsForBlock, TxConflict
<1>5. ASSUME NEW b \in Block, Rollback(Slot[b])
      PROVE  FALSE
  <2>1. PICK c \in Processed : Slot[b] < Slot[c]
      BY <1>5 DEF Rollback
  <2>2. c \in Block /\ point[c] >= 0 /\ c \in MovedRows(Slot[b])
      BY <2>1, SlotAssumption DEF Processed, MovedRows, Absent
  <2>3. rolledBack[c] = Absent /\ rolledBack'[c] = point[c]
      BY <1>5, <2>2 DEF Rollback, RollbackConflict, DbHandleRollback
  <2>. QED BY <2>2, <2>3 DEF Absent
<1>. QED BY <1>1, <1>2, <1>3, <1>4, <1>5 DEF IndexNext, Processed

(* One chain has one block of a height that is not a boundary block: the   *)
(* row that GetPointByHeight gives is the only one.                        *)
LEMMA HeightIsUnique ==
    ASSUME IndexInv, NEW a \in Processed \ Boundary, NEW b \in Processed \ Boundary,
           point[a] = point[b]
    PROVE  a = b
<1>1. a \in Block /\ b \in Block /\ Number[a] = Number[b] /\ Number[a] \in Nat
    BY NumberAssumption DEF IndexInv, HeightTrue, Processed
<1>2. a \in Chain[b] \/ b \in Chain[a]
    BY DEF IndexInv, OneChain
<1>3. Chain[a] = {a} \cup Chain[Parent[a]] /\ Chain[b] = {b} \cup Chain[Parent[b]]
    BY <1>1, TreeAssumption
<1>4. a \notin Chain[Parent[b]] /\ b \notin Chain[Parent[a]]
    BY <1>1, GrowthAssumption
<1>. QED BY <1>2, <1>3, <1>4

(* The row that is found for the height of a transaction holds it. *)
LEMMA RowHoldsTx ==
    ASSUME IndexInv, NEW t \in Tx, NEW b \in Processed, t \in TxsOf[b],
           NEW h \in Nat, point[b] = h
    PROVE  /\ GetPointByHeight(h) # {}
           /\ \A c \in GetPointByHeight(h) : t \in TxsOf[c]
<1>1. b \notin Boundary /\ b \in Block
    BY ByronAssumption DEF Processed
<1>2. b \in GetPointByHeight(h)
    BY <1>1 DEF GetPointByHeight
<1>3. ASSUME NEW c \in GetPointByHeight(h) PROVE c = b
  <2>1. c \in Processed \ Boundary /\ point[c] = point[b]
      BY <1>3 DEF GetPointByHeight, Processed
  <2>. QED BY <1>1, <2>1, HeightIsUnique
<1>. QED BY <1>2, <1>3

(* The height of a row that was found is its block's. *)
LEMMA RowHeight ==
    ASSUME IndexInv, NEW h \in Nat, NEW b \in GetPointByHeight(h)
    PROVE  b \in Block /\ b \in Processed /\ point[b] = h /\ Number[b] = h
BY DEF GetPointByHeight, Processed, IndexInv, HeightTrue

-----------------------------------------------------------------------------
(* Steps *)

(* The follower's steps: what was read stays true unless rows were rolled  *)
(* back, and then nothing more is claimed of it.                           *)
LEMMA IndexStepKeepsRpc ==
    ASSUME RpcInv, IndexStep
    PROVE  RpcInv'
<1>1. IndexInv'
    BY IndexStepKeeps DEF RpcInv, IndexStep
<1>2. req' = req /\ seen' = seen /\ known' = known /\ rolled' \in BOOLEAN
    BY DEF IndexStep, RpcInv, RpcTypeOK
<1>3. RpcTypeOK'
    BY <1>2 DEF RpcInv, RpcTypeOK
<1>4. CASE req.st = "idle"
  <2>1. seen = {} /\ known = {}
      BY <1>4 DEF RpcInv, NothingLost
  <2>2. NothingLost'
      BY <1>2, <2>1 DEF NothingLost
  <2>3. ParameterGiven' /\ TxLocated' /\ AskedRight'
      BY <1>2, <1>4 DEF ParameterGiven, TxLocated, AskedRight
  <2>4. AnswerHoldsTx' /\ AnswerHeight' /\ LatestNotBehind' /\ NoSpuriousMiss' /\ ListedConfirmed'
      BY <1>2, <1>4 DEF AnswerHoldsTx, AnswerHeight, LatestNotBehind, NoSpuriousMiss,
                        ListedConfirmed, Answered
  <2>. QED BY <1>1, <1>3, <2>2, <2>3, <2>4 DEF RpcInv
<1>5. CASE req.st # "idle" /\ rolled' = TRUE
  <2>1. NothingLost'
      BY <1>2, <1>5 DEF NothingLost
  <2>2. ParameterGiven' /\ TxLocated' /\ AskedRight'
      BY <1>2, <1>5 DEF RpcInv, ParameterGiven, TxLocated, AskedRight
  <2>3. AnswerHoldsTx' /\ AnswerHeight' /\ LatestNotBehind' /\ NoSpuriousMiss' /\ ListedConfirmed'
      BY <1>2, <1>5 DEF RpcInv, AnswerHoldsTx, AnswerHeight, LatestNotBehind, NoSpuriousMiss,
                        ListedConfirmed, Answered
  <2>. QED BY <1>1, <1>3, <2>1, <2>2, <2>3 DEF RpcInv
<1>6. CASE req.st # "idle" /\ rolled' = FALSE
  <2>1. rolled = FALSE /\ rolledBack' = rolledBack
      BY <1>6 DEF IndexStep, RpcInv, RpcTypeOK
  <2>2. /\ Processed \subseteq Processed'
        /\ \A b \in Processed : point'[b] = point[b]
        /\ \A t \in Tx : tx[t] # Absent => tx'[t] = tx[t]
      BY <2>1, IndexOnlyGrows DEF IndexStep, RpcInv
  <2>3. NothingLost'
      BY <1>2, <1>6, <2>1, <2>2 DEF RpcInv, NothingLost, GetTxs
  <2>4. ParameterGiven' /\ TxLocated' /\ AskedRight'
      BY <1>2, <1>6, <2>1, <2>2 DEF RpcInv, ParameterGiven, TxLocated, AskedRight
  <2>5. AnswerHoldsTx' /\ AnswerHeight' /\ LatestNotBehind' /\ NoSpuriousMiss'
      BY <1>2, <1>6, <2>1 DEF RpcInv, AnswerHoldsTx, AnswerHeight, LatestNotBehind,
                              NoSpuriousMiss, Answered
  <2>6. ListedConfirmed'
      BY <1>2, <1>6, <2>1, <2>2 DEF RpcInv, ListedConfirmed, Answered
  <2>. QED BY <1>1, <1>3, <2>3, <2>4, <2>5, <2>6 DEF RpcInv
<1>. QED BY <1>2, <1>4, <1>5, <1>6

(* The tables are the same before and after a step of the handler. *)
LEMMA TablesUnchanged ==
    ASSUME IndexInv, UNCHANGED dbVars
    PROVE  IndexInv' /\ Processed' = Processed /\ point' = point /\ tx' = tx
BY IndexStepKeeps DEF dbVars, Processed

(* A request comes in. *)
LEMMA ReceiveKeeps ==
    ASSUME RpcInv, Receive
    PROVE  RpcInv'
<1>1. IndexInv' /\ Processed' = Processed /\ point' = point /\ tx' = tx /\ rolled' = rolled
    BY TablesUnchanged DEF RpcInv, Receive
<1>2. /\ req' \in RequestType
      /\ req'.st \in {"point", "tx", "query"}
      /\ req'.st = "tx" => req'.route \in TxRoutes /\ req'.tx \in Tx
      /\ req'.st = "query" => req'.route = "utxo"
      /\ req'.st = "point" => /\ req'.route \in {"latest", "hash", "height"}
                              /\ req'.route = "hash" => req'.hash \in Block
                              /\ req'.route = "height" => req'.height \in Nat
  <2>. DEFINE Good(r) == /\ r \in RequestType
                         /\ r.st \in {"point", "tx", "query"}
                         /\ r.st = "tx" => r.route \in TxRoutes /\ r.tx \in Tx
                         /\ r.st = "query" => r.route = "utxo"
                         /\ r.st = "point" => /\ r.route \in {"latest", "hash", "height"}
                                              /\ r.route = "hash" => r.hash \in Block
                                              /\ r.route = "height" => r.height \in Nat
  <2>0. NoRequest \in RequestType
      BY DEF NoRequest, RequestType
  <2>1. Good([NoRequest EXCEPT !.st = "point"])
      BY <2>0 DEF NoRequest, RequestType, TxRoutes
  <2>2. \A b \in Block : Good([NoRequest EXCEPT !.st = "point", !.route = "hash", !.hash = b])
      BY <2>0 DEF NoRequest, RequestType, TxRoutes
  <2>3. \A b \in Block : Good([NoRequest EXCEPT !.st = "point", !.route = "height", !.height = Number[b]])
      BY <2>0, NumberAssumption DEF NoRequest, RequestType, TxRoutes
  <2>4. \A t \in Tx : Good([NoRequest EXCEPT !.st = "tx", !.route = "tx", !.tx = t])
      BY <2>0 DEF NoRequest, RequestType, TxRoutes
  <2>5. \A t \in Tx : Good([NoRequest EXCEPT !.st = "tx", !.route = "txBlock", !.tx = t])
      BY <2>0 DEF NoRequest, RequestType, TxRoutes
  <2>6. Good([NoRequest EXCEPT !.st = "query", !.route = "utxo"])
      BY <2>0 DEF NoRequest, RequestType, TxRoutes
  <2>7. Good(req')
    <3>. HIDE DEF Good
    <3>1. req' \in Requests
        BY DEF Receive
    <3>. QED BY <3>1, <2>1, <2>2, <2>3, <2>4, <2>5, <2>6 DEF Requests
  <2>. QED BY <2>7
<1>3. RpcTypeOK'
    BY <1>1, <1>2 DEF RpcInv, RpcTypeOK, Receive, Processed, GetTxs
<1>4. NothingLost'
    BY <1>1, <1>2 DEF NothingLost, Receive, GetTxs
<1>5. ParameterGiven' /\ TxLocated' /\ AskedRight'
  <2>1. ParameterGiven'
      BY <1>2 DEF ParameterGiven
  <2>2. TxLocated'
      BY <1>2 DEF TxLocated, TxRoutes
  <2>3. AskedRight'
      BY <1>2 DEF AskedRight
  <2>. QED BY <2>1, <2>2, <2>3
<1>6. AnswerHoldsTx' /\ AnswerHeight' /\ LatestNotBehind' /\ NoSpuriousMiss' /\ ListedConfirmed'
    BY <1>2 DEF AnswerHoldsTx, AnswerHeight, LatestNotBehind, NoSpuriousMiss, ListedConfirmed, Answered
<1>. QED BY <1>1, <1>3, <1>4, <1>5, <1>6 DEF RpcInv

(* GetBlockNumForTx finds a recorded transaction, at the height of a       *)
(* processed block that holds it.                                          *)
LEMMA ReadTxHeightKeeps ==
    ASSUME RpcInv, ReadTxHeight
    PROVE  RpcInv'
<1>1. /\ IndexInv' /\ Processed' = Processed /\ point' = point /\ tx' = tx
      /\ rolled' = rolled /\ seen' = seen /\ known' = known
    BY TablesUnchanged DEF RpcInv, ReadTxHeight, ghosts
<1>2. req.route \in TxRoutes /\ req.tx \in Tx /\ req \in RequestType /\ req.st = "tx"
    BY DEF RpcInv, RpcTypeOK, TxLocated, ReadTxHeight
<1>3. CASE tx[req.tx] = Absent
  <2>1. req' = [req EXCEPT !.st = "notFound"]
      BY <1>3 DEF ReadTxHeight, GetBlockNumForTx
  <2>2. req' \in RequestType /\ req'.st = "notFound" /\ req'.tx = req.tx /\ req'.route = req.route
      BY <1>2, <2>1 DEF RequestType
  <2>3. RpcTypeOK' /\ NothingLost'
      BY <1>1, <1>2, <2>2 DEF RpcInv, RpcTypeOK, NothingLost, GetTxs
  <2>4. ParameterGiven' /\ TxLocated' /\ AskedRight'
      BY <2>2 DEF ParameterGiven, TxLocated, AskedRight
  <2>5. NoSpuriousMiss'
      BY <1>1, <1>2, <1>3, <2>2 DEF RpcInv, NothingLost, NoSpuriousMiss, GetTxs
  <2>6. AnswerHoldsTx' /\ AnswerHeight' /\ LatestNotBehind' /\ ListedConfirmed'
      BY <2>2 DEF AnswerHoldsTx, AnswerHeight, LatestNotBehind, ListedConfirmed, Answered
  <2>. QED BY <1>1, <2>3, <2>4, <2>5, <2>6 DEF RpcInv
<1>4. CASE tx[req.tx] # Absent
  <2>1. req' = [req EXCEPT !.st = IF req.route = "tx" THEN "block" ELSE "point", !.height = tx[req.tx]]
      BY <1>4 DEF ReadTxHeight, GetBlockNumForTx
  <2>2. tx[req.tx] \in Nat
      BY <1>2, <1>4 DEF RpcInv, IndexInv, DbTypeOK
  <2>3. /\ req' \in RequestType /\ req'.tx = req.tx /\ req'.route = req.route
        /\ req'.height = tx[req.tx]
        /\ req'.st = IF req.route = "tx" THEN "block" ELSE "point"
    <3>1. PICK st \in {"block", "point"} :
              /\ st = IF req.route = "tx" THEN "block" ELSE "point"
              /\ req' = [req EXCEPT !.st = st, !.height = tx[req.tx]]
        BY <2>1
    <3>2. req' \in RequestType
      <4>1. ASSUME NEW n \in Nat
            PROVE  [req EXCEPT !.st = st, !.height = n] \in RequestType
          BY <1>2 DEF RequestType
      <4>. QED BY <2>2, <3>1, <4>1
    <3>3. req'.tx = req.tx /\ req'.route = req.route /\ req'.height = tx[req.tx] /\ req'.st = st
        BY <1>2, <3>1 DEF RequestType
    <3>. QED BY <3>1, <3>2, <3>3
  <2>4. RpcTypeOK' /\ NothingLost'
      BY <1>1, <1>2, <2>3 DEF RpcInv, RpcTypeOK, NothingLost, GetTxs
  <2>5. \E b \in Processed : req.tx \in TxsOf[b] /\ point[b] = tx[req.tx]
      BY <1>2, <1>4 DEF RpcInv, IndexInv, TxBacked
  <2>6. ParameterGiven' /\ TxLocated' /\ AskedRight'
    <3>1. ParameterGiven'
        BY <1>2, <2>3 DEF ParameterGiven, TxRoutes
    <3>2. TxLocated'
        BY <1>1, <1>2, <2>2, <2>3, <2>5 DEF TxLocated
    <3>3. AskedRight'
        BY <2>3 DEF AskedRight
    <3>. QED BY <3>1, <3>2, <3>3
  <2>7. AnswerHoldsTx' /\ AnswerHeight' /\ LatestNotBehind' /\ NoSpuriousMiss' /\ ListedConfirmed'
      BY <2>3 DEF AnswerHoldsTx, AnswerHeight, LatestNotBehind, NoSpuriousMiss, ListedConfirmed, Answered
  <2>. QED BY <1>1, <2>4, <2>6, <2>7 DEF RpcInv
<1>. QED BY <1>3, <1>4

(* A point is read: its stored height is the block's.  getTransactionBlock *)
(* reads again; the other handlers ask the node for the block.             *)
LEMMA ReadPointKeeps ==
    ASSUME RpcInv, ReadPoint
    PROVE  RpcInv'
<1>1. /\ IndexInv' /\ Processed' = Processed /\ point' = point /\ tx' = tx
      /\ rolled' = rolled /\ seen' = seen /\ known' = known
    BY TablesUnchanged DEF RpcInv, ReadPoint, ghosts
<1>2. req \in RequestType /\ req.st = "point"
    BY DEF RpcInv, RpcTypeOK, ReadPoint
<1>3. req.route \in TxRoutes =>
          /\ req.tx \in Tx /\ req.height \in Nat
          /\ rolled \/ \E b \in Processed : req.tx \in TxsOf[b] /\ point[b] = req.height
    BY <1>2 DEF RpcInv, TxLocated
<1>4. req.route \in TxRoutes /\ ~rolled => PointRows # {}
    BY <1>3, RowHoldsTx DEF RpcInv, PointRows, TxRoutes
<1>5. CASE PointRows = {}
  <2>1. req' = [req EXCEPT !.st = "notFound"]
      BY <1>5 DEF ReadPoint
  <2>2. req' \in RequestType /\ req'.st = "notFound" /\ req'.tx = req.tx /\ req'.route = req.route
      BY <1>2, <2>1 DEF RequestType
  <2>3. RpcTypeOK' /\ NothingLost'
      BY <1>1, <1>2, <2>2 DEF RpcInv, RpcTypeOK, NothingLost, GetTxs
  <2>4. ParameterGiven' /\ TxLocated' /\ AskedRight'
      BY <2>2 DEF ParameterGiven, TxLocated, AskedRight
  <2>5. NoSpuriousMiss'
      BY <1>1, <1>4, <1>5, <2>2 DEF NoSpuriousMiss, TxRoutes
  <2>6. AnswerHoldsTx' /\ AnswerHeight' /\ LatestNotBehind' /\ ListedConfirmed'
      BY <2>2 DEF AnswerHoldsTx, AnswerHeight, LatestNotBehind, ListedConfirmed, Answered
  <2>. QED BY <1>1, <2>3, <2>4, <2>5, <2>6 DEF RpcInv
<1>6. CASE PointRows # {}
  <2>1. PICK b \in PointRows :
            req' = [req EXCEPT !.point = b, !.pointHeight = point[b],
                               !.ask = IF req.route = "txBlock" THEN NoHash ELSE b,
                               !.st = IF req.route = "txBlock" THEN "block" ELSE "fetch"]
      BY <1>6 DEF ReadPoint
  <2>2. b \in Block /\ b \in Processed /\ point[b] = Number[b] /\ point[b] \in Nat
    <3>1. b \in Block /\ point[b] >= 0
      <4>1. CASE req.route = "latest"
          BY <4>1 DEF PointRows, GetHighestPoint
      <4>2. CASE req.route = "hash"
          BY <1>2, <4>2 DEF RpcInv, ParameterGiven, PointRows, GetPointByHash
      <4>3. CASE req.route \notin {"latest", "hash"}
        <5>1. req.height \in Nat
            BY <1>2, <1>3, <4>3 DEF RpcInv, ParameterGiven, RequestType, TxRoutes
        <5>. QED BY <4>3, <5>1 DEF PointRows, GetPointByHeight
      <4>. QED BY <4>1, <4>2, <4>3
    <3>. QED BY <3>1, NumberAssumption DEF RpcInv, IndexInv, HeightTrue, Processed
  <2>3. /\ req'.tx = req.tx /\ req'.route = req.route /\ req'.height = req.height
        /\ req'.pointHeight = point[b]
        /\ req'.ask = IF req.route = "txBlock" THEN NoHash ELSE b
        /\ req'.st = IF req.route = "txBlock" THEN "block" ELSE "fetch"
        /\ req' \in RequestType
      BY <1>2, <2>1, <2>2, ZenonT(60) DEF RequestType
  <2>4. RpcTypeOK' /\ NothingLost'
      BY <1>1, <1>2, <2>3 DEF RpcInv, RpcTypeOK, NothingLost, GetTxs
  <2>5. req.route \in TxRoutes => point[b] = req.height
      BY DEF PointRows, GetPointByHeight, TxRoutes
  <2>6. req.route \in TxRoutes /\ ~rolled => req.tx \in TxsOf[b]
      BY <1>3, RowHoldsTx DEF RpcInv, PointRows, TxRoutes
  <2>7. req.route = "latest" /\ ~rolled => \A c \in seen : Number[c] <= point[b]
    <3>. SUFFICES ASSUME req.route = "latest", ~rolled, NEW c \in seen
                  PROVE  Number[c] <= point[b]
        OBVIOUS
    <3>1. c \in Processed /\ c \in Block /\ point[c] = Number[c]
        BY DEF RpcInv, NothingLost, IndexInv, HeightTrue, Processed
    <3>. QED BY <3>1 DEF PointRows, GetHighestPoint
  <2>8. ParameterGiven' /\ TxLocated'
      BY <1>1, <1>2, <1>3, <2>3, <2>5 DEF ParameterGiven, TxLocated, TxRoutes
  <2>9. AskedRight'
      BY <1>1, <1>2, <2>2, <2>3, <2>6, <2>7 DEF RpcInv, ParameterGiven, AskedRight, TxRoutes
  <2>10. AnswerHoldsTx' /\ AnswerHeight' /\ LatestNotBehind' /\ NoSpuriousMiss' /\ ListedConfirmed'
      BY <2>3 DEF AnswerHoldsTx, AnswerHeight, LatestNotBehind, NoSpuriousMiss, ListedConfirmed, Answered
  <2>. QED BY <1>1, <2>4, <2>8, <2>9, <2>10 DEF RpcInv
<1>. QED BY <1>5, <1>6

(* GetBlockByHeight: the row found for the height is the transaction's     *)
(* block, and has the height that an earlier read gave.                    *)
LEMMA GetBlockByHeightKeeps ==
    ASSUME RpcInv, GetBlockByHeight
    PROVE  RpcInv'
<1>1. /\ IndexInv' /\ Processed' = Processed /\ point' = point /\ tx' = tx
      /\ rolled' = rolled /\ seen' = seen /\ known' = known
    BY TablesUnchanged DEF RpcInv, GetBlockByHeight, ghosts
<1>2. req \in RequestType /\ req.st = "block" /\ req.route \in TxRoutes
    BY DEF RpcInv, RpcTypeOK, TxLocated, GetBlockByHeight
<1>3. /\ req.tx \in Tx /\ req.height \in Nat
      /\ rolled \/ \E b \in Processed : req.tx \in TxsOf[b] /\ point[b] = req.height
    BY <1>2 DEF RpcInv, TxLocated
<1>4. ~rolled => GetPointByHeight(req.height) # {}
    BY <1>3, RowHoldsTx DEF RpcInv
<1>5. CASE GetPointByHeight(req.height) = {}
  <2>1. req' = [req EXCEPT !.st = "notFound"]
      BY <1>5 DEF GetBlockByHeight
  <2>2. req' \in RequestType /\ req'.st = "notFound" /\ req'.tx = req.tx /\ req'.route = req.route
      BY <1>2, <2>1 DEF RequestType
  <2>3. RpcTypeOK' /\ NothingLost'
      BY <1>1, <1>2, <2>2 DEF RpcInv, RpcTypeOK, NothingLost, GetTxs
  <2>4. ParameterGiven' /\ TxLocated' /\ AskedRight'
      BY <2>2 DEF ParameterGiven, TxLocated, AskedRight
  <2>5. NoSpuriousMiss'
      BY <1>1, <1>4, <1>5 DEF NoSpuriousMiss
  <2>6. AnswerHoldsTx' /\ AnswerHeight' /\ LatestNotBehind' /\ ListedConfirmed'
      BY <2>2 DEF AnswerHoldsTx, AnswerHeight, LatestNotBehind, ListedConfirmed, Answered
  <2>. QED BY <1>1, <2>3, <2>4, <2>5, <2>6 DEF RpcInv
<1>6. CASE GetPointByHeight(req.height) # {}
  <2>1. PICK b \in GetPointByHeight(req.height) : req' = [req EXCEPT !.ask = b, !.st = "fetch"]
      BY <1>6 DEF GetBlockByHeight
  <2>2. b \in Block /\ Number[b] = req.height
      BY <1>3, RowHeight DEF RpcInv
  <2>3. /\ req'.tx = req.tx /\ req'.route = req.route /\ req'.pointHeight = req.pointHeight
        /\ req'.ask = b /\ req'.st = "fetch" /\ req' \in RequestType
      BY <1>2, <2>1, <2>2 DEF RequestType
  <2>4. RpcTypeOK' /\ NothingLost'
      BY <1>1, <1>2, <2>3 DEF RpcInv, RpcTypeOK, NothingLost, GetTxs
  <2>5. ~rolled => req.tx \in TxsOf[b]
      BY <1>3, RowHoldsTx DEF RpcInv
  <2>6. req.route = "txBlock" => req.pointHeight = req.height
      BY <1>2 DEF RpcInv, TxLocated
  <2>7. AskedRight'
      BY <1>1, <1>2, <2>2, <2>3, <2>5, <2>6 DEF AskedRight, TxRoutes
  <2>8. ParameterGiven' /\ TxLocated'
      BY <2>3 DEF ParameterGiven, TxLocated
  <2>9. AnswerHoldsTx' /\ AnswerHeight' /\ LatestNotBehind' /\ NoSpuriousMiss' /\ ListedConfirmed'
      BY <2>3 DEF AnswerHoldsTx, AnswerHeight, LatestNotBehind, NoSpuriousMiss, ListedConfirmed, Answered
  <2>. QED BY <1>1, <2>4, <2>7, <2>8, <2>9 DEF RpcInv
<1>. QED BY <1>5, <1>6

(* GetUtxoForAddress lists recorded transactions only. *)
LEMMA GetUtxoForAddressKeeps ==
    ASSUME RpcInv, GetUtxoForAddress
    PROVE  RpcInv'
<1>1. /\ IndexInv' /\ Processed' = Processed /\ point' = point /\ tx' = tx
      /\ rolled' = rolled /\ seen' = seen /\ known' = known
    BY TablesUnchanged DEF RpcInv, GetUtxoForAddress, ghosts
<1>2. req \in RequestType /\ req.route = "utxo"
    BY DEF RpcInv, RpcTypeOK, ParameterGiven, GetUtxoForAddress
<1>3. PICK ts \in SUBSET Tx :
          req' = [req EXCEPT !.st = "answered", !.listed = {<<t, tx[t]>> : t \in GetTxs(ts)}]
    BY DEF GetUtxoForAddress
<1>4. \A t \in GetTxs(ts) : t \in Tx /\ tx[t] # Absent /\ tx[t] \in Nat
    BY DEF GetTxs, RpcInv, IndexInv, DbTypeOK
<1>5. {<<t, tx[t]>> : t \in GetTxs(ts)} \in SUBSET (Tx \X Nat)
    BY <1>4
<1>6. /\ req' \in RequestType /\ req'.st = "answered" /\ req'.route = "utxo"
      /\ req'.listed = {<<t, tx[t]>> : t \in GetTxs(ts)}
    BY <1>2, <1>3, <1>5, ZenonT(60) DEF RequestType
<1>7. RpcTypeOK' /\ NothingLost'
    BY <1>1, <1>6 DEF RpcInv, RpcTypeOK, NothingLost, GetTxs
<1>8. ParameterGiven' /\ TxLocated' /\ AskedRight'
    BY <1>6 DEF ParameterGiven, TxLocated, AskedRight
<1>9. AnswerHoldsTx' /\ AnswerHeight' /\ LatestNotBehind' /\ NoSpuriousMiss'
    BY <1>6 DEF AnswerHoldsTx, AnswerHeight, LatestNotBehind, NoSpuriousMiss, Answered
<1>10. ListedConfirmed'
  <2>. SUFFICES ASSUME NEW t \in GetTxs(ts)
                PROVE  \E b \in Processed' : t \in TxsOf[b] /\ tx[t] = Number[b]
      BY <1>6 DEF ListedConfirmed
  <2>1. PICK b \in Processed : t \in TxsOf[b] /\ point[b] = tx[t]
      BY <1>4 DEF RpcInv, IndexInv, TxBacked
  <2>. QED BY <1>1, <2>1 DEF RpcInv, IndexInv, HeightTrue
<1>. QED BY <1>1, <1>7, <1>8, <1>9, <1>10 DEF RpcInv

(* The block comes: the invariant has prepared each answer. *)
LEMMA NodeSendsBlockKeeps ==
    ASSUME RpcInv, NodeSendsBlock
    PROVE  RpcInv'
<1>1. /\ IndexInv' /\ Processed' = Processed /\ point' = point /\ tx' = tx
      /\ rolled' = rolled /\ seen' = seen /\ known' = known
    BY TablesUnchanged DEF RpcInv, NodeSendsBlock, ghosts
<1>2. req \in RequestType /\ req.st = "fetch" /\ req.ask \in Block /\ req.route # "utxo"
    BY DEF RpcInv, RpcTypeOK, AskedRight, NodeSendsBlock
<1>3. CASE req.route = "tx"
  <2>1. req' = [req EXCEPT !.st = IF req.tx \in TxsOf[req.ask] THEN "answered" ELSE "notFound"]
      BY <1>3 DEF NodeSendsBlock
  <2>2. /\ req' \in RequestType /\ req'.tx = req.tx /\ req'.route = "tx" /\ req'.ask = req.ask
        /\ req'.st = IF req.tx \in TxsOf[req.ask] THEN "answered" ELSE "notFound"
      BY <1>2, <1>3, <2>1 DEF RequestType
  <2>3. rolled \/ req.tx \in TxsOf[req.ask]
      BY <1>2, <1>3 DEF RpcInv, AskedRight, TxRoutes
  <2>4. RpcTypeOK' /\ NothingLost'
      BY <1>1, <2>2 DEF RpcInv, RpcTypeOK, NothingLost, GetTxs
  <2>5. ParameterGiven' /\ TxLocated' /\ AskedRight'
      BY <2>2 DEF ParameterGiven, TxLocated, AskedRight
  <2>6. AnswerHoldsTx' /\ AnswerHeight' /\ LatestNotBehind' /\ ListedConfirmed'
      BY <2>2 DEF AnswerHoldsTx, AnswerHeight, LatestNotBehind, ListedConfirmed, Answered
  <2>7. NoSpuriousMiss'
      BY <1>1, <2>2, <2>3 DEF NoSpuriousMiss
  <2>. QED BY <1>1, <2>4, <2>5, <2>6, <2>7 DEF RpcInv
<1>4. CASE req.route # "tx"
  <2>1. req.pointHeight = Number[req.ask] /\ Number[req.ask] \in Nat
      BY <1>2, <1>4, NumberAssumption DEF RpcInv, AskedRight
  <2>2. BlockResponseHeight(req.ask, req.pointHeight) = Number[req.ask]
      BY <2>1 DEF BlockResponseHeight, BlockNumber
  <2>3. req' = [req EXCEPT !.st = "answered", !.answer = Number[req.ask]]
      BY <1>4, <2>2 DEF NodeSendsBlock
  <2>4. /\ req' \in RequestType /\ req'.tx = req.tx /\ req'.route = req.route /\ req'.ask = req.ask
        /\ req'.st = "answered" /\ req'.answer = Number[req.ask]
      BY <1>2, <2>1, <2>3 DEF RequestType
  <2>5. RpcTypeOK' /\ NothingLost'
      BY <1>1, <2>4 DEF RpcInv, RpcTypeOK, NothingLost, GetTxs
  <2>6. ParameterGiven' /\ TxLocated' /\ AskedRight'
      BY <2>4 DEF ParameterGiven, TxLocated, AskedRight
  <2>7. AnswerHoldsTx' /\ LatestNotBehind'
      BY <1>1, <1>2, <1>4, <2>1, <2>4 DEF RpcInv, AskedRight, AnswerHoldsTx, LatestNotBehind, Answered, TxRoutes
  <2>8. AnswerHeight' /\ NoSpuriousMiss' /\ ListedConfirmed'
      BY <1>2, <2>4 DEF AnswerHeight, NoSpuriousMiss, ListedConfirmed, Answered
  <2>. QED BY <1>1, <2>5, <2>6, <2>7, <2>8 DEF RpcInv
<1>. QED BY <1>3, <1>4

(* The node refuses, or the request is over. *)
LEMMA EndsKeep ==
    ASSUME RpcInv, NodeFails \/ Respond
    PROVE  RpcInv'
<1>1. IndexInv' /\ Processed' = Processed /\ tx' = tx
    BY TablesUnchanged DEF RpcInv, NodeFails, Respond
<1>2. req' \in RequestType /\ req'.st \in {"nodeError", "idle"}
    BY DEF RpcInv, RpcTypeOK, NodeFails, Respond, RequestType, NoRequest
<1>3. RpcTypeOK' /\ NothingLost'
  <2>1. CASE NodeFails
    <3>1. req'.st = "nodeError" /\ rolled' = rolled /\ seen' = seen /\ known' = known
        BY <2>1 DEF RpcInv, RpcTypeOK, RequestType, NodeFails, ghosts
    <3>. QED BY <1>1, <1>2, <3>1 DEF RpcInv, RpcTypeOK, NothingLost, GetTxs
  <2>2. CASE Respond
    <3>1. rolled' = FALSE /\ seen' = {} /\ known' = {}
        BY <2>2 DEF Respond
    <3>. QED BY <1>1, <1>2, <3>1 DEF RpcTypeOK, NothingLost
  <2>. QED BY <2>1, <2>2
<1>4. ParameterGiven' /\ TxLocated' /\ AskedRight'
    BY <1>2 DEF ParameterGiven, TxLocated, AskedRight
<1>5. AnswerHoldsTx' /\ AnswerHeight' /\ LatestNotBehind' /\ NoSpuriousMiss' /\ ListedConfirmed'
    BY <1>2 DEF AnswerHoldsTx, AnswerHeight, LatestNotBehind, NoSpuriousMiss, ListedConfirmed, Answered
<1>. QED BY <1>1, <1>3, <1>4, <1>5 DEF RpcInv

-----------------------------------------------------------------------------
(* Theorems *)

(* The inductive invariant of the handlers and the index together. *)
THEOREM RpcInvHolds == RpcSpec => []RpcInv
<1>1. RpcInit => RpcInv
  <2>. SUFFICES ASSUME RpcInit PROVE RpcInv
      OBVIOUS
  <2>1. IndexInv
      BY EmptyIndex DEF RpcInit
  <2>2. req \in RequestType /\ req.st = "idle"
      BY DEF RpcInit, NoRequest, RequestType
  <2>3. RpcTypeOK /\ NothingLost
      BY <2>2 DEF RpcInit, RpcTypeOK, NothingLost
  <2>4. ParameterGiven /\ TxLocated /\ AskedRight
      BY <2>2 DEF ParameterGiven, TxLocated, AskedRight
  <2>5. AnswerHoldsTx /\ AnswerHeight /\ LatestNotBehind /\ NoSpuriousMiss /\ ListedConfirmed
      BY <2>2 DEF AnswerHoldsTx, AnswerHeight, LatestNotBehind, NoSpuriousMiss, ListedConfirmed, Answered
  <2>. QED BY <2>1, <2>3, <2>4, <2>5 DEF RpcInv
<1>2. RpcInv /\ [Handler \/ IndexStep]_rpcVars => RpcInv'
  <2>. SUFFICES ASSUME RpcInv, [Handler \/ IndexStep]_rpcVars PROVE RpcInv'
      OBVIOUS
  <2>1. CASE UNCHANGED rpcVars
    <3>1. IndexInv' /\ Processed' = Processed /\ point' = point /\ tx' = tx
        BY <2>1, TablesUnchanged DEF RpcInv, rpcVars
    <3>2. req' = req /\ rolled' = rolled /\ seen' = seen /\ known' = known
        BY <2>1 DEF rpcVars, ghosts
    <3>3. RpcTypeOK' /\ NothingLost' /\ ParameterGiven' /\ TxLocated' /\ AskedRight'
        BY <3>1, <3>2 DEF RpcInv, RpcTypeOK, NothingLost, ParameterGiven, TxLocated, AskedRight, GetTxs
    <3>4. AnswerHoldsTx' /\ AnswerHeight' /\ LatestNotBehind' /\ NoSpuriousMiss' /\ ListedConfirmed'
        BY <3>1, <3>2 DEF RpcInv, AnswerHoldsTx, AnswerHeight, LatestNotBehind, NoSpuriousMiss,
                          ListedConfirmed, Answered
    <3>. QED BY <3>1, <3>3, <3>4 DEF RpcInv
  <2>2. CASE IndexStep
      BY <2>2, IndexStepKeepsRpc
  <2>3. CASE Handler
      BY <2>3, ReceiveKeeps, ReadTxHeightKeeps, ReadPointKeeps, GetBlockByHeightKeeps,
         GetUtxoForAddressKeeps, NodeSendsBlockKeeps, EndsKeep DEF Handler
  <2>. QED BY <2>1, <2>2, <2>3
<1>. QED BY <1>1, <1>2, PTL DEF RpcSpec

(* getTransaction answers with a transaction of the block it fetched, and  *)
(* getTransactionBlock with the block of the transaction, unless rows were *)
(* rolled back between its reads.                                          *)
THEOREM TxAnswersAreRight == RpcSpec => []AnswerHoldsTx
<1>1. RpcInv => AnswerHoldsTx
    BY DEF RpcInv
<1>. QED BY <1>1, RpcInvHolds, PTL

(* Every answered block carries its own height, also when rows were rolled *)
(* back between the reads.                                                 *)
THEOREM HeightsAnsweredAreTrue == RpcSpec => []AnswerHeight
<1>1. RpcInv => AnswerHeight
    BY DEF RpcInv
<1>. QED BY <1>1, RpcInvHolds, PTL

(* Batches stored between the reads of a handler make no recorded          *)
(* transaction disappear from its answer.                                  *)
THEOREM RecordedIsFound == RpcSpec => []NoSpuriousMiss
<1>1. RpcInv => NoSpuriousMiss
    BY DEF RpcInv
<1>. QED BY <1>1, RpcInvHolds, PTL

(* getLatestBlock: whatever is stored between the read of the highest      *)
(* point and the answer of the node, the block answered is not below one   *)
(* that was processed when the request came in, unless rows were rolled    *)
(* back since.                                                             *)
THEOREM LatestIsNotBehind == RpcSpec => []LatestNotBehind
<1>1. RpcInv => LatestNotBehind
    BY DEF RpcInv
<1>. QED BY <1>1, RpcInvHolds, PTL

(* GetUtxoForAddress: without a rollback every output that is listed has   *)
(* the height of a processed block that holds its transaction.             *)
THEOREM ListedIsConfirmed == RpcSpec => []ListedConfirmed
<1>1. RpcInv => ListedConfirmed
    BY DEF RpcInv
<1>. QED BY <1>1, RpcInvHolds, PTL
=============================================================================
