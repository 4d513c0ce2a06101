------------------------------ MODULE TxServer ------------------------------
(***************************************************************************)
(* The handlers of the RPC server that build, sign and broadcast           *)
(* transactions (http.go), and the runner of cardano-cli they use          *)
(* (cmd.go).  Each command gets its files through pipes: a goroutine       *)
(* writes each one, and the child opens /dev/fd/N for the number N that    *)
(* the descriptor pool gave out.  cardano-cli, the node and the operating  *)
(* system are external.  The last step is the answer as the RPC client     *)
(* (rpcclient.go) sees it.                                                 *)
(***************************************************************************)
EXTENDS Naturals, Sequences, FiniteSets, Functions

CONSTANTS
    Handler,       \* goroutines that serve requests
    Tx, Key,       \* transactions and signing keys
    Memo,          \* memos: the width in bytes of each of their runes
    Nothing,       \* the zero value of a field; no file
    ChunkSize,     \* MaxAuxDataStringSize
    MaxDescriptors,\* descriptors that the process may hold for pipes
    MaxRequests    \* requests: a bound

ASSUME TxServerAssumption ==
    /\ ChunkSize \in Nat \ {0} /\ MaxDescriptors \in Nat /\ MaxRequests \in Nat
    /\ Nothing \notin Tx \cup Key

(* A rune takes one to four bytes. *)
ASSUME MemoAssumption == Memo \subseteq Seq(1..4)

VARIABLES
    hpc,       \* each handler: "idle", "pipes", "wait" or "exited"
    req,       \* the request it serves
    cmd,       \* the command it runs
    extra,     \* cmd.ExtraFiles: the contents behind the read ends
    fds,       \* the numbers that the pool gave the files
    writing,   \* files whose goroutine is still writing
    outcome,   \* how the command ended
    stray,     \* writers of commands that are over
    open,      \* descriptors that the process holds for pipes
    accepted,  \* transactions the node has accepted
    answer,    \* the last answer of each handler, as the client sees it
    requests,  \* requests so far
    confirmed  \* history: broadcasts answered with success, by transaction

runnerVars == <<extra, fds, writing, stray, open>>
txVars == <<hpc, req, cmd, runnerVars, outcome, accepted, answer, requests, confirmed>>

-----------------------------------------------------------------------------
(* Memos *)

(* Faulty variant: a chunk begins with the rune that ended the last one. *)
ChunkStringOverlapping(memo) ==
    [i \in 1..((Len(memo) + ChunkSize - 1) \div ChunkSize) |->
        SubSeq(memo, IF i = 1 THEN 1 ELSE (i - 1) * ChunkSize,
                     IF i * ChunkSize > Len(memo) THEN Len(memo) ELSE i * ChunkSize)]

(* Chunks of ChunkSize runes. *)
ChunkString(memo) ==
    [i \in 1..((Len(memo) + ChunkSize - 1) \div ChunkSize) |->
        SubSeq(memo, (i - 1) * ChunkSize + 1,
                     IF i * ChunkSize > Len(memo) THEN Len(memo) ELSE i * ChunkSize)]

(* The node takes metadata strings of ChunkSize bytes. *)
Bytes(chunk) ==
    LET bytes[i \in 0..Len(chunk)] == IF i = 0 THEN 0 ELSE bytes[i - 1] + chunk[i]
    IN  bytes[Len(chunk)]
Fits(chunks) == \A i \in DOMAIN chunks : Bytes(chunks[i]) <= ChunkSize

(* txResponse puts the chunks together again. *)
MemoOf(chunks) ==
    LET join[i \in 0..Len(chunks)] == IF i = 0 THEN <<>> ELSE join[i - 1] \o chunks[i]
    IN  join[Len(chunks)]

-----------------------------------------------------------------------------
(* Requests *)

Idle == [op |-> "none", tx |-> Nothing, key |-> Nothing, memo |-> <<>>, typed |-> TRUE]
NoOutcome == [status |-> "none", read |-> <<>>]
NoAnswer == [op |-> "none", result |-> "none", read |-> <<>>, req |-> Idle]

TxInit ==
    /\ hpc = [h \in Handler |-> "idle"] /\ req = [h \in Handler |-> Idle]
    /\ cmd = [h \in Handler |-> "none"]
    /\ extra = [h \in Handler |-> <<>>] /\ fds = [h \in Handler |-> <<>>]
    /\ writing = [h \in Handler |-> {}] /\ outcome = [h \in Handler |-> NoOutcome]
    /\ stray = 0 /\ open = 0
    /\ accepted = {} /\ answer = [h \in Handler |-> NoAnswer]
    /\ requests = 0 /\ confirmed = [t \in Tx |-> 0]

FirstCommand(op) == IF op = "broadcast" THEN "submit" ELSE op

(* With another content type the handler sends 400 and goes on with the    *)
(* zero request.                                                           *)
Unmarshal(r) == IF r.typed THEN r ELSE [Idle EXCEPT !.op = r.op, !.typed = FALSE]

TxRequests ==
    [op : {"build"}, tx : Tx, key : {Nothing}, memo : Memo, typed : BOOLEAN]
      \cup [op : {"sign"}, tx : Tx, key : Key, memo : {<<>>}, typed : BOOLEAN]
      \cup [op : {"broadcast"}, tx : Tx, key : {Nothing}, memo : {<<>>}, typed : BOOLEAN]

Receive(h, r) ==
    /\ hpc[h] = "idle"
    /\ requests < MaxRequests
    /\ requests' = requests + 1
    /\ req' = [req EXCEPT ![h] = Unmarshal(r)]
    /\ cmd' = [cmd EXCEPT ![h] = FirstCommand(r.op)]
    /\ hpc' = [hpc EXCEPT ![h] = "pipes"]
    /\ answer' = [answer EXCEPT ![h] = NoAnswer]
    /\ UNCHANGED <<runnerVars, outcome, accepted, confirmed>>

(* What the client makes of a response: any status but 2xx is an error,    *)
(* with the body as its details, or ErrRpcFailed when it is no JSON.       *)
Answer(h, result, read) ==
    /\ answer' = [answer EXCEPT ![h] = [op |-> req[h].op, result |-> result, read |-> read, req |-> req[h]]]
    /\ hpc' = [hpc EXCEPT ![h] = "idle"]
    /\ cmd' = [cmd EXCEPT ![h] = "none"]
    /\ req' = [req EXCEPT ![h] = Idle]

(* A body that cannot be parsed (the framework answers), or a private key  *)
(* that is not hexadecimal.                                                *)
Malformed(h, result) ==
    /\ hpc[h] = "pipes" /\ extra[h] = <<>>
    /\ cmd[h] # "txid" /\ req[h].typed
    /\ result = "rpcFailed" \/ req[h].op = "sign"
    /\ Answer(h, result, <<>>)
    /\ UNCHANGED <<runnerVars, outcome, accepted, requests, confirmed>>

-----------------------------------------------------------------------------
(* runCommandWithVirtualFiles *)

(* The contents of the files of the command. *)
Files(h) ==
    CASE cmd[h] = "build" -> IF req[h].memo = <<>> THEN <<>> ELSE <<req[h].memo>>
      [] cmd[h] = "sign" -> <<req[h].tx, req[h].key>>
      [] OTHER -> <<req[h].tx>>

(* Faulty variant: one pool for all commands. *)
PoolGetShared(h) == 3 + Cardinality(UNION {{g} \X DOMAIN extra[g] : g \in Handler})

(* A new pool counts up from 3; at most two of its ten are used. *)
PoolGet(h) == 3 + Len(extra[h])

MorePipes(h) == hpc[h] = "pipes" /\ Len(extra[h]) < Len(Files(h))

CreatePipe(h) ==
    /\ MorePipes(h)
    /\ open + 2 <= MaxDescriptors
    /\ open' = open + 2
    /\ extra' = [extra EXCEPT ![h] = Append(@, Files(h)[Len(@) + 1])]
    /\ fds' = [fds EXCEPT ![h] = Append(@, PoolGet(h))]
    /\ writing' = [writing EXCEPT ![h] = @ \cup {Len(extra[h]) + 1}]
    /\ UNCHANGED <<hpc, req, cmd, outcome, stray, accepted, answer, requests, confirmed>>

Exits(h, status, read) ==
    /\ hpc' = [hpc EXCEPT ![h] = "exited"]
    /\ outcome' = [outcome EXCEPT ![h] = [status |-> status, read |-> read]]
    /\ UNCHANGED <<req, cmd, runnerVars, answer, requests, confirmed>>

(* os.Pipe finds no descriptor left. *)
PipeFails(h) ==
    /\ MorePipes(h)
    /\ open + 2 > MaxDescriptors
    /\ Exits(h, "failed", <<>>)
    /\ UNCHANGED accepted

StartFails(h) ==
    /\ hpc[h] = "pipes" /\ ~MorePipes(h)
    /\ Exits(h, "failed", <<>>)
    /\ UNCHANGED accepted

StartCommand(h) ==
    /\ hpc[h] = "pipes" /\ ~MorePipes(h)
    /\ hpc' = [hpc EXCEPT ![h] = "wait"]
    /\ UNCHANGED <<req, cmd, runnerVars, outcome, accepted, answer, requests, confirmed>>

(* Faulty variant: the write end stays open. *)
WriterDoneOpen(h, i) ==
    /\ FALSE
    /\ UNCHANGED txVars

(* A file is in the pipe, or read by the child; the write end is closed. *)
WriterDone(h, i) ==
    /\ i \in writing[h]
    /\ writing' = [writing EXCEPT ![h] = @ \ {i}]
    /\ open' = open - 1
    /\ UNCHANGED <<hpc, req, cmd, extra, fds, outcome, stray, accepted, answer, requests, confirmed>>

(* After the command the read end is closed, so a writer gets an error.    *)
StrayWriterDone ==
    /\ stray > 0
    /\ stray' = stray - 1
    /\ open' = open - 1
    /\ UNCHANGED <<hpc, req, cmd, extra, fds, writing, outcome, accepted, answer, requests, confirmed>>

(* What the child finds behind the numbers on its command line. *)
ReadAt(h, fd) == IF fd - 2 \in DOMAIN extra[h] THEN extra[h][fd - 2] ELSE Nothing
Read(h) == [i \in DOMAIN fds[h] |-> ReadAt(h, fds[h][i])]

(* A child that succeeds has read its files to the end.  The node accepts  *)
(* a transaction once.  A warning on the error output is in the result.    *)
ChildSucceeds(h, status) ==
    /\ hpc[h] = "wait" /\ writing[h] = {}
    /\ req[h].tx # Nothing
    /\ \A i \in DOMAIN Read(h) : Read(h)[i] # Nothing
    /\ cmd[h] = "build" => Fits(ChunkString(req[h].memo))
    /\ cmd[h] = "submit" => Read(h)[1] \notin accepted
    /\ accepted' = IF cmd[h] = "submit" THEN accepted \cup {Read(h)[1]} ELSE accepted
    /\ Exits(h, status, Read(h))

(* A child may fail at any point, after the node took the transaction too. *)
ChildFails(h) ==
    /\ hpc[h] = "wait"
    /\ Exits(h, "failed", <<>>)
    /\ \/ UNCHANGED accepted
       \/ /\ cmd[h] = "submit" /\ writing[h] = {}
          /\ Read(h)[1] \in Tx
          /\ accepted' = accepted \cup {Read(h)[1]}

-----------------------------------------------------------------------------
(* The rest of the handler *)

(* Faulty variant: the read ends are not closed. *)
CloseFilesNot(h) ==
    /\ stray' = stray + Cardinality(writing[h])
    /\ UNCHANGED open

(* The deferred calls: the read ends are closed. *)
CloseFiles(h) ==
    /\ stray' = stray + Cardinality(writing[h])
    /\ open' = open - Len(extra[h])

Clear(h) ==
    /\ CloseFiles(h)
    /\ extra' = [extra EXCEPT ![h] = <<>>] /\ fds' = [fds EXCEPT ![h] = <<>>]
    /\ writing' = [writing EXCEPT ![h] = {}]
    /\ outcome' = [outcome EXCEPT ![h] = NoOutcome]
    /\ UNCHANGED <<accepted, requests>>

(* Faulty variant: the error of the command is not looked at. *)
SucceededOrNot(h) == outcome[h].status # "warned"

(* submit must print its one line and nothing else. *)
Succeeded(h) ==
    outcome[h].status = "ok" \/ (outcome[h].status = "warned" /\ cmd[h] # "submit")

(* 500, or 400 when the output is not understood. *)
CommandFails(h) ==
    /\ hpc[h] = "exited"
    /\ ~Succeeded(h) \/ cmd[h] = "build"
    /\ Clear(h)
    /\ Answer(h, "rpcError", <<>>)
    /\ UNCHANGED confirmed

(* build and broadcast go on with the hash of the transaction; a warning   *)
(* leaves nothing of build's output that reads as a transaction.           *)
NextCommand(h) ==
    /\ hpc[h] = "exited" /\ Succeeded(h)
    /\ cmd[h] \in {"build", "submit"}
    /\ Clear(h)
    /\ cmd' = [cmd EXCEPT ![h] = "txid"]
    /\ hpc' = [hpc EXCEPT ![h] = "pipes"]
    /\ req' = IF outcome[h].status = "warned" THEN [req EXCEPT ![h].tx = Nothing] ELSE req
    /\ UNCHANGED <<answer, confirmed>>

(* What the handler finds in the output: with a warning there is no hash,  *)
(* and a signed transaction only if the warning comes last.                *)
NoResult == <<Nothing>>
Results(h) ==
    (IF outcome[h].status = "ok" \/ cmd[h] = "sign" THEN {outcome[h].read} ELSE {})
      \cup (IF outcome[h].status = "ok" THEN {} ELSE {NoResult})

(* The status is 200, except where unmarshalJson has set 400 and the       *)
(* handler does not set it again.  After build the fee may be missing.     *)
LastCommand(h) ==
    /\ hpc[h] = "exited" /\ Succeeded(h)
    /\ cmd[h] \in {"sign", "txid"}
    /\ Clear(h)
    /\ \/ /\ req[h].typed \/ req[h].op = "broadcast"
          /\ \E result \in Results(h) : Answer(h, "ok", result)
          /\ confirmed' = IF req[h].op = "broadcast" THEN [confirmed EXCEPT ![req[h].tx] = @ + 1] ELSE confirmed
       \/ /\ req[h].op = "build"
          /\ Answer(h, "rpcError", <<>>)
          /\ UNCHANGED confirmed

Runner(h) ==
    \/ CreatePipe(h) \/ PipeFails(h) \/ StartCommand(h)
    \/ \E i \in 1..2 : WriterDone(h, i)

Child(h) == (\E status \in {"ok", "warned"} : ChildSucceeds(h, status)) \/ ChildFails(h)
Handles(h) == CommandFails(h) \/ NextCommand(h) \/ LastCommand(h)

TxNext ==
    \/ \E h \in Handler : \/ \E r \in TxRequests : Receive(h, r)
                          \/ \E result \in {"rpcError", "rpcFailed"} : Malformed(h, result)
                          \/ Runner(h) \/ StartFails(h) \/ Child(h) \/ Handles(h)
    \/ StrayWriterDone

(* Nothing is assumed of the requests.  Goroutines are scheduled, and      *)
(* cardano-cli ends when it has its input: a child that may succeed does   *)
(* not wait for ever.                                                      *)
TxFairness ==
    /\ \A h \in Handler :
          /\ WF_txVars(Runner(h)) /\ WF_txVars(Handles(h))
          /\ WF_txVars(hpc[h] = "wait" /\ writing[h] = {} /\ Child(h))
    /\ WF_txVars(StrayWriterDone)

TxSpec == TxInit /\ [][TxNext]_txVars /\ TxFairness

-----------------------------------------------------------------------------
(* Properties *)

(* A broadcast that was answered with success was accepted by the node,    *)
(* and a hash in the answer is that of the transaction that was sent.      *)
OkMeansAccepted ==
    \A h \in Handler : answer[h].op = "broadcast" /\ answer[h].result = "ok" =>
        /\ answer[h].req.tx \in accepted
        /\ answer[h].read \in {<<answer[h].req.tx>>, NoResult}

(* Of all the broadcasts of a transaction, retries and concurrent ones     *)
(* included, at most one is answered with success.                         *)
ConfirmedOnce == \A t \in Tx : confirmed[t] <= 1

(* What is signed is the transaction of the request, with its key,         *)
(* whatever other commands run at the same time.                           *)
SignsOwn ==
    \A h \in Handler : answer[h].op = "sign" /\ answer[h].result = "ok" =>
        answer[h].read \in {<<answer[h].req.tx, answer[h].req.key>>, NoResult}

(* When no command runs and every writer has ended, no descriptor is left  *)
(* open, however the commands ended.                                       *)
DescriptorsReturned ==
    (\A h \in Handler : extra[h] = <<>>) /\ stray = 0 => open = 0

(* The memo of a transaction is read back as it was given, and one of      *)
(* single-byte runes is never refused for the size of its chunks.          *)
MemoKept ==
    \A h \in Handler : LET chunks == ChunkString(req[h].memo) IN
        /\ MemoOf(chunks) = req[h].memo
        /\ (\A i \in DOMAIN req[h].memo : req[h].memo[i] = 1) => Fits(chunks)

(* Every request is answered. *)
RequestAnswered == \A h \in Handler : hpc[h] # "idle" ~> hpc[h] = "idle"
=============================================================================
