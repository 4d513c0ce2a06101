--------------------------- MODULE TxServerProofs ---------------------------
(***************************************************************************)
(* Proofs about the transaction handlers: whatever number of handlers run  *)
(* commands at the same time, and however these fail, a signature is made  *)
(* over the request's own files, and success is reported for a broadcast   *)
(* only if the node took the transaction, and once; the descriptors are    *)
(* all given back, and a memo of any length is read back as it was given.  *)
(***************************************************************************)
EXTENDS TxServer, FiniteSetTheorems, SequenceTheorems, TLAPS

-----------------------------------------------------------------------------
(* The inductive invariant *)

Commands == {"none", "build", "sign", "submit", "txid"}
Ops == {"none", "build", "sign", "broadcast"}
Content == Tx \cup Key \cup Memo \cup {Nothing, <<>>}

RequestType ==
    [op : Ops, tx : Tx \cup {Nothing}, key : Key \cup {Nothing}, memo : Memo \cup {<<>>}, typed : BOOLEAN]

OutcomeType == [status : {"none", "ok", "warned", "failed"}, read : Seq(Content)]

AnswerType ==
    [op : Ops, result : {"none", "ok", "rpcError", "rpcFailed"}, read : Seq(Content), req : RequestType]

TxTypeOK ==
    /\ hpc \in [Handler -> {"idle", "pipes", "wait", "exited"}]
    /\ req \in [Handler -> RequestType] /\ cmd \in [Handler -> Commands]
    /\ extra \in [Handler -> Seq(Content)] /\ fds \in [Handler -> Seq(Nat)]
    /\ outcome \in [Handler -> OutcomeType] /\ answer \in [Handler -> AnswerType]
    /\ accepted \subseteq Tx /\ confirmed \in [Tx -> Nat]

(* The pipes made so far hold the command's files in their order, and the  *)
(* number from the pool is the one that the child will have.               *)
PipesInOrder(h) ==
    /\ Len(fds[h]) = Len(extra[h]) /\ Len(extra[h]) <= Len(Files(h))
    /\ \A i \in 1..Len(extra[h]) : extra[h][i] = Files(h)[i] /\ fds[h][i] = i + 2
    /\ hpc[h] = "idle" => extra[h] = <<>> /\ fds[h] = <<>>
    /\ hpc[h] = "wait" => Len(extra[h]) = Len(Files(h))

(* The command belongs to the request, and a broadcast asks for the hash   *)
(* only of what was accepted.                                              *)
CommandOfRequest(h) ==
    /\ cmd[h] \in {"build", "sign"} => req[h].op = cmd[h]
    /\ cmd[h] = "submit" => req[h].op = "broadcast"
    /\ cmd[h] = "txid" => req[h].op \in {"build", "broadcast"}
    /\ cmd[h] = "txid" /\ req[h].op = "broadcast" => req[h].tx \in accepted

HasSucceeded(h) == hpc[h] = "exited" /\ outcome[h].status \in {"ok", "warned"}

(* A command that ended well has read the command's files, and submit has  *)
(* brought the transaction to the node.                                    *)
EndedWell(h) ==
    HasSucceeded(h) =>
        /\ outcome[h].read = Files(h)
        /\ cmd[h] = "submit" => req[h].tx \in accepted

AnswerRight(h) ==
    answer[h].result = "ok" =>
        /\ answer[h].op = "sign" => answer[h].read \in {<<answer[h].req.tx, answer[h].req.key>>, NoResult}
        /\ answer[h].op = "broadcast" =>
              /\ answer[h].req.tx \in accepted
              /\ answer[h].read \in {<<answer[h].req.tx>>, NoResult}

Local(h) == PipesInOrder(h) /\ CommandOfRequest(h) /\ EndedWell(h) /\ AnswerRight(h)

(* The handler may still report success for its broadcast. *)
Winner(h) ==
    /\ req[h].op = "broadcast"
    /\ cmd[h] = "txid" \/ (cmd[h] = "submit" /\ HasSucceeded(h))

(* A transaction has one winner, or one reported success, and then the     *)
(* node has it.                                                            *)
OneWinner ==
    /\ \A h \in Handler : Winner(h) => req[h].tx \in accepted /\ confirmed[req[h].tx] = 0
    /\ \A g, h \in Handler : Winner(g) /\ Winner(h) /\ req[g].tx = req[h].tx => g = h
    /\ \A t \in Tx : confirmed[t] = 0 \/ (confirmed[t] = 1 /\ t \in accepted)

TxInv == TxTypeOK /\ (\A h \in Handler : Local(h)) /\ OneWinner

-----------------------------------------------------------------------------
(* A step of one handler *)

Same(g) ==
    /\ hpc'[g] = hpc[g] /\ req'[g] = req[g] /\ cmd'[g] = cmd[g]
    /\ extra'[g] = extra[g] /\ fds'[g] = fds[g]
    /\ outcome'[g] = outcome[g] /\ answer'[g] = answer[g]

(* What a handler knows stays true while another one makes a step, as the  *)
(* node never forgets a transaction.                                       *)
LEMMA OthersKeep ==
    ASSUME NEW h \in Handler, TxInv, accepted \subseteq accepted', Local(h)',
           \A g \in Handler \ {h} : Same(g)
    PROVE  \A g \in Handler : Local(g)'
<1>. SUFFICES ASSUME NEW g \in Handler \ {h}
              PROVE  Local(g)'
    OBVIOUS
<1>1. Local(g) /\ Same(g)
    BY DEF TxInv
<1>2. Files(g)' = Files(g)
    BY <1>1 DEF Same, Files
<1>3. PipesInOrder(g)'
    BY <1>1, <1>2 DEF Same, Local, PipesInOrder
<1>4. CommandOfRequest(g)'
    BY <1>1 DEF Same, Local, CommandOfRequest
<1>5. EndedWell(g)'
    BY <1>1, <1>2 DEF Same, Local, EndedWell, HasSucceeded
<1>6. AnswerRight(g)'
    BY <1>1 DEF Same, Local, AnswerRight, NoResult
<1>. QED BY <1>3, <1>4, <1>5, <1>6 DEF Local

(* A step that neither makes a winner nor reports a success.               *)
LEMMA WinnersKept ==
    ASSUME NEW h \in Handler, TxInv, accepted \subseteq accepted', confirmed' = confirmed,
           \A g \in Handler \ {h} : Same(g),
           Winner(h)' => Winner(h) /\ req'[h].tx = req[h].tx
    PROVE  OneWinner'
<1>1. \A g \in Handler : Winner(g)' => Winner(g) /\ req'[g].tx = req[g].tx
    BY DEF Same, Winner, HasSucceeded
<1>2. \A g \in Handler : Winner(g)' => req'[g].tx \in accepted' /\ confirmed'[req'[g].tx] = 0
    BY <1>1 DEF TxInv, OneWinner
<1>3. \A f, g \in Handler : Winner(f)' /\ Winner(g)' /\ req'[f].tx = req'[g].tx => f = g
    BY <1>1 DEF TxInv, OneWinner
<1>4. \A t \in Tx : confirmed'[t] = 0 \/ (confirmed'[t] = 1 /\ t \in accepted')
    BY DEF TxInv, OneWinner
<1>. QED BY <1>2, <1>3, <1>4 DEF OneWinner

(* What the command of a handler reads. *)
LEMMA FilesAre ==
    ASSUME NEW h \in Handler, TxTypeOK
    PROVE  /\ Files(h) \in Seq(Content) /\ Len(Files(h)) \in 0..2
           /\ cmd[h] = "sign" => Files(h) = <<req[h].tx, req[h].key>>
           /\ cmd[h] \in {"submit", "txid"} => Files(h) = <<req[h].tx>>
<1>1. req[h].tx \in Content /\ req[h].key \in Content /\ req[h].memo \in Content
    BY DEF TxTypeOK, RequestType, Content
<1>2. cmd[h] \in Commands
    BY DEF TxTypeOK
<1>. QED BY <1>1, <1>2 DEF Files, Commands

(* The child finds the command's files behind the numbers it was given.    *)
LEMMA ReadsItsFiles ==
    ASSUME NEW h \in Handler, TxInv, hpc[h] = "wait"
    PROVE  Read(h) = Files(h)
<1>1. /\ extra[h] \in Seq(Content) /\ fds[h] \in Seq(Nat) /\ Files(h) \in Seq(Content)
      /\ Len(fds[h]) = Len(extra[h]) /\ Len(extra[h]) = Len(Files(h))
      /\ \A i \in 1..Len(extra[h]) : extra[h][i] = Files(h)[i] /\ fds[h][i] = i + 2
    BY FilesAre DEF TxInv, TxTypeOK, Local, PipesInOrder
<1>2. DOMAIN fds[h] = 1..Len(Files(h)) /\ DOMAIN extra[h] = 1..Len(Files(h))
    BY <1>1
<1>3. \A i \in 1..Len(Files(h)) : ReadAt(h, fds[h][i]) = Files(h)[i]
  <2>. SUFFICES ASSUME NEW i \in 1..Len(Files(h))
                PROVE  ReadAt(h, fds[h][i]) = Files(h)[i]
      OBVIOUS
  <2>1. fds[h][i] - 2 = i /\ i \in DOMAIN extra[h] /\ extra[h][i] = Files(h)[i]
      BY <1>1, <1>2
  <2>. QED BY <2>1 DEF ReadAt
<1>4. Read(h) = [i \in 1..Len(Files(h)) |-> Files(h)[i]]
    BY <1>2, <1>3 DEF Read
<1>. QED BY <1>1, <1>4

(* The same of the next state. *)
LEMMA NextFilesAre ==
    ASSUME NEW h \in Handler, TxTypeOK'
    PROVE  Files(h)' \in Seq(Content) /\ Len(Files(h)') \in 0..2
<1>1. req'[h].tx \in Content /\ req'[h].key \in Content /\ req'[h].memo \in Content
    BY DEF TxTypeOK, RequestType, Content
<1>2. cmd'[h] \in Commands
    BY DEF TxTypeOK
<1>. QED BY <1>1, <1>2 DEF Files, Commands

(* A handler without pipes has its pipes in order, whatever the command.   *)
LEMMA NoPipesInOrder ==
    ASSUME NEW h \in Handler, TxTypeOK', extra'[h] = <<>>, fds'[h] = <<>>, hpc'[h] # "wait"
    PROVE  PipesInOrder(h)'
<1>1. Len(Files(h)') \in 0..2
    BY NextFilesAre
<1>. QED BY <1>1 DEF PipesInOrder

-----------------------------------------------------------------------------
(* Every action keeps the invariant *)

(* Nothing runs at the start. *)
LEMMA InitOK ==
    ASSUME TxInit
    PROVE  TxInv
<1>1. Idle \in RequestType /\ NoOutcome \in OutcomeType /\ NoAnswer \in AnswerType
    BY DEF Idle, NoOutcome, NoAnswer, RequestType, OutcomeType, AnswerType, Ops
<1>2. TxTypeOK
    BY <1>1 DEF TxInit, TxTypeOK, Commands
<1>3. ASSUME NEW h \in Handler
      PROVE  Local(h) /\ ~Winner(h)
  <2>1. PipesInOrder(h)
      BY <1>2, FilesAre DEF TxInit, PipesInOrder
  <2>2. CommandOfRequest(h) /\ EndedWell(h) /\ ~Winner(h)
      BY DEF TxInit, CommandOfRequest, EndedWell, HasSucceeded, Winner
  <2>3. AnswerRight(h)
      BY DEF TxInit, AnswerRight, NoAnswer
  <2>. QED BY <2>1, <2>2, <2>3 DEF Local
<1>4. OneWinner
    BY <1>3 DEF TxInit, OneWinner
<1>. QED BY <1>2, <1>3, <1>4 DEF TxInv

(* A request comes in. *)
LEMMA ReceiveKeeps ==
    ASSUME TxInv, NEW h \in Handler, NEW r \in TxRequests, Receive(h, r)
    PROVE  TxInv'
<1>1. Unmarshal(r) \in RequestType /\ Unmarshal(r).op = r.op /\ r.op \in {"build", "sign", "broadcast"}
    BY DEF TxRequests, Unmarshal, RequestType, Idle, Ops
<1>2. FirstCommand(r.op) \in {"build", "sign", "submit"} /\ NoAnswer \in AnswerType
    BY <1>1 DEF FirstCommand, NoAnswer, AnswerType, Idle, RequestType, Ops
<1>3. TxTypeOK'
    BY <1>1, <1>2 DEF TxInv, TxTypeOK, Receive, runnerVars, Commands
<1>4. \A g \in Handler \ {h} : Same(g)
    BY DEF TxInv, TxTypeOK, Receive, runnerVars, Same
<1>5. /\ hpc'[h] = "pipes" /\ req'[h] = Unmarshal(r) /\ cmd'[h] = FirstCommand(r.op)
      /\ extra'[h] = <<>> /\ fds'[h] = <<>> /\ answer'[h] = NoAnswer
    BY DEF TxInv, TxTypeOK, Local, PipesInOrder, Receive, runnerVars
<1>6. PipesInOrder(h)'
    BY <1>3, <1>5, NoPipesInOrder
<1>7. CommandOfRequest(h)'
    BY <1>1, <1>5 DEF CommandOfRequest, FirstCommand
<1>8. EndedWell(h)' /\ AnswerRight(h)' /\ ~Winner(h)'
    BY <1>2, <1>5 DEF EndedWell, HasSucceeded, AnswerRight, NoAnswer, Winner
<1>9. accepted' = accepted /\ confirmed' = confirmed
    BY DEF Receive
<1>10. \A g \in Handler : Local(g)'
    BY <1>4, <1>6, <1>7, <1>8, <1>9, OthersKeep DEF Local
<1>11. OneWinner'
    BY <1>4, <1>8, <1>9, WinnersKept
<1>. QED BY <1>3, <1>10, <1>11 DEF TxInv

(* A handler that answers without success, its pipes closed, has nothing   *)
(* left to prove.                                                          *)
LEMMA FailureKeeps ==
    ASSUME TxInv, NEW h \in Handler, NEW result \in {"rpcError", "rpcFailed"},
           Answer(h, result, <<>>),
           extra' = [extra EXCEPT ![h] = <<>>], fds' = [fds EXCEPT ![h] = <<>>],
           outcome' = [outcome EXCEPT ![h] = NoOutcome] \/ outcome' = outcome,
           accepted' = accepted, confirmed' = confirmed
    PROVE  TxInv'
<1>1. Idle \in RequestType /\ NoOutcome \in OutcomeType
    BY DEF Idle, NoOutcome, RequestType, OutcomeType, Ops
<1>2. req[h] \in RequestType /\ req[h].op \in Ops
    BY DEF TxInv, TxTypeOK, RequestType
<1>3. [op |-> req[h].op, result |-> result, read |-> <<>>, req |-> req[h]] \in AnswerType
    BY <1>2 DEF AnswerType
<1>4. TxTypeOK'
  <2>1. /\ hpc' \in [Handler -> {"idle", "pipes", "wait", "exited"}]
        /\ req' \in [Handler -> RequestType] /\ cmd' \in [Handler -> Commands]
      BY <1>1 DEF TxInv, TxTypeOK, Answer, Commands
  <2>2. <<>> \in Seq(Content) /\ <<>> \in Seq(Nat)
      OBVIOUS
  <2>3. extra' \in [Handler -> Seq(Content)] /\ fds' \in [Handler -> Seq(Nat)]
      BY <2>2 DEF TxInv, TxTypeOK
  <2>4. outcome' \in [Handler -> OutcomeType]
      BY <1>1 DEF TxInv, TxTypeOK
  <2>5. answer' \in [Handler -> AnswerType]
      BY <1>3 DEF TxInv, TxTypeOK, Answer
  <2>. QED BY <2>1, <2>3, <2>4, <2>5 DEF TxInv, TxTypeOK
<1>5. \A g \in Handler \ {h} : Same(g)
    BY DEF TxInv, TxTypeOK, Answer, Same
<1>6. /\ hpc'[h] = "idle" /\ cmd'[h] = "none" /\ extra'[h] = <<>> /\ fds'[h] = <<>>
      /\ answer'[h].result = result
    BY DEF TxInv, TxTypeOK, Answer
<1>7. PipesInOrder(h)'
    BY <1>4, <1>6, NoPipesInOrder
<1>8. CommandOfRequest(h)' /\ EndedWell(h)' /\ AnswerRight(h)' /\ ~Winner(h)'
    BY <1>6 DEF CommandOfRequest, EndedWell, HasSucceeded, AnswerRight, Winner
<1>9. \A g \in Handler : Local(g)'
    BY <1>5, <1>7, <1>8, OthersKeep DEF Local
<1>10. OneWinner'
    BY <1>5, <1>8, WinnersKept
<1>. QED BY <1>4, <1>9, <1>10 DEF TxInv

(* A request that is refused before any command runs.                      *)
LEMMA MalformedKeeps ==
    ASSUME TxInv, NEW h \in Handler, NEW result \in {"rpcError", "rpcFailed"}, Malformed(h, result)
    PROVE  TxInv'
<1>1. extra[h] = <<>> /\ fds[h] \in Seq(Nat) /\ Len(fds[h]) = Len(extra[h])
    BY DEF TxInv, TxTypeOK, Local, PipesInOrder, Malformed
<1>2. fds[h] = <<>>
    BY <1>1
<1>3. extra' = [extra EXCEPT ![h] = <<>>] /\ fds' = [fds EXCEPT ![h] = <<>>]
    BY <1>1, <1>2 DEF TxInv, TxTypeOK, Malformed, runnerVars
<1>4. Answer(h, result, <<>>) /\ outcome' = outcome /\ accepted' = accepted /\ confirmed' = confirmed
    BY DEF Malformed
<1>. QED BY <1>3, <1>4, FailureKeeps

(* A pipe is made for the next file: its number is its place.              *)
LEMMA CreatePipeKeeps ==
    ASSUME TxInv, NEW h \in Handler, CreatePipe(h)
    PROVE  TxInv'
<1>. DEFINE n == Len(extra[h])
<1>1. /\ extra[h] \in Seq(Content) /\ fds[h] \in Seq(Nat) /\ Files(h) \in Seq(Content)
      /\ Len(fds[h]) = n /\ n < Len(Files(h)) /\ n \in Nat /\ Len(Files(h)) \in Nat
      /\ \A i \in 1..n : extra[h][i] = Files(h)[i] /\ fds[h][i] = i + 2
  <2>1. /\ extra[h] \in Seq(Content) /\ fds[h] \in Seq(Nat)
        /\ Files(h) \in Seq(Content) /\ Len(Files(h)) \in 0..2
      BY FilesAre DEF TxInv, TxTypeOK
  <2>2. n < Len(Files(h))
      BY DEF CreatePipe, MorePipes
  <2>3. PipesInOrder(h)
      BY DEF TxInv, Local
  <2>. QED BY <2>1, <2>2, <2>3 DEF PipesInOrder
<1>2. Files(h)[n + 1] \in Content /\ PoolGet(h) = n + 3
    BY <1>1 DEF PoolGet
<1>3. /\ extra' = [extra EXCEPT ![h] = Append(extra[h], Files(h)[n + 1])]
      /\ fds' = [fds EXCEPT ![h] = Append(fds[h], n + 3)]
      /\ UNCHANGED <<hpc, req, cmd, outcome, accepted, answer, confirmed>>
    BY <1>2 DEF CreatePipe
<1>4. Append(extra[h], Files(h)[n + 1]) \in Seq(Content) /\ Append(fds[h], n + 3) \in Seq(Nat)
    BY <1>1, <1>2
<1>5. TxTypeOK'
  <2>1. extra' \in [Handler -> Seq(Content)] /\ fds' \in [Handler -> Seq(Nat)]
      BY <1>3, <1>4 DEF TxInv, TxTypeOK
  <2>. QED BY <1>3, <2>1 DEF TxInv, TxTypeOK
<1>6. \A g \in Handler \ {h} : Same(g)
    BY <1>3 DEF TxInv, TxTypeOK, Same
<1>7. /\ extra'[h] = Append(extra[h], Files(h)[n + 1]) /\ fds'[h] = Append(fds[h], n + 3)
      /\ Files(h)' = Files(h) /\ hpc'[h] = "pipes"
    BY <1>3 DEF TxInv, TxTypeOK, Files, CreatePipe, MorePipes
<1>8. PipesInOrder(h)'
  <2>1. Len(extra'[h]) = n + 1 /\ Len(fds'[h]) = n + 1
      BY <1>1, <1>7
  <2>2. \A i \in 1..(n + 1) : extra'[h][i] = Files(h)[i] /\ fds'[h][i] = i + 2
      BY <1>1, <1>7
  <2>. QED BY <1>1, <1>7, <2>1, <2>2 DEF PipesInOrder
<1>9. CommandOfRequest(h)' /\ EndedWell(h)' /\ AnswerRight(h)'
    BY <1>3, <1>7 DEF TxInv, Local, CommandOfRequest, EndedWell, HasSucceeded, AnswerRight, NoResult
<1>10. \A g \in Handler : Local(g)'
    BY <1>3, <1>6, <1>8, <1>9, OthersKeep DEF Local
<1>11. Winner(h)' => Winner(h) /\ req'[h].tx = req[h].tx
    BY <1>3 DEF Winner, HasSucceeded
<1>12. OneWinner'
    BY <1>3, <1>6, <1>11, WinnersKept
<1>. QED BY <1>5, <1>10, <1>12 DEF TxInv

(* A command that fails: os.Pipe, Start, or the child, even after the node *)
(* took the transaction.                                                   *)
LEMMA FailedKeeps ==
    ASSUME TxInv, NEW h \in Handler, Exits(h, "failed", <<>>),
           accepted \subseteq accepted', accepted' \subseteq Tx,
           hpc[h] \in {"pipes", "wait"}
    PROVE  TxInv'
<1>1. [status |-> "failed", read |-> <<>>] \in OutcomeType
    BY DEF OutcomeType
<1>2. UNCHANGED <<req, cmd, extra, fds, answer, confirmed>>
    BY DEF Exits, runnerVars
<1>3. TxTypeOK'
    BY <1>1, <1>2 DEF TxInv, TxTypeOK, Exits
<1>4. \A g \in Handler \ {h} : Same(g)
    BY <1>2 DEF TxInv, TxTypeOK, Exits, Same
<1>5. hpc'[h] = "exited" /\ outcome'[h].status = "failed" /\ Files(h)' = Files(h)
    BY <1>2 DEF TxInv, TxTypeOK, Exits, Files
<1>6. PipesInOrder(h)'
    BY <1>2, <1>5 DEF TxInv, Local, PipesInOrder
<1>7. CommandOfRequest(h)' /\ EndedWell(h)' /\ AnswerRight(h)'
    BY <1>2, <1>5 DEF TxInv, Local, CommandOfRequest, EndedWell, HasSucceeded, AnswerRight, NoResult
<1>8. \A g \in Handler : Local(g)'
    BY <1>4, <1>6, <1>7, OthersKeep DEF Local
<1>9. Winner(h)' => Winner(h) /\ req'[h].tx = req[h].tx
    BY <1>2, <1>5 DEF Winner, HasSucceeded
<1>10. OneWinner'
    BY <1>2, <1>4, <1>9, WinnersKept
<1>. QED BY <1>3, <1>8, <1>10 DEF TxInv

(* The child of a submit may fail after the node has the transaction.      *)
LEMMA ChildFailsKeeps ==
    ASSUME TxInv, NEW h \in Handler, ChildFails(h)
    PROVE  TxInv'
<1>1. accepted \subseteq accepted' /\ accepted' \subseteq Tx
    BY DEF TxInv, TxTypeOK, ChildFails
<1>. QED BY <1>1, FailedKeeps DEF ChildFails

(* All pipes are made and the child runs.                                  *)
LEMMA StartCommandKeeps ==
    ASSUME TxInv, NEW h \in Handler, StartCommand(h)
    PROVE  TxInv'
<1>1. UNCHANGED <<req, cmd, extra, fds, outcome, accepted, answer, confirmed>>
    BY DEF StartCommand, runnerVars
<1>2. TxTypeOK'
    BY <1>1 DEF TxInv, TxTypeOK, StartCommand
<1>3. \A g \in Handler \ {h} : Same(g)
    BY <1>1 DEF TxInv, TxTypeOK, StartCommand, Same
<1>4. hpc'[h] = "wait" /\ Files(h)' = Files(h)
    BY <1>1 DEF TxInv, TxTypeOK, StartCommand, Files
<1>5. Len(extra[h]) = Len(Files(h))
  <2>1. /\ ~(Len(extra[h]) < Len(Files(h))) /\ Len(extra[h]) <= Len(Files(h))
        /\ Len(Files(h)) \in Nat /\ extra[h] \in Seq(Content)
      BY FilesAre DEF TxInv, TxTypeOK, Local, PipesInOrder, StartCommand, MorePipes
  <2>. QED BY <2>1
<1>6. PipesInOrder(h)'
    BY <1>1, <1>4, <1>5 DEF TxInv, Local, PipesInOrder
<1>7. CommandOfRequest(h)' /\ EndedWell(h)' /\ AnswerRight(h)'
    BY <1>1, <1>4 DEF TxInv, Local, CommandOfRequest, EndedWell, HasSucceeded, AnswerRight, NoResult
<1>8. \A g \in Handler : Local(g)'
    BY <1>1, <1>3, <1>6, <1>7, OthersKeep DEF Local
<1>9. Winner(h)' => Winner(h) /\ req'[h].tx = req[h].tx
    BY <1>1, <1>4 DEF Winner, HasSucceeded
<1>10. OneWinner'
    BY <1>1, <1>3, <1>9, WinnersKept
<1>. QED BY <1>2, <1>8, <1>10 DEF TxInv

(* A writer ends: nothing that the handlers know of changes.               *)
LEMMA WriterKeeps ==
    ASSUME TxInv,
           UNCHANGED <<hpc, req, cmd, extra, fds, outcome, accepted, answer, confirmed>>
    PROVE  TxInv'
<1>1. TxTypeOK'
    BY DEF TxInv, TxTypeOK
<1>2. ASSUME NEW h \in Handler
      PROVE  Local(h)' /\ (Winner(h)' <=> Winner(h))
  <2>1. Files(h)' = Files(h) /\ Local(h)
      BY DEF TxInv, Files
  <2>2. PipesInOrder(h)' /\ CommandOfRequest(h)'
      BY <2>1 DEF Local, PipesInOrder, CommandOfRequest
  <2>3. EndedWell(h)' /\ AnswerRight(h)'
      BY <2>1 DEF Local, EndedWell, HasSucceeded, AnswerRight, NoResult
  <2>4. Winner(h)' <=> Winner(h)
      BY DEF Winner, HasSucceeded
  <2>. QED BY <2>2, <2>3, <2>4 DEF Local
<1>3. OneWinner'
    BY <1>2 DEF TxInv, OneWinner
<1>. QED BY <1>1, <1>2, <1>3 DEF TxInv

(* A command ends well.  The node takes a transaction once, so that there  *)
(* is no winner yet, and no reported success, when a submit succeeds.      *)
LEMMA ChildSucceedsKeeps ==
    ASSUME TxInv, NEW h \in Handler, NEW status \in {"ok", "warned"}, ChildSucceeds(h, status)
    PROVE  TxInv'
<1>1. Read(h) = Files(h) /\ Exits(h, status, Read(h)) /\ req[h].tx # Nothing
    BY ReadsItsFiles DEF ChildSucceeds
<1>2. /\ Files(h) \in Seq(Content)
      /\ cmd[h] = "submit" => Files(h) = <<req[h].tx>>
    BY FilesAre DEF TxInv
<1>3. req[h].tx \in Tx
    BY <1>1 DEF TxInv, TxTypeOK, RequestType
<1>4. /\ cmd[h] = "submit" => req[h].tx \notin accepted /\ accepted' = accepted \cup {req[h].tx}
      /\ cmd[h] # "submit" => accepted' = accepted
    BY <1>1, <1>2 DEF ChildSucceeds
<1>5. [status |-> status, read |-> Read(h)] \in OutcomeType
    BY <1>1, <1>2 DEF OutcomeType
<1>6. UNCHANGED <<req, cmd, extra, fds, answer, confirmed>>
    BY <1>1 DEF Exits, runnerVars
<1>7. TxTypeOK'
    BY <1>1, <1>3, <1>4, <1>5, <1>6 DEF TxInv, TxTypeOK, Exits
<1>8. \A g \in Handler \ {h} : Same(g)
    BY <1>1, <1>6 DEF TxInv, TxTypeOK, Exits, Same
<1>9. /\ hpc'[h] = "exited" /\ outcome'[h] = [status |-> status, read |-> Files(h)]
      /\ Files(h)' = Files(h) /\ Local(h)
    BY <1>1, <1>6 DEF TxInv, TxTypeOK, Exits, Files
<1>10. PipesInOrder(h)'
    BY <1>6, <1>9 DEF Local, PipesInOrder
<1>11. CommandOfRequest(h)' /\ AnswerRight(h)'
    BY <1>4, <1>6, <1>9 DEF Local, CommandOfRequest, AnswerRight, NoResult
<1>12. EndedWell(h)'
    BY <1>4, <1>6, <1>9 DEF EndedWell
<1>13. \A g \in Handler : Local(g)'
    BY <1>4, <1>8, <1>10, <1>11, <1>12, OthersKeep DEF Local
<1>14. CASE cmd[h] # "submit"
  <2>1. Winner(h)' => Winner(h) /\ req'[h].tx = req[h].tx
      BY <1>6, <1>14 DEF Winner
  <2>2. OneWinner'
      BY <1>4, <1>6, <1>8, <1>14, <2>1, WinnersKept
  <2>. QED BY <1>7, <1>13, <2>2 DEF TxInv
<1>15. CASE cmd[h] = "submit"
  <2>1. \A g \in Handler \ {h} : Winner(g)' => Winner(g) /\ req'[g].tx = req[g].tx
      BY <1>8 DEF Same, Winner, HasSucceeded
  <2>2. \A g \in Handler \ {h} : Winner(g)' => req[g].tx \in accepted /\ confirmed[req[g].tx] = 0
      BY <2>1 DEF TxInv, OneWinner
  <2>3. confirmed[req[h].tx] = 0
      BY <1>3, <1>4, <1>15 DEF TxInv, OneWinner
  <2>4. \A g \in Handler : Winner(g)' => req'[g].tx \in accepted' /\ confirmed'[req'[g].tx] = 0
      BY <1>4, <1>6, <1>15, <2>2, <2>3
  <2>5. \A f, g \in Handler : Winner(f)' /\ Winner(g)' /\ req'[f].tx = req'[g].tx => f = g
      BY <1>4, <1>6, <1>15, <2>1, <2>2 DEF TxInv, OneWinner
  <2>6. \A t \in Tx : confirmed'[t] = 0 \/ (confirmed'[t] = 1 /\ t \in accepted')
      BY <1>4, <1>6, <1>15 DEF TxInv, OneWinner
  <2>7. OneWinner'
      BY <2>4, <2>5, <2>6 DEF OneWinner
  <2>. QED BY <1>7, <1>13, <2>7 DEF TxInv
<1>. QED BY <1>14, <1>15

(* A command failed, or its output is not understood.                      *)
LEMMA CommandFailsKeeps ==
    ASSUME TxInv, NEW h \in Handler, CommandFails(h)
    PROVE  TxInv'
<1>1. /\ Answer(h, "rpcError", <<>>) /\ accepted' = accepted /\ confirmed' = confirmed
      /\ extra' = [extra EXCEPT ![h] = <<>>] /\ fds' = [fds EXCEPT ![h] = <<>>]
      /\ outcome' = [outcome EXCEPT ![h] = NoOutcome]
    BY DEF CommandFails, Clear
<1>. QED BY <1>1, FailureKeeps

(* The hash is asked for: of a broadcast, only after a success.            *)
LEMMA NextCommandKeeps ==
    ASSUME TxInv, NEW h \in Handler, NextCommand(h)
    PROVE  TxInv'
<1>. DEFINE r == IF outcome[h].status = "warned" THEN [req[h] EXCEPT !.tx = Nothing] ELSE req[h]
<1>1. /\ cmd' = [cmd EXCEPT ![h] = "txid"] /\ hpc' = [hpc EXCEPT ![h] = "pipes"]
      /\ extra' = [extra EXCEPT ![h] = <<>>] /\ fds' = [fds EXCEPT ![h] = <<>>]
      /\ outcome' = [outcome EXCEPT ![h] = NoOutcome]
      /\ UNCHANGED <<accepted, answer, confirmed>>
    BY DEF NextCommand, Clear
<1>2. req[h] \in RequestType /\ req \in [Handler -> RequestType]
    BY DEF TxInv, TxTypeOK
<1>3. r \in RequestType /\ r.op = req[h].op
    BY <1>2 DEF RequestType
<1>4. req' = [req EXCEPT ![h] = r]
    BY <1>2 DEF NextCommand
<1>5. HasSucceeded(h) /\ cmd[h] \in {"build", "submit"} /\ Local(h)
    BY DEF NextCommand, Succeeded, HasSucceeded, TxInv
<1>6. cmd[h] = "submit" => r = req[h] /\ req[h].op = "broadcast" /\ req[h].tx \in accepted
    BY <1>5 DEF NextCommand, Succeeded, Local, CommandOfRequest, EndedWell
<1>7. cmd[h] = "build" => req[h].op = "build"
    BY <1>5 DEF Local, CommandOfRequest
<1>8. TxTypeOK'
  <2>1. /\ hpc' \in [Handler -> {"idle", "pipes", "wait", "exited"}]
        /\ req' \in [Handler -> RequestType] /\ cmd' \in [Handler -> Commands]
      BY <1>1, <1>2, <1>3, <1>4 DEF TxInv, TxTypeOK, Commands
  <2>2. <<>> \in Seq(Content) /\ <<>> \in Seq(Nat) /\ NoOutcome \in OutcomeType
      BY DEF NoOutcome, OutcomeType
  <2>3. /\ extra' \in [Handler -> Seq(Content)] /\ fds' \in [Handler -> Seq(Nat)]
        /\ outcome' \in [Handler -> OutcomeType]
      BY <1>1, <2>2 DEF TxInv, TxTypeOK
  <2>. QED BY <1>1, <2>1, <2>3 DEF TxInv, TxTypeOK
<1>9. \A g \in Handler \ {h} : Same(g)
    BY <1>1, <1>2, <1>4 DEF TxInv, TxTypeOK, Same
<1>10. /\ cmd'[h] = "txid" /\ hpc'[h] = "pipes" /\ req'[h] = r
       /\ extra'[h] = <<>> /\ fds'[h] = <<>>
    BY <1>1, <1>2, <1>4 DEF TxInv, TxTypeOK
<1>. HIDE DEF r
<1>11. PipesInOrder(h)'
    BY <1>8, <1>10, NoPipesInOrder
<1>12. CommandOfRequest(h)'
    BY <1>1, <1>3, <1>5, <1>6, <1>7, <1>10 DEF CommandOfRequest
<1>13. EndedWell(h)' /\ AnswerRight(h)'
    BY <1>1, <1>5, <1>10 DEF Local, EndedWell, HasSucceeded, AnswerRight, NoResult
<1>14. \A g \in Handler : Local(g)'
    BY <1>1, <1>9, <1>11, <1>12, <1>13, OthersKeep DEF Local
<1>15. Winner(h)' => Winner(h) /\ req'[h].tx = req[h].tx
    BY <1>3, <1>5, <1>6, <1>7, <1>10 DEF Winner
<1>16. OneWinner'
    BY <1>1, <1>9, <1>15, WinnersKept
<1>. QED BY <1>8, <1>14, <1>16 DEF TxInv

(* A request is answered with success.  Of a broadcast the handler was the *)
(* one winner, and is none any more.                                       *)
LEMMA SuccessKeeps ==
    ASSUME TxInv, NEW h \in Handler, hpc[h] = "exited", Succeeded(h), cmd[h] \in {"sign", "txid"},
           Clear(h), NEW result \in Results(h), Answer(h, "ok", result),
           confirmed' = IF req[h].op = "broadcast"
                        THEN [confirmed EXCEPT ![req[h].tx] = @ + 1] ELSE confirmed
    PROVE  TxInv'
<1>1. /\ extra' = [extra EXCEPT ![h] = <<>>] /\ fds' = [fds EXCEPT ![h] = <<>>]
      /\ outcome' = [outcome EXCEPT ![h] = NoOutcome] /\ accepted' = accepted
    BY DEF Clear
<1>2. Local(h) /\ HasSucceeded(h) /\ req[h] \in RequestType /\ req[h].op \in Ops
    BY DEF TxInv, TxTypeOK, Succeeded, HasSucceeded, RequestType
<1>3. result \in {Files(h), NoResult} /\ result \in Seq(Content)
  <2>1. outcome[h].read = Files(h) /\ Files(h) \in Seq(Content)
      BY <1>2, FilesAre DEF TxInv, Local, EndedWell
  <2>2. NoResult \in Seq(Content)
      BY DEF NoResult, Content
  <2>. QED BY <2>1, <2>2 DEF Results
<1>. DEFINE a == [op |-> req[h].op, result |-> "ok", read |-> result, req |-> req[h]]
<1>4. answer' = [answer EXCEPT ![h] = a] /\ a \in AnswerType
    BY <1>2, <1>3 DEF Answer, AnswerType
<1>5. req[h].op = "broadcast" =>
          Winner(h) /\ cmd[h] = "txid" /\ req[h].tx \in accepted /\ req[h].tx \in Tx
          /\ confirmed[req[h].tx] = 0
    BY <1>2 DEF Local, CommandOfRequest, Winner, TxInv, TxTypeOK, OneWinner
<1>6. req[h].op = "sign" => cmd[h] = "sign"
    BY <1>2 DEF Local, CommandOfRequest
<1>7. TxTypeOK'
  <2>1. Idle \in RequestType /\ NoOutcome \in OutcomeType /\ <<>> \in Seq(Content) /\ <<>> \in Seq(Nat)
      BY DEF Idle, NoOutcome, RequestType, OutcomeType, Ops
  <2>2. /\ hpc' \in [Handler -> {"idle", "pipes", "wait", "exited"}]
        /\ req' \in [Handler -> RequestType] /\ cmd' \in [Handler -> Commands]
      BY <2>1 DEF TxInv, TxTypeOK, Answer, Commands
  <2>3. /\ extra' \in [Handler -> Seq(Content)] /\ fds' \in [Handler -> Seq(Nat)]
        /\ outcome' \in [Handler -> OutcomeType]
      BY <1>1, <2>1 DEF TxInv, TxTypeOK
  <2>4. answer' \in [Handler -> AnswerType]
      BY <1>4 DEF TxInv, TxTypeOK
  <2>5. confirmed' \in [Tx -> Nat]
    <3>1. CASE req[h].op = "broadcast"
        BY <1>5, <3>1 DEF TxInv, TxTypeOK
    <3>2. CASE req[h].op # "broadcast"
        BY <3>2 DEF TxInv, TxTypeOK
    <3>. QED BY <3>1, <3>2
  <2>. QED BY <1>1, <2>2, <2>3, <2>4, <2>5 DEF TxInv, TxTypeOK
<1>8. \A g \in Handler \ {h} : Same(g)
    BY <1>1 DEF TxInv, TxTypeOK, Answer, Same
<1>9. /\ hpc'[h] = "idle" /\ cmd'[h] = "none" /\ extra'[h] = <<>> /\ fds'[h] = <<>>
      /\ answer'[h] = a
    BY <1>1, <1>4 DEF TxInv, TxTypeOK, Answer
<1>10. PipesInOrder(h)'
    BY <1>7, <1>9, NoPipesInOrder
<1>11. CommandOfRequest(h)' /\ EndedWell(h)' /\ ~Winner(h)'
    BY <1>9 DEF CommandOfRequest, EndedWell, HasSucceeded, Winner
<1>12. AnswerRight(h)'
  <2>1. req[h].op = "sign" => result \in {<<req[h].tx, req[h].key>>, NoResult}
      BY <1>3, <1>6, FilesAre DEF TxInv
  <2>2. req[h].op = "broadcast" => result \in {<<req[h].tx>>, NoResult} /\ req[h].tx \in accepted'
      BY <1>1, <1>3, <1>5, FilesAre DEF TxInv
  <2>. QED BY <1>9, <2>1, <2>2 DEF AnswerRight, NoResult
<1>13. \A g \in Handler : Local(g)'
    BY <1>1, <1>8, <1>10, <1>11, <1>12, OthersKeep DEF Local
<1>14. OneWinner'
  <2>1. CASE req[h].op # "broadcast"
      BY <1>1, <1>8, <1>11, <2>1, WinnersKept
  <2>2. CASE req[h].op = "broadcast"
    <3>1. \A g \in Handler : Winner(g)' => g # h /\ Winner(g) /\ req'[g].tx = req[g].tx
        BY <1>8, <1>11 DEF Same, Winner, HasSucceeded
    <3>2. \A g \in Handler : Winner(g)' => req[g].tx # req[h].tx /\ req[g].tx \in accepted /\ confirmed[req[g].tx] = 0
        BY <1>5, <2>2, <3>1 DEF TxInv, OneWinner
    <3>3. confirmed' = [confirmed EXCEPT ![req[h].tx] = 1] /\ confirmed \in [Tx -> Nat]
      <4>1. confirmed' = [confirmed EXCEPT ![req[h].tx] = confirmed[req[h].tx] + 1]
          BY <2>2
      <4>2. confirmed[req[h].tx] + 1 = 1
          BY <1>5, <2>2
      <4>. QED BY <4>1, <4>2 DEF TxInv, TxTypeOK
    <3>4. \A g \in Handler : Winner(g)' => req'[g].tx \in accepted' /\ confirmed'[req'[g].tx] = 0
      <4>1. SUFFICES ASSUME NEW g \in Handler, Winner(g)'
                     PROVE  req'[g].tx \in accepted' /\ confirmed'[req'[g].tx] = 0
          OBVIOUS
      <4>2. PICK t : t = req[g].tx /\ t = req'[g].tx
          BY <3>1, <4>1
      <4>3. t # req[h].tx /\ t \in accepted /\ confirmed[t] = 0
          BY <3>2, <4>1, <4>2
      <4>4. t \in Tx /\ accepted' = accepted
          BY <1>1, <4>3 DEF TxInv, TxTypeOK
      <4>5. confirmed'[t] = confirmed[t]
          BY <3>3, <4>3, <4>4
      <4>. QED BY <4>2, <4>3, <4>4, <4>5, Zenon
    <3>5. \A f, g \in Handler : Winner(f)' /\ Winner(g)' /\ req'[f].tx = req'[g].tx => f = g
        BY <3>1 DEF TxInv, OneWinner
    <3>6. \A t \in Tx : confirmed'[t] = 0 \/ (confirmed'[t] = 1 /\ t \in accepted')
        BY <1>1, <1>5, <2>2, <3>3 DEF TxInv, OneWinner
    <3>. QED BY <3>4, <3>5, <3>6 DEF OneWinner
  <2>. QED BY <2>1, <2>2
<1>. QED BY <1>7, <1>13, <1>14 DEF TxInv

(* The last command of a request has ended well.                           *)
LEMMA LastCommandKeeps ==
    ASSUME TxInv, NEW h \in Handler, LastCommand(h)
    PROVE  TxInv'
<1>1. hpc[h] = "exited" /\ Succeeded(h) /\ cmd[h] \in {"sign", "txid"} /\ Clear(h)
    BY DEF LastCommand
<1>2. CASE /\ \E result \in Results(h) : Answer(h, "ok", result)
           /\ confirmed' = IF req[h].op = "broadcast"
                           THEN [confirmed EXCEPT ![req[h].tx] = @ + 1] ELSE confirmed
    BY <1>1, <1>2, SuccessKeeps
<1>3. CASE Answer(h, "rpcError", <<>>) /\ confirmed' = confirmed
    BY <1>1, <1>3, FailureKeeps DEF Clear
<1>. QED BY <1>2, <1>3 DEF LastCommand

(* Every step keeps the invariant.                                         *)
LEMMA NextKeeps ==
    ASSUME TxInv, [TxNext]_txVars
    PROVE  TxInv'
<1>1. CASE UNCHANGED txVars
    BY <1>1, WriterKeeps DEF txVars, runnerVars
<1>2. CASE StrayWriterDone
    BY <1>2, WriterKeeps DEF StrayWriterDone
<1>3. ASSUME NEW h \in Handler, NEW r \in TxRequests, Receive(h, r)
      PROVE  TxInv'
    BY <1>3, ReceiveKeeps
<1>4. ASSUME NEW h \in Handler, NEW result \in {"rpcError", "rpcFailed"}, Malformed(h, result)
      PROVE  TxInv'
    BY <1>4, MalformedKeeps
<1>5. ASSUME NEW h \in Handler, Runner(h)
      PROVE  TxInv'
  <2>1. CASE CreatePipe(h)
      BY <2>1, CreatePipeKeeps
  <2>2. CASE PipeFails(h)
      BY <2>2, FailedKeeps DEF PipeFails, MorePipes, TxInv, TxTypeOK
  <2>3. CASE StartCommand(h)
      BY <2>3, StartCommandKeeps
  <2>4. CASE \E i \in 1..2 : WriterDone(h, i)
      BY <2>4, WriterKeeps DEF WriterDone
  <2>. QED BY <1>5, <2>1, <2>2, <2>3, <2>4 DEF Runner
<1>6. ASSUME NEW h \in Handler, StartFails(h)
      PROVE  TxInv'
    BY <1>6, FailedKeeps DEF StartFails, TxInv, TxTypeOK
<1>7. ASSUME NEW h \in Handler, Child(h)
      PROVE  TxInv'
    BY <1>7, ChildSucceedsKeeps, ChildFailsKeeps DEF Child
<1>8. ASSUME NEW h \in Handler, Handles(h)
      PROVE  TxInv'
    BY <1>8, CommandFailsKeeps, NextCommandKeeps, LastCommandKeeps DEF Handles
<1>. QED BY <1>1, <1>2, <1>3, <1>4, <1>5, <1>6, <1>7, <1>8 DEF TxNext

-----------------------------------------------------------------------------
(* Results *)

(* The invariant holds in every state of the transaction handlers,         *)
(* whatever their number and however their commands end.                   *)
THEOREM TxInvHolds == TxSpec => []TxInv
<1>1. TxInit => TxInv
    BY InitOK
<1>2. TxInv /\ [TxNext]_txVars => TxInv'
    BY NextKeeps
<1>. QED BY <1>1, <1>2, PTL DEF TxSpec

(* postTransactionSign: what is signed is the transaction of the request,  *)
(* with its key, with any number of handlers that run commands.            *)
THEOREM SignaturesAreOwn == TxSpec => []SignsOwn
<1>1. TxInv => SignsOwn
    BY DEF TxInv, Local, AnswerRight, SignsOwn
<1>. QED BY <1>1, TxInvHolds, PTL

(* postTransactionBroadcast: a success means that the node has the         *)
(* transaction, and a hash in the answer is that of what was sent.         *)
THEOREM SuccessIsTrue == TxSpec => []OkMeansAccepted
<1>1. TxInv => OkMeansAccepted
    BY DEF TxInv, Local, AnswerRight, OkMeansAccepted
<1>. QED BY <1>1, TxInvHolds, PTL

(* postTransactionBroadcast: of all the broadcasts of a transaction,       *)
(* concurrent ones and retries included, one at most is reported as done.  *)
THEOREM SuccessIsReportedOnce == TxSpec => []ConfirmedOnce
<1>1. TxInv => ConfirmedOnce
    BY DEF TxInv, OneWinner, ConfirmedOnce
<1>. QED BY <1>1, TxInvHolds, PTL

-----------------------------------------------------------------------------
(* Descriptors *)

(* The ends of pipes that the handler's command holds: the read ends of    *)
(* its files and the write ends of those that are still written.           *)
ReadEnds(h) == {<<h, i, "r">> : i \in 1..Len(extra[h])}
WriteEnds(h) == {<<h, i, "w">> : i \in writing[h]}
EndsOf(h) == ReadEnds(h) \cup WriteEnds(h)
Ends == UNION {EndsOf(h) : h \in Handler}

(* Every descriptor that is open belongs to a pipe of a command, or to the *)
(* writer of a command that is over.                                       *)
OpenCounted ==
    /\ stray \in Nat /\ open \in Nat
    /\ writing \in [Handler -> SUBSET Nat]
    /\ \A h \in Handler : \A i \in writing[h] : i \in 1..Len(extra[h])
    /\ IsFiniteSet(Ends)
    /\ open = stray + Cardinality(Ends)

(* The read ends of a handler are as many as its files, the write ends as  *)
(* many as its writers.                                                    *)
LEMMA EndsOfCount ==
    ASSUME NEW h \in Handler, TxTypeOK, OpenCounted
    PROVE  /\ IsFiniteSet(EndsOf(h)) /\ IsFiniteSet(writing[h])
           /\ Cardinality(writing[h]) \in Nat /\ Len(extra[h]) \in Nat
           /\ Cardinality(EndsOf(h)) = Len(extra[h]) + Cardinality(writing[h])
<1>. DEFINE n == Len(extra[h])
<1>1. n \in Nat
    BY DEF TxTypeOK
<1>2. IsFiniteSet(1..n) /\ Cardinality(1..n) = n
    BY <1>1, FS_Interval
<1>3. IsFiniteSet(writing[h]) /\ Cardinality(writing[h]) \in Nat
  <2>1. writing[h] \in SUBSET (1..n)
      BY DEF OpenCounted
  <2>. QED BY <1>2, <2>1, FS_Subset, FS_CardinalityType
<1>4. IsFiniteSet(ReadEnds(h)) /\ Cardinality(ReadEnds(h)) = n
  <2>. DEFINE f == [i \in 1..n |-> <<h, i, "r">>]
  <2>1. f \in Bijection(1..n, ReadEnds(h))
      BY DEF Bijection, Injection, Surjection, IsInjective, ReadEnds
  <2>2. ExistsBijection(1..n, ReadEnds(h))
      BY <2>1 DEF ExistsBijection
  <2>. QED BY <1>2, <2>2, FS_Bijection
<1>5. IsFiniteSet(WriteEnds(h)) /\ Cardinality(WriteEnds(h)) = Cardinality(writing[h])
  <2>. DEFINE f == [i \in writing[h] |-> <<h, i, "w">>]
  <2>1. f \in Bijection(writing[h], WriteEnds(h))
      BY DEF Bijection, Injection, Surjection, IsInjective, WriteEnds
  <2>2. ExistsBijection(writing[h], WriteEnds(h))
      BY <2>1 DEF ExistsBijection
  <2>. QED BY <1>3, <2>2, FS_Bijection
<1>6. ReadEnds(h) \cap WriteEnds(h) = {}
    BY DEF ReadEnds, WriteEnds
<1>7. /\ IsFiniteSet(EndsOf(h))
      /\ Cardinality(EndsOf(h)) = n + Cardinality(writing[h]) - Cardinality({})
    BY <1>4, <1>5, <1>6, FS_Union DEF EndsOf
<1>. QED BY <1>1, <1>3, <1>7, FS_EmptySet

(* An end of a pipe is one of the ends of its command.                     *)
LEMMA EndIs ==
    ASSUME NEW e
    PROVE  e \in Ends <=> \E h \in Handler : \/ \E i \in 1..Len(extra[h]) : e = <<h, i, "r">>
                                             \/ \E i \in writing[h] : e = <<h, i, "w">>
BY DEF Ends, EndsOf, ReadEnds, WriteEnds

(* The same of the next state.                                             *)
LEMMA NextEndIs ==
    ASSUME NEW e
    PROVE  e \in Ends' <=> \E h \in Handler : \/ \E i \in 1..Len(extra'[h]) : e = <<h, i, "r">>
                                              \/ \E i \in writing'[h] : e = <<h, i, "w">>
BY DEF Ends, EndsOf, ReadEnds, WriteEnds

(* CreatePipe opens a read end and a write end.                            *)
LEMMA CreatePipeCounted ==
    ASSUME TxInv, OpenCounted, NEW h \in Handler, CreatePipe(h)
    PROVE  OpenCounted'
<1>. DEFINE n == Len(extra[h])
            r == <<h, n + 1, "r">>
            w == <<h, n + 1, "w">>
<1>1. n \in Nat /\ extra[h] \in Seq(Content) /\ Files(h) \in Seq(Content) /\ n < Len(Files(h))
  <2>1. Files(h) \in Seq(Content) /\ n < Len(Files(h))
      BY FilesAre DEF TxInv, CreatePipe, MorePipes
  <2>. QED BY <2>1 DEF TxInv, TxTypeOK
<1>2. Len(extra'[h]) = n + 1 /\ \A g \in Handler \ {h} : extra'[g] = extra[g]
    BY <1>1 DEF TxInv, TxTypeOK, CreatePipe
<1>3. writing'[h] = writing[h] \cup {n + 1} /\ \A g \in Handler \ {h} : writing'[g] = writing[g]
    BY DEF OpenCounted, CreatePipe
<1>4. Ends' = (Ends \cup {r}) \cup {w}
  <2>. SUFFICES ASSUME NEW e PROVE e \in Ends' <=> e \in Ends \/ e = r \/ e = w
      OBVIOUS
  <2>1. e \in Ends' => e \in Ends \/ e = r \/ e = w
    <3>1. ASSUME NEW g \in Handler, NEW i \in 1..Len(extra'[g]), e = <<g, i, "r">>
          PROVE  e \in Ends \/ e = r
      <4>1. CASE g # h
          BY <3>1, <4>1, <1>2, EndIs
      <4>2. CASE g = h /\ i # n + 1
        <5>1. i \in 1..Len(extra[g])
            BY <1>1, <1>2, <4>2
        <5>. QED BY <3>1, <5>1, EndIs
      <4>. QED BY <3>1, <4>1, <4>2
    <3>2. ASSUME NEW g \in Handler, NEW i \in writing'[g], e = <<g, i, "w">>
          PROVE  e \in Ends \/ e = w
      <4>1. CASE g # h
          BY <3>2, <4>1, <1>3, EndIs
      <4>2. CASE g = h /\ i # n + 1
          BY <3>2, <1>3, <4>2, EndIs
      <4>. QED BY <3>2, <4>1, <4>2
    <3>. QED BY <3>1, <3>2, NextEndIs
  <2>2. e \in Ends => e \in Ends'
    <3>1. ASSUME NEW g \in Handler
          PROVE  1..Len(extra[g]) \subseteq 1..Len(extra'[g]) /\ writing[g] \subseteq writing'[g]
        BY <1>1, <1>2, <1>3
    <3>. QED BY <3>1, EndIs, NextEndIs
  <2>3. r \in Ends' /\ w \in Ends'
    <3>1. n + 1 \in 1..Len(extra'[h]) /\ n + 1 \in writing'[h]
        BY <1>1, <1>2, <1>3
    <3>. QED BY <3>1, NextEndIs
  <2>. QED BY <2>1, <2>2, <2>3
<1>5. r \notin Ends /\ w \notin Ends \cup {r}
  <2>1. n + 1 \notin 1..Len(extra[h]) /\ n + 1 \notin writing[h]
      BY <1>1 DEF OpenCounted
  <2>. QED BY <2>1, EndIs
<1>6. IsFiniteSet(Ends') /\ Cardinality(Ends') = Cardinality(Ends) + 2
  <2>1. IsFiniteSet(Ends) /\ Cardinality(Ends) \in Nat
      BY FS_CardinalityType DEF OpenCounted
  <2>2. IsFiniteSet(Ends \cup {r}) /\ Cardinality(Ends \cup {r}) = Cardinality(Ends) + 1
      BY <1>5, <2>1, FS_AddElement
  <2>3. /\ IsFiniteSet((Ends \cup {r}) \cup {w})
        /\ Cardinality((Ends \cup {r}) \cup {w}) = Cardinality(Ends \cup {r}) + 1
    <3>. HIDE DEF r, w
    <3>. QED BY <1>5, <2>2, FS_AddElement
  <2>. QED BY <1>4, <2>1, <2>2, <2>3
<1>7. Cardinality(Ends) \in Nat
    BY FS_CardinalityType DEF OpenCounted
<1>8. writing' \in [Handler -> SUBSET Nat]
    BY <1>1 DEF OpenCounted, CreatePipe
<1>9. \A g \in Handler : \A i \in writing'[g] : i \in 1..Len(extra'[g])
  <2>. SUFFICES ASSUME NEW g \in Handler, NEW i \in writing'[g] PROVE i \in 1..Len(extra'[g])
      OBVIOUS
  <2>1. CASE g = h
      BY <1>1, <1>2, <1>3, <2>1 DEF OpenCounted
  <2>2. CASE g # h
      BY <1>2, <1>3, <2>2 DEF OpenCounted
  <2>. QED BY <2>1, <2>2
<1>. QED BY <1>6, <1>7, <1>8, <1>9, SMTT(40) DEF OpenCounted, CreatePipe

(* A writer that ends closes its write end.                                *)
LEMMA WriterDoneCounted ==
    ASSUME TxInv, OpenCounted, NEW h \in Handler, NEW i \in 1..2, WriterDone(h, i)
    PROVE  OpenCounted'
<1>. DEFINE w == <<h, i, "w">>
<1>1. /\ writing'[h] = writing[h] \ {i} /\ \A g \in Handler \ {h} : writing'[g] = writing[g]
      /\ extra' = extra /\ stray' = stray /\ open' = open - 1 /\ i \in writing[h]
      /\ writing' \in [Handler -> SUBSET Nat]
    BY DEF OpenCounted, WriterDone
<1>2. Ends' = Ends \ {w}
  <2>. SUFFICES ASSUME NEW e PROVE e \in Ends' <=> e \in Ends /\ e # w
      OBVIOUS
  <2>1. \A g \in Handler : \A j : j \in writing'[g] <=> j \in writing[g] /\ <<g, j, "w">> # w
      BY <1>1
  <2>. QED BY <1>1, <2>1, EndIs, NextEndIs
<1>3. w \in Ends
    BY <1>1, EndIs
<1>4. IsFiniteSet(Ends) /\ Cardinality(Ends) \in Nat
    BY FS_CardinalityType DEF OpenCounted
<1>5. IsFiniteSet(Ends') /\ Cardinality(Ends') = Cardinality(Ends) - 1
    BY <1>2, <1>3, <1>4, FS_RemoveElement
<1>6. Cardinality(Ends') \in Nat
    BY <1>5, FS_CardinalityType
<1>7. \A g \in Handler : \A j \in writing'[g] : j \in 1..Len(extra'[g])
    BY <1>1 DEF OpenCounted
<1>. QED BY <1>1, <1>4, <1>5, <1>6, <1>7 DEF OpenCounted

(* The command is over: its read ends are closed, its writers are left to  *)
(* themselves.                                                             *)
LEMMA ClearCounted ==
    ASSUME TxInv, OpenCounted, NEW h \in Handler, Clear(h)
    PROVE  OpenCounted'
<1>1. /\ extra'[h] = <<>> /\ writing'[h] = {}
      /\ \A g \in Handler \ {h} : extra'[g] = extra[g] /\ writing'[g] = writing[g]
      /\ stray' = stray + Cardinality(writing[h]) /\ open' = open - Len(extra[h])
      /\ writing' \in [Handler -> SUBSET Nat]
    BY DEF TxInv, TxTypeOK, OpenCounted, Clear, CloseFiles
<1>2. 1..Len(extra'[h]) = {}
    BY <1>1
<1>3. Ends' = Ends \ EndsOf(h)
  <2>. SUFFICES ASSUME NEW e PROVE e \in Ends' <=> e \in Ends /\ e \notin EndsOf(h)
      OBVIOUS
  <2>1. ASSUME e \in Ends' PROVE e \in Ends /\ e \notin EndsOf(h)
    <3>1. PICK g \in Handler : \/ \E i \in 1..Len(extra'[g]) : e = <<g, i, "r">>
                               \/ \E i \in writing'[g] : e = <<g, i, "w">>
        BY <2>1, NextEndIs
    <3>2. g # h
        BY <1>1, <1>2, <3>1
    <3>. QED BY <1>1, <3>1, <3>2, EndIs DEF EndsOf, ReadEnds, WriteEnds
  <2>2. ASSUME e \in Ends, e \notin EndsOf(h) PROVE e \in Ends'
    <3>1. PICK g \in Handler : \/ \E i \in 1..Len(extra[g]) : e = <<g, i, "r">>
                               \/ \E i \in writing[g] : e = <<g, i, "w">>
        BY <2>2, EndIs
    <3>2. g # h
        BY <2>2, <3>1 DEF EndsOf, ReadEnds, WriteEnds
    <3>. QED BY <1>1, <3>1, <3>2, NextEndIs
  <2>. QED BY <2>1, <2>2
<1>4. IsFiniteSet(Ends) /\ Cardinality(Ends) \in Nat
    BY FS_CardinalityType DEF OpenCounted
<1>5. Ends \cap EndsOf(h) = EndsOf(h)
    BY DEF Ends
<1>6. IsFiniteSet(Ends') /\ Cardinality(Ends') = Cardinality(Ends) - Cardinality(EndsOf(h))
  <2>1. /\ IsFiniteSet(Ends \ EndsOf(h))
        /\ Cardinality(Ends \ EndsOf(h)) = Cardinality(Ends) - Cardinality(Ends \cap EndsOf(h))
      BY <1>4, FS_Difference
  <2>. QED BY <1>3, <1>5, <2>1
<1>7. Cardinality(Ends') \in Nat
    BY <1>6, FS_CardinalityType
<1>8. /\ Cardinality(writing[h]) \in Nat /\ Len(extra[h]) \in Nat
      /\ Cardinality(EndsOf(h)) = Len(extra[h]) + Cardinality(writing[h])
    BY EndsOfCount DEF TxInv
<1>9. \A g \in Handler : \A i \in writing'[g] : i \in 1..Len(extra'[g])
  <2>. SUFFICES ASSUME NEW g \in Handler, NEW i \in writing'[g] PROVE i \in 1..Len(extra'[g])
      OBVIOUS
  <2>1. g # h
      BY <1>1
  <2>. QED BY <1>1, <2>1 DEF OpenCounted
<1>10. open' = stray' + Cardinality(Ends') /\ stray' \in Nat /\ open' \in Nat
  <2>1. stray \in Nat /\ open \in Nat /\ open = stray + Cardinality(Ends)
      BY DEF OpenCounted
  <2>2. ASSUME NEW o \in Nat, NEW s \in Nat, NEW c \in Nat, NEW e \in Nat, NEW w \in Nat, NEW n \in Nat,
               o = s + c, e = c - (n + w)
        PROVE  o - n = (s + w) + e /\ s + w \in Nat /\ o - n \in Nat
      BY <2>2
  <2>3. Cardinality(Ends') = Cardinality(Ends) - (Len(extra[h]) + Cardinality(writing[h]))
      BY <1>6, <1>8
  <2>4. /\ open - Len(extra[h]) = (stray + Cardinality(writing[h])) + Cardinality(Ends')
        /\ stray + Cardinality(writing[h]) \in Nat /\ open - Len(extra[h]) \in Nat
      BY <1>4, <1>7, <1>8, <2>1, <2>2, <2>3, SMTT(40)
  <2>. QED BY <1>1, <2>4
<1>. QED BY <1>1, <1>6, <1>9, <1>10 DEF OpenCounted

(* The other steps open and close nothing.                                 *)
LEMMA NothingOpened ==
    ASSUME OpenCounted, extra' = extra, writing' = writing, stray' = stray, open' = open
    PROVE  OpenCounted'
<1>1. Ends' = Ends
    BY DEF Ends, EndsOf, ReadEnds, WriteEnds
<1>. QED BY <1>1 DEF OpenCounted

(* Every step keeps the account of the descriptors.                        *)
LEMMA OpenCountedKept ==
    ASSUME TxInv, OpenCounted, [TxNext]_txVars
    PROVE  OpenCounted'
<1>1. CASE UNCHANGED txVars
    BY <1>1, NothingOpened DEF txVars, runnerVars
<1>2. CASE StrayWriterDone
  <2>1. Ends' = Ends
      BY <1>2 DEF StrayWriterDone, Ends, EndsOf, ReadEnds, WriteEnds
  <2>2. Cardinality(Ends) \in Nat
      BY FS_CardinalityType DEF OpenCounted
  <2>. QED BY <1>2, <2>1, <2>2 DEF StrayWriterDone, OpenCounted
<1>3. ASSUME NEW h \in Handler, NEW r \in TxRequests, Receive(h, r)
      PROVE  OpenCounted'
    BY <1>3, NothingOpened DEF Receive, runnerVars
<1>4. ASSUME NEW h \in Handler, NEW result \in {"rpcError", "rpcFailed"}, Malformed(h, result)
      PROVE  OpenCounted'
    BY <1>4, NothingOpened DEF Malformed, runnerVars
<1>5. ASSUME NEW h \in Handler, Runner(h)
      PROVE  OpenCounted'
  <2>1. CASE CreatePipe(h)
      BY <2>1, CreatePipeCounted
  <2>2. CASE PipeFails(h)
      BY <2>2, NothingOpened DEF PipeFails, Exits, runnerVars
  <2>3. CASE StartCommand(h)
      BY <2>3, NothingOpened DEF StartCommand, runnerVars
  <2>4. CASE \E i \in 1..2 : WriterDone(h, i)
      BY <2>4, WriterDoneCounted
  <2>. QED BY <1>5, <2>1, <2>2, <2>3, <2>4 DEF Runner
<1>6. ASSUME NEW h \in Handler, StartFails(h)
      PROVE  OpenCounted'
    BY <1>6, NothingOpened DEF StartFails, Exits, runnerVars
<1>7. ASSUME NEW h \in Handler, Child(h)
      PROVE  OpenCounted'
    BY <1>7, NothingOpened DEF Child, ChildSucceeds, ChildFails, Exits, runnerVars
<1>8. ASSUME NEW h \in Handler, Handles(h)
      PROVE  OpenCounted'
    BY <1>8, ClearCounted DEF Handles, CommandFails, NextCommand, LastCommand
<1>. QED BY <1>1, <1>2, <1>3, <1>4, <1>5, <1>6, <1>7, <1>8 DEF TxNext

(* runCommandWithVirtualFiles: with any number of handlers, and however    *)
(* their commands end, no descriptor stays open once the commands and      *)
(* their writers are done.                                                 *)
THEOREM DescriptorsAreReturned == TxSpec => []DescriptorsReturned
<1>1. TxInit => OpenCounted
  <2>. SUFFICES ASSUME TxInit PROVE OpenCounted
      OBVIOUS
  <2>1. Ends = {}
      BY DEF TxInit, Ends, EndsOf, ReadEnds, WriteEnds
  <2>. QED BY <2>1, FS_EmptySet DEF TxInit, OpenCounted
<1>2. TxInv /\ OpenCounted /\ [TxNext]_txVars => OpenCounted'
    BY OpenCountedKept
<1>3. OpenCounted => DescriptorsReturned
  <2>. SUFFICES ASSUME OpenCounted, \A h \in Handler : extra[h] = <<>>, stray = 0
                PROVE  open = 0
      BY DEF DescriptorsReturned
  <2>1. \A h \in Handler : 1..Len(extra[h]) = {} /\ writing[h] = {}
      BY DEF OpenCounted
  <2>2. Ends = {}
      BY <2>1, EndIs
  <2>. QED BY <2>2, FS_EmptySet DEF OpenCounted
<1>. QED BY <1>1, <1>2, <1>3, TxInvHolds, PTL DEF TxSpec
-----------------------------------------------------------------------------
(* Memos *)

(* A set of natural numbers has a least element: induction over the length *)
(* of a sequence looks for the first index that goes wrong.                *)
LEMMA LeastIndex ==
    ASSUME NEW T, T \subseteq Nat, T # {}
    PROVE  \E x \in T : \A y \in T : x <= y
<1>. DEFINE R == OpToRel(<, Nat)
<1>1. \A x, y \in Nat : x < y => <<x, y>> \in R
    BY DEF OpToRel
<1>2. IsWellFoundedOn(R, Nat)
    BY NatLessThanWellFounded
<1>. HIDE DEF R
<1>3. PICK x \in T : \A y \in T : <<y, x>> \notin R
    BY <1>2, WFMin
<1>4. \A y \in T : ~(y < x) /\ y \in Nat /\ x \in Nat
    BY <1>1, <1>3
<1>5. \A y \in T : x <= y
    BY <1>4
<1>. QED BY <1>5

(* The chunks of a memo: all but the last have ChunkSize runes.            *)
LEMMA ChunkBounds ==
    ASSUME NEW C \in Nat \ {0}, NEW L \in Nat, NEW n, n = (L + C - 1) \div C
    PROVE  /\ n \in Nat /\ L <= n * C
           /\ \A i \in 1..n : /\ (i - 1) * C \in Nat /\ (i - 1) * C < L
                               /\ i * C = (i - 1) * C + C
<1>1. L + C - 1 \in Nat
    OBVIOUS
<1>2. n \in Int /\ n * C <= L + C - 1 /\ L + C - 1 < n * C + C
    BY <1>1
<1>3. n \in Nat /\ L <= n * C
    BY <1>1, <1>2
<1>4. ASSUME NEW i \in 1..n
      PROVE  (i - 1) * C \in Nat /\ (i - 1) * C < L /\ i * C = (i - 1) * C + C
  <2>1. i \in Nat /\ i - 1 \in Nat /\ n - i \in Nat
      BY <1>3
  <2>2. i * C = (i - 1) * C + C /\ (i - 1) * C \in Nat
      BY <2>1
  <2>3. i * C <= n * C
      BY <1>3, <2>1
  <2>. QED BY <1>2, <1>3, <2>1, <2>2, <2>3
<1>. QED BY <1>3, <1>4

(* ChunkString cuts a memo into neighbouring pieces.                       *)
LEMMA ChunksAre ==
    ASSUME NEW memo \in Seq(1..4)
    PROVE  LET chunks == ChunkString(memo) IN
           /\ chunks \in Seq(Seq(1..4))
           /\ Len(memo) <= Len(chunks) * ChunkSize
           /\ \A i \in 1..Len(chunks) :
                 LET low == (i - 1) * ChunkSize
                     high == IF low + ChunkSize > Len(memo) THEN Len(memo) ELSE low + ChunkSize
                 IN  /\ low \in Nat /\ low < Len(memo) /\ i * ChunkSize = low + ChunkSize
                     /\ high \in low..Len(memo)
                     /\ chunks[i] = SubSeq(memo, low + 1, high)
<1>. DEFINE C == ChunkSize
            L == Len(memo)
            n == (L + C - 1) \div C
            chunks == ChunkString(memo)
            high(i) == IF i * C > L THEN L ELSE i * C
<1>1. C \in Nat \ {0} /\ L \in Nat
    BY TxServerAssumption, LenProperties
<1>2. /\ n \in Nat /\ L <= n * C
      /\ \A i \in 1..n : (i - 1) * C \in Nat /\ (i - 1) * C < L /\ i * C = (i - 1) * C + C
    BY <1>1, ChunkBounds
<1>3. chunks = [i \in 1..n |-> SubSeq(memo, (i - 1) * C + 1, high(i))]
    BY DEF ChunkString
<1>. HIDE DEF n, chunks, C, L
<1>4. ASSUME NEW i \in 1..n
      PROVE  /\ high(i) \in ((i - 1) * C)..L
             /\ SubSeq(memo, (i - 1) * C + 1, high(i)) \in Seq(1..4)
  <2>1. high(i) \in ((i - 1) * C)..L
      BY <1>1, <1>2
  <2>2. (i - 1) * C + 1 \in Int /\ high(i) \in Int /\ (i - 1) * C + 1 >= 1
      BY <1>1, <1>2, <2>1
  <2>3. \A j \in ((i - 1) * C + 1)..high(i) : j \in 1..L
      BY <1>1, <2>1, <2>2
  <2>4. \A j \in ((i - 1) * C + 1)..high(i) : memo[j] \in 1..4
      BY <2>3, ElementOfSeq DEF L
  <2>. HIDE DEF high
  <2>. QED BY <2>1, <2>2, <2>4, SubSeqProperties
<1>5. chunks \in [1..n -> Seq(1..4)]
    BY <1>3, <1>4
<1>6. chunks \in Seq(Seq(1..4)) /\ Len(chunks) = n
  <2>1. chunks \in Seq(Seq(1..4))
      BY <1>2, <1>5, SeqDef
  <2>2. Len(chunks) \in Nat /\ 1..Len(chunks) = 1..n
      BY <1>5, <2>1, LenProperties
  <2>. QED BY <1>2, <2>1, <2>2
<1>7. \A i \in 1..n : chunks[i] = SubSeq(memo, (i - 1) * C + 1, high(i))
    BY <1>3
<1>8. \A i \in 1..n : high(i) = IF (i - 1) * C + C > L THEN L ELSE (i - 1) * C + C
    BY <1>2
<1>. QED BY <1>2, <1>4, <1>6, <1>7, <1>8 DEF C, L, n, chunks
(* What MemoOf computes: the last of any joins g of the chunks up to each  *)
(* of them.                                                                *)
LEMMA JoinOfChunks ==
    ASSUME NEW chunks, NEW g, Len(chunks) \in Nat, g = [i \in 0..Len(chunks) |-> g[i]],
           g[0] = <<>>, \A i \in 1..Len(chunks) : g[i] = g[i - 1] \o chunks[i]
    PROVE  MemoOf(chunks) = g[Len(chunks)]
<1>. DEFINE n == Len(chunks)
            join[i \in 0..n] == IF i = 0 THEN <<>> ELSE join[i - 1] \o chunks[i]
<1>1. MemoOf(chunks) = join[n] /\ n \in Nat
    BY DEF MemoOf
<1>2. g = [i \in 0..n |-> g[i]] /\ g[0] = <<>> /\ \A i \in 1..n : g[i] = g[i - 1] \o chunks[i]
    OBVIOUS
<1>. HIDE DEF n
<1>3. \A i \in 0..n : g[i] = IF i = 0 THEN <<>> ELSE g[i - 1] \o chunks[i]
  <2>1. \A i \in 0..n : i = 0 \/ i \in 1..n
      BY <1>1
  <2>. QED BY <1>2, <2>1, Zenon
<1>4. g = [i \in 0..n |-> IF i = 0 THEN <<>> ELSE g[i - 1] \o chunks[i]]
    BY <1>2, <1>3
<1>5. join = [i \in 0..n |-> IF i = 0 THEN <<>> ELSE join[i - 1] \o chunks[i]]
    BY <1>4, Zenon
<1>. HIDE DEF join
<1>6. \A i \in 0..n : join[i] = IF i = 0 THEN <<>> ELSE join[i - 1] \o chunks[i]
    BY <1>5, Zenon
<1>. DEFINE T == {i \in 0..n : join[i] # g[i]}
<1>7. T = {}
  <2>1. SUFFICES ASSUME T # {} PROVE FALSE
      OBVIOUS
  <2>2. PICK k \in T : \A j \in T : k <= j
    <3>1. T \subseteq Nat
        BY <1>1
    <3>. HIDE DEF T
    <3>. QED BY <2>1, <3>1, LeastIndex
  <2>3. k # 0
      BY <1>1, <1>2, <1>6
  <2>4. k \in 0..n /\ k - 1 \in 0..n /\ ~(k <= k - 1)
      BY <1>1, <2>3
  <2>5. join[k - 1] = g[k - 1]
      BY <2>2, <2>4
  <2>6. join[k] = g[k]
      BY <1>3, <1>6, <2>3, <2>4, <2>5, Zenon
  <2>. QED BY <2>2, <2>6
<1>8. join[n] = g[n]
  <2>1. n \in 0..n
      BY <1>1
  <2>. QED BY <1>7, <2>1
<1>. QED BY <1>1, <1>8 DEF n

(* txResponse reads back the memo that ChunkString was given.              *)
LEMMA ChunksJoin ==
    ASSUME NEW memo \in Seq(1..4)
    PROVE  MemoOf(ChunkString(memo)) = memo
<1>. DEFINE chunks == ChunkString(memo)
            L == Len(memo)
            C == ChunkSize
            low(i) == (i - 1) * C
            high(i) == IF low(i) + C > L THEN L ELSE low(i) + C
            cut(i) == IF i = 0 THEN 0 ELSE high(i)
<1>1. /\ chunks \in Seq(Seq(1..4)) /\ L <= Len(chunks) * C
      /\ \A i \in 1..Len(chunks) : /\ low(i) \in Nat /\ low(i) < L /\ i * C = low(i) + C
                                   /\ high(i) \in low(i)..L
                                   /\ chunks[i] = SubSeq(memo, low(i) + 1, high(i))
    BY ChunksAre
<1>2. C \in Nat \ {0} /\ L \in Nat
    BY TxServerAssumption, LenProperties
<1>. HIDE DEF chunks, L, C
<1>3. Len(chunks) \in Nat
    BY <1>1, LenProperties
<1>. DEFINE n == Len(chunks)
            g == [i \in 0..n |-> SubSeq(memo, 1, cut(i))]
<1>4. g[0] = <<>>
  <2>1. SubSeq(memo, 1, 0) = <<>>
      BY SubSeqEmpty
  <2>. QED BY <1>3, <2>1
<1>5. ASSUME NEW k \in 1..n PROVE g[k] = g[k - 1] \o chunks[k]
  <2>1. k \in 0..n /\ k - 1 \in 0..n /\ k # 0
      BY <1>3
  <2>2. g[k] = SubSeq(memo, 1, cut(k)) /\ g[k - 1] = SubSeq(memo, 1, cut(k - 1))
      BY <2>1, Zenon
  <2>3. cut(k - 1) = low(k)
    <3>1. CASE k - 1 = 0
      <4>1. 0 * C = 0
          BY <1>2
      <4>. QED BY <3>1, <4>1
    <3>2. CASE k - 1 # 0
      <4>1. k - 1 \in 1..n
          BY <2>1, <3>2
      <4>2. (k - 1) * C = low(k - 1) + C /\ low(k) < L
          BY <1>1, <4>1
      <4>. QED BY <1>2, <3>2, <4>2
    <3>. QED BY <3>1, <3>2
  <2>4. low(k) \in Nat /\ low(k) < L /\ high(k) \in low(k)..L
      BY <1>1
  <2>5. chunks[k] = SubSeq(memo, low(k) + 1, high(k))
      BY <1>1
  <2>. HIDE DEF low, high, g
  <2>6. SubSeq(memo, 1, low(k)) \o SubSeq(memo, low(k) + 1, high(k)) = SubSeq(memo, 1, high(k))
    <3>1. 1 \in 1..(L + 1) /\ low(k) \in (1 - 1)..L /\ high(k) \in low(k)..L
        BY <1>2, <2>4
    <3>. QED BY <3>1, ConcatAdjacentSubSeq DEF L
  <2>7. cut(k) = high(k)
      BY <2>1
  <2>. QED BY <2>2, <2>3, <2>5, <2>6, <2>7
<1>6. MemoOf(chunks) = g[n]
  <2>1. g = [i \in 0..n |-> g[i]]
      OBVIOUS
  <2>. HIDE DEF g
  <2>. QED BY <1>3, <1>4, <1>5, <2>1, JoinOfChunks
<1>7. g[n] = SubSeq(memo, 1, cut(n))
  <2>1. n \in 0..n
      BY <1>3
  <2>. QED BY <2>1, Zenon
<1>8. cut(n) = L
  <2>1. CASE n = 0
    <3>1. 0 * C = 0
        BY <1>2
    <3>. QED BY <1>1, <1>2, <2>1, <3>1
  <2>2. CASE n # 0
    <3>1. n \in 1..n
        BY <1>3, <2>2
    <3>2. n * C = low(n) + C /\ low(n) \in Nat /\ L <= n * C
        BY <1>1, <3>1
    <3>3. L <= low(n) + C /\ cut(n) = high(n)
        BY <2>2, <3>2
    <3>. HIDE DEF low, n
    <3>. QED BY <1>2, <3>2, <3>3
  <2>. QED BY <2>1, <2>2
<1>. QED BY <1>6, <1>7, <1>8, SubSeqFull DEF n, L, chunks

(* Runes of one byte each: a chunk has as many bytes as runes.             *)
LEMMA BytesOfPlainRunes ==
    ASSUME NEW chunk, Len(chunk) \in Nat, \A i \in 1..Len(chunk) : chunk[i] = 1
    PROVE  Bytes(chunk) = Len(chunk)
<1>. DEFINE n == Len(chunk)
            g == [i \in 0..n |-> i]
            bytes[i \in 0..n] == IF i = 0 THEN 0 ELSE bytes[i - 1] + chunk[i]
<1>1. Bytes(chunk) = bytes[n] /\ n \in Nat
    BY DEF Bytes
<1>2. g = [i \in 0..n |-> g[i]] /\ g[0] = 0 /\ \A i \in 1..n : g[i] = g[i - 1] + chunk[i]
    BY <1>1
<1>. HIDE DEF n, g
<1>3. \A i \in 0..n : g[i] = IF i = 0 THEN 0 ELSE g[i - 1] + chunk[i]
  <2>1. \A i \in 0..n : i = 0 \/ i \in 1..n
      BY <1>1
  <2>. QED BY <1>2, <2>1, Zenon
<1>4. g = [i \in 0..n |-> IF i = 0 THEN 0 ELSE g[i - 1] + chunk[i]]
    BY <1>2, <1>3
<1>5. bytes = [i \in 0..n |-> IF i = 0 THEN 0 ELSE bytes[i - 1] + chunk[i]]
    BY <1>4, Zenon
<1>. HIDE DEF bytes
<1>6. \A i \in 0..n : bytes[i] = IF i = 0 THEN 0 ELSE bytes[i - 1] + chunk[i]
    BY <1>5, Zenon
<1>. DEFINE T == {i \in 0..n : bytes[i] # g[i]}
<1>7. T = {}
  <2>1. SUFFICES ASSUME T # {} PROVE FALSE
      OBVIOUS
  <2>2. PICK k \in T : \A j \in T : k <= j
    <3>1. T \subseteq Nat
        BY <1>1
    <3>. HIDE DEF T
    <3>. QED BY <2>1, <3>1, LeastIndex
  <2>3. k # 0
      BY <1>1, <1>2, <1>6
  <2>4. k \in 0..n /\ k - 1 \in 0..n /\ ~(k <= k - 1)
      BY <1>1, <2>3
  <2>5. bytes[k - 1] = g[k - 1]
      BY <2>2, <2>4
  <2>6. bytes[k] = g[k]
      BY <1>3, <1>6, <2>3, <2>4, <2>5, Zenon
  <2>. QED BY <2>2, <2>6
<1>8. bytes[n] = g[n]
  <2>1. n \in 0..n
      BY <1>1
  <2>. QED BY <1>7, <2>1
<1>9. g[n] = n
    BY <1>1 DEF g
<1>. QED BY <1>1, <1>8, <1>9 DEF n

(* The chunks of a memo of one-byte runes have at most ChunkSize bytes.    *)
LEMMA PlainChunksFit ==
    ASSUME NEW memo \in Seq(1..4), \A i \in DOMAIN memo : memo[i] = 1
    PROVE  Fits(ChunkString(memo))
<1>. DEFINE chunks == ChunkString(memo)
            L == Len(memo)
            C == ChunkSize
            low(i) == (i - 1) * C
            high(i) == IF low(i) + C > L THEN L ELSE low(i) + C
<1>1. /\ chunks \in Seq(Seq(1..4))
      /\ \A i \in 1..Len(chunks) : /\ low(i) \in Nat /\ low(i) < L
                                   /\ high(i) \in low(i)..L
                                   /\ chunks[i] = SubSeq(memo, low(i) + 1, high(i))
    BY ChunksAre
<1>2. C \in Nat \ {0} /\ L \in Nat /\ DOMAIN memo = 1..L
    BY TxServerAssumption, LenProperties
<1>3. DOMAIN chunks = 1..Len(chunks)
    BY <1>1, LenProperties
<1>. HIDE DEF chunks, L, C
<1>4. ASSUME NEW i \in 1..Len(chunks) PROVE Bytes(chunks[i]) <= C
  <2>1. low(i) \in Nat /\ high(i) \in low(i)..L /\ chunks[i] = SubSeq(memo, low(i) + 1, high(i))
      BY <1>1
  <2>2. high(i) - low(i) \in 0..C
      BY <1>2, <2>1
  <2>. HIDE DEF low, high
  <2>3. low(i) + 1 \in Int /\ high(i) \in Int /\ low(i) + 1 >= 1
      BY <1>2, <2>1
  <2>4. \A j \in (low(i) + 1)..high(i) : j \in 1..L
      BY <1>2, <2>1, <2>3
  <2>5. \A j \in (low(i) + 1)..high(i) : memo[j] \in 1..4
      BY <2>4, ElementOfSeq DEF L
  <2>6. /\ SubSeq(memo, low(i) + 1, high(i)) \in Seq(1..4)
        /\ Len(SubSeq(memo, low(i) + 1, high(i))) =
               IF low(i) + 1 <= high(i) THEN high(i) - (low(i) + 1) + 1 ELSE 0
        /\ \A j \in 1..(high(i) - (low(i) + 1) + 1) :
               SubSeq(memo, low(i) + 1, high(i))[j] = memo[low(i) + 1 + j - 1]
      BY <2>3, <2>5, SubSeqProperties
  <2>7. Len(chunks[i]) = high(i) - low(i) /\ Len(chunks[i]) \in 0..C
      BY <1>2, <2>1, <2>2, <2>6
  <2>8. ASSUME NEW j \in 1..Len(chunks[i]) PROVE chunks[i][j] = 1
    <3>1. low(i) + 1 + j - 1 \in 1..L /\ j \in 1..(high(i) - (low(i) + 1) + 1)
      <4>1. \A a, b, l, x \in Int : 0 <= a /\ b <= l /\ 1 <= x /\ x <= b - a
                => a + 1 + x - 1 \in 1..l /\ x \in 1..(b - (a + 1) + 1)
          OBVIOUS
      <4>2. j \in 1..(high(i) - low(i))
          BY <2>7
      <4>3. /\ low(i) \in Int /\ high(i) \in Int /\ L \in Int
            /\ 0 <= low(i) /\ high(i) <= L
          BY <1>2, <2>1
      <4>4. j \in Int /\ 1 <= j /\ j <= high(i) - low(i)
          BY <4>2, <4>3
      <4>. QED BY <4>1, <4>3, <4>4
    <3>2. SubSeq(memo, low(i) + 1, high(i))[j] = memo[low(i) + 1 + j - 1]
        BY <2>6, <3>1
    <3>3. memo[low(i) + 1 + j - 1] = 1
        BY <1>2, <3>1
    <3>. QED BY <2>1, <3>2, <3>3
  <2>9. Len(chunks[i]) \in Nat
      BY <1>2, <2>7
  <2>10. Bytes(chunks[i]) = Len(chunks[i])
      BY <2>8, <2>9, BytesOfPlainRunes
  <2>. QED BY <1>2, <2>7, <2>10
<1>. QED BY <1>3, <1>4 DEF Fits, C, chunks

(* The memo of a transaction is read back as it was given, and one of      *)
(* single-byte runes is never refused for the size of its chunks: for      *)
(* memos of every length and every chunk size.                             *)
THEOREM MemosAreKept == TxSpec => []MemoKept
<1>1. TxInv => MemoKept
  <2>1. SUFFICES ASSUME TxInv, NEW h \in Handler
                 PROVE  LET memo == req[h].memo IN
                        /\ MemoOf(ChunkString(memo)) = memo
                        /\ (\A i \in DOMAIN memo : memo[i] = 1) => Fits(ChunkString(memo))
      BY DEF MemoKept
  <2>2. req[h] \in RequestType
      BY <2>1 DEF TxInv, TxTypeOK
  <2>3. req[h].memo \in Memo \cup {<<>>}
      BY <2>2 DEF RequestType
  <2>4. <<>> \in Seq(1..4)
      OBVIOUS
  <2>5. PICK memo \in Seq(1..4) : memo = req[h].memo
      BY <2>3, <2>4, MemoAssumption, Zenon
  <2>. QED BY <2>5, ChunksJoin, PlainChunksFit
<1>. QED BY <1>1, TxInvHolds, PTL
=============================================================================
