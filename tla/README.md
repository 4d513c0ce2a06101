# A TLA+ development for cardano-go

cardano-go follows a Cardano node, keeps an index of the node's chain in SQLite
(block heights and the height of every transaction) and answers HTTP requests
from that index. The modules here model that core: the node, the chain-sync
callbacks, the block processor and its goroutines, the database, the shared
block-fetch client and the request handlers that read the index. Around the core
are the handlers that build, sign and broadcast transactions with `cardano-cli`,
and the parts of the package that stand by themselves: the message reader,
segments and protocol tables, addresses, a binary search and a periodic caller.
TLC checks all of them on small instances and TLAPS proves the most important
results for every instance.

The repository has no documentation of its own; what the program promises is
read from its comments, log lines and tests. Paths below are relative to `src/`.

## 1. Inventory

| part | state | operations | hard behaviour |
|---|---|---|---|
| client, `client.go` | buffered headers `points`, `tipReached`, the connections | `Start`, `followChain`, `onRollForwards`, `onRollBackwards`, `Stop`, block and UTxO queries | callbacks of one protocol goroutine beside processing and requests; no reconnect; `log.Fatal` on a failing write |
| block processor, `block_processor.go` | `highestPoint`, `blockChan`, `isProcessing`, `processingMutex`; two goroutines and three channels per batch | `TryProcessBlocks`, `processBlocks`, `onBlock`, `onBatchDone`, `HandleRollback` | goroutines that outlive their pass and use the field `blockChan`; a select between done and error; dropped triggers |
| database, `db_sqlite.go` | tables `point`, `point_rollback`, `tx`; an SQL transaction that may stay open | updates `AddPoints`, `SetPointHeights`, `AddTxsForBlock`, `HandleRollback`; queries | each method is atomic, sequences of them are not; crash between two updates |
| block-fetch client (vendored gouroboros) | `busyMutex`, `blockUseCallback`, result channels, protocol state | `GetBlock`, `GetBlockRange` and the message handlers | one connection shared by processor and request handlers; a mutex freed by another goroutine |
| chain-sync client, protocol loops (vendored) | protocol state, send queue | `Sync`, message handlers, send loop | message order, shutdown |
| RPC server, `cmd/rpc/http.go` | none of its own | routes for blocks, transactions, UTxOs, status; building, signing and broadcasting transactions | several reads and a request to the node per answer, while the index moves |
| command runner, `cmd/rpc/cmd.go` | a pool of numbers per command, pipes, a goroutine per file | `runCommandWithVirtualFiles` | numbers that must agree with positions, writers that outlive their command, every early return closes what was opened |
| RPC client, `rpcclient/` | none | one method per route | what it makes of a status and a body |
| message reader, `message.go` | partial header, payload, batch buffer, `batching` | `Read`, `nextMessages`, `nextBlocks` | reassembly from reads and segments of any size |
| segments and protocol tables, `segment.go`, `protocol.go` | messages, payload; the instances in the table | `AddMessage`, `MarshalDataItem`, `Messages` | three tables that must agree, shared instances, a 16-bit length |
| addresses and networks, `address.go`, `network.go` | none | encode, decode, header bits | a prefix that two networks share |
| utilities, `util.go` | `PeriodicCaller`: last call, stop flag and channel | `Postpone`, `Start`, `Stop`; `BinarySearchCallback`; `ChunkString` | several loops and callers on one timer; unsigned bounds that wrap; runes and bytes |
| blocks, message types, eras, errors, logging, address tools | none | CBOR layout, constants, command lines | none |

How they interact. The node sends roll-forward and roll-backward messages; the
client buffers headers, writes them to `point` with height -1 and triggers the
processor. A pass of the processor cuts a batch out of the pending points, at
most `BlockBatchSize` of them and never the last `ReorgWindow`, requests the
range from the node, numbers the blocks as they arrive, and stores first the
heights, then the transactions. A roll backward deletes rows. The request
handlers read the tables and fetch blocks through the same block-fetch client.
The transaction handlers share nothing with these but the process: they run
`cardano-cli`, which talks to the node by itself. `MessageReader`, `Segment`,
`PeriodicCaller` and `BinarySearchCallback` have no caller in the program; they
are the package's interface for other programs, and are modelled as such.

What makes it correct: a stored height is the block's height on its chain; the
processed blocks are one chain without gaps; a recorded transaction is in the
processed block at the recorded height, and what is processed is recorded; a
caller of the block-fetch client gets its own blocks; an answer of the server is
true of the chain; a pass ends, and the processor keeps up with the node. A
signature is over the request's own files; success is reported for a broadcast
only if the node took it, and once; pipes are closed again; every request is
answered. Messages come out of the reader in order and once.

## 2. Modules

    ChainData ── PointDb ──┬── BlockProcessor ──┐
                           └── ChainIndex ──────┴── Follower ── MCFollower
                                   │                   └── FollowerProofs
                                   │                          └── FollowerIndexProofs ── FollowerForkProofs
                                   ├── ChainIndexProofs ──────────┘
                                   └── RpcServer ── MCRpcServer
                                           └── RpcServerProofs (extends ChainIndexProofs, too)
    BlockFetchClient ── MCBlockFetchClient, BlockFetchClientProofs
    TxServer ── MCTxServer, TxServerProofs
    MessageReader (implements MessageChannel) ──┐
    Segment, Address ───────────────────────────┼── MCLibrary
    BinarySearch, PeriodicCaller ───────────────┘
          └── LibraryProofs (extends all of these)

**ChainData** is the constant block tree: parents, chains, slots, heights,
transactions. A block stands for its hash. `Boundary` are the Byron epoch
boundary blocks, which have the slot of their successor and, except for the
first block of all, its height. The named assumptions say what a tree is.
`ChainAssumption` and `GrowthAssumption` follow from the others by induction
along the chain; they are stated as assumptions, and TLC evaluates them on every
instance.

**PointDb** is `db_sqlite.go`. A table is a function from its key to the stored
height, with `Absent` for no row and `Unprocessed` (-1) for the column default.
Every method holds `mu`, so a query is an operator on the tables and an update
is one step. Kept from the code because properties depend on it: a row of height
-1 cannot be scanned into a `uint64`, so `GetPointByHash` and
`GetBoundaryPointBehind` fail where they find one; the plain INSERTs fail on an
existing key; a failing `AddTxsForBlock` leaves its SQL transaction open
(`leaked`), after which every write fails; `ORDER BY slot` leaves open which of
two rows with equal slots on different forks comes first (`PendingAt`). On one
chain only a boundary block has the slot of another block, its successor, and of
such two the row inserted first comes first. INSERT OR REPLACE gives a row that is
delivered again a new place, so a boundary block can then stand behind its
successor, which is `early` (`RowsEarly`, a variable of BlockProcessor beside the
tables).

**BlockProcessor** is `block_processor.go` with its use of the block-fetch
client. `pc` is the place of the goroutine of `TryProcessBlocks`. The goroutines
and channels of one batch are a generation `g`; `cur` is the generation whose
channel the field `bp.blockChan` names. A fetcher that outlives its pass closes
the channel of `cur`, a consumer picks up the channel of `cur` when it first
runs, and the node's callbacks fill the channel of `cur`: these are the races of
the code. `StartBatch` takes any free generation, so `Gen` bounds how many
batches overlap. The two SQL transactions at the end of a batch are two actions,
`TakeDone` and `StoreTxs`.

**Follower** composes the processor and the database with the chain-sync
callbacks, the life of the process and the node. The node is external: it moves
its tip along the tree, tells the client, and serves a range when it lies on its
chain; one on an abandoned fork it may serve or refuse. `Crash` may happen at any
step, `ConnectionDrops` too; nothing reconnects, as in the code. `Panic` stands for
the run-time panics of the model (a closed channel, an index out of range).
`GetHeight` reads `highestPoint` without a lock. That is a record whose
fields are read one by one, so what it may answer during a step that writes the
record is every mixture of the old and the new fields (`GetHeightAnswers`).

**ChainIndex** is the abstract specification of the index: points are learnt,
a run of pending points that continues the processed chain gets its heights,
transactions of processed blocks are recorded, rows are rolled back, the file is
opened again. It has no goroutines, channels or node. Its variables are those of
PointDb, which Follower shares, so the refinement mapping is the identity.

**RpcServer** follows one request through its handler beside the steps of
ChainIndex. A handler's reads are separate steps: `getTransactionBlock` reads
`tx`, then `point`, then (inside `Client.GetBlockByHeight`) `point` again, then
asks the node. Handlers share nothing but the block-fetch client, whose answers
are right by `OwnBlock`, so one request at a time is enough. A Byron block does
not know its height and gets that of the point. Requests carry well-formed
parameters. A transaction's absence and a missing row are one state `notFound`; a
failure of the node is `nodeError`.

**BlockFetchClient** is the vendored client as this program shares it: callers
of `GetBlock` and one caller of `GetBlockRange`, `busyMutex`, the callback flag,
the send queue and the protocol state. The queue holds `QueueSize` messages;
`SendMessage` is a step after the one that takes the mutex and the state, and it
waits while the queue is full, which can only happen once the connection has closed
and nobody drains the queue. Results travel on unbuffered channels, so
a message and its receipt are one step. `Follower` has a simpler view of the
same client (`bf`), without other callers: that each caller gets its own blocks
is what BlockFetchClient shows, and a wait for the mutex is a delay in Follower.

**TxServer** is the other half of `http.go` with `cmd.go` and the client's view
of the answer. Each handler serves one request: pipes are made one by one
(`CreatePipe`), each with a goroutine that writes (`writing`), then the child runs,
then the deferred calls close the read ends (`CloseFiles`); a writer of a command
that is over is a `stray`. The child has the pipes at 3, 4, ... in the order of
`ExtraFiles` and looks for its files at the numbers the pool gave out, so `Read` is
computed and not assumed. `os.Pipe`, the start and the child can fail, the child
also after the node has accepted. `cardano-cli` may write a warning: standard
error is joined to the output, so the parsers find no transaction in it and the
request goes on with nothing, as in the code. Memos are sequences of the byte
widths of their runes, which is all that `ChunkString` and the ledger's limit
look at. `cardano-cli`, the node behind it and the framework are external.

**MessageReader** is `message.go`, one step per iteration of its three loops. A
byte is a pair of its message and its place in it, so that lost, doubled and
mixed bytes show. `WireAssumption` says what a node may send: segments of messages
that follow one another, where segments of other protocols may come between those
of one message; the bytes of a message are in order, none comes twice and no message
is left out. `nextBlocks` tells blocks and BatchDone by their first two bytes
(`StartsWith`), which may be bytes of two messages when a segment of another
protocol cuts in. **MessageChannel** is what such a reader promises; the reader
is shown to implement it, with `failed` mapped to its three ways to fail.

**Segment** holds the three tables of `protocol.go` as the code has them, with
the difference between what can be sent and what can be read, and the instances
that the table hands out as state. **Address** is the header byte, bit by bit,
with encoding, prefixes and what `ParseBech32String` looks at. **BinarySearch**
has the bounds wrap at `MaxUint`. **PeriodicCaller** keeps of a time only its
age, up to the interval.

Ghost variables record what the code does not: `declined` (a trigger was dropped
since the points were last read), `raced` (a channel was used by a batch it was
not made for, a failed fetch was taken as done, or a batch with a block that has
no row), `torn` (heights stored,
transactions lost), and in RpcServer `rolled`, `seen`, `known` (what happened to
the index, and what it held, since the request came in), in TxServer `confirmed`,
in MessageReader `overrun` and `dropped`, in PeriodicCaller `since` and `calls`. No
guard reads them.

Definitions that begin with "Faulty variant" in their comment are not part of
the specifications. Each changes one definition the way a plausible bug would,
and some property must then fail.

## 3. Runs

| run | instance | checks |
|---|---|---|
| `line` | five blocks on one chain, batches of 2, window 1, three starts, the connection may drop, fair | `TypeOK`, `HeightTrue`, `TxComplete`, `NoPanic`, `ConfirmedWhenProcessed`, `IndexSpec`, `HeightAnswered`, `ProcessorReturns`, `TrailsByWindow` |
| `fork` | two forks with interleaved slots and a transaction in both, two reorganisations | `OneChainUnlessRaced`, `TxBackedUnlessRaced`, `IndexStepsUnlessRaced` |
| `byron` | ten blocks in three Byron epochs, batches of 3, window 3, two starts, the connection may drop | `HeightTrue` |
| `rpc` | four blocks in two eras, a boundary block, a fork with a block of equal height | `IndexInv`, `AnswerHoldsTx`, `AnswerHeight`, `LatestNotBehind`, `NoSpuriousMiss`, `ListedConfirmed` |
| `fetch` | processor and two handlers, three blocks, the connection may close, fair | `OwnBlock`, `OwnCallback`, `WholeBatch`, `CallReturnsWhileOpen` |
| `commands` | two handlers, two transactions, four memos, five descriptors, fair | `OkMeansAccepted`, `ConfirmedOnce`, `SignsOwn`, `DescriptorsReturned`, `MemoKept`, `RequestAnswered` |
| `library` | each part by itself: streams with their cuts into segments and reads, segments of two messages, every type and network of address, every search over 0..7, two loops and an interval of 3 | `Conserved`, `HeaderInPieces`, `RegularIsRead`, `ChannelSpec`, `SegmentRoundTrip`, `AddressRoundTrip`, `SearchCorrect`, `SearchEnds`, `SpacedCalls`, `DueIsCalled`, `LoopsEnd` |

`line` shows that with a node that only grows, crashes at any step and a lost
connection do no harm to the index: every step of the follower is a step of the
abstract index (`IndexSpec`), so whatever holds of ChainIndex holds of the
follower there: with `IndexCorrect` (below) also `NoGaps` and `TxBacked`. While
the connection is open, every pass ends and the processor comes to rest at most
the window behind the node. A torn `GetHeight` never names what is not
processed. The one gap is `TxComplete`'s exception, a batch the process died
in. `fork` shows the same of single steps when the node reorganises, as long as
`raced` is false; once two batches have mixed, or heights were set for a block
whose row is gone, nothing is claimed. `byron` shows that boundary blocks at the
beginning of the chain and inside a batch are numbered right, also after a crash,
and that rows which are delivered again, and so change places, do no harm as long
as no batch is cut between them. `rpc` shows
that batches between a handler's reads do no harm and says exactly which
answers a rollback between them can spoil. `commands` shows that commands that run
at the same time do not mix their files, that failures at any step leave no
descriptor open, and that a broadcast which the node took may be reported as
failed (the hash is asked for by a second command), but never the other way
round. `library` shows that the reader delivers messages in order and once on
every stream, drops bytes only behind a BatchDone, and which streams it reads to
the end (`Regular`).

Five runs are expected to fail; each is a disagreement between what a comment or
log line says and what the code does.

| run | what the counterexample shows |
|---|---|
| `byron_edge` | a boundary block that ends a batch becomes `highestPoint` and is counted by the next batch, of the same process: all later heights are one too high |
| `rollback_point` | a rollback deletes the row of the point it rolls back to, whose header does not come again |
| `torn_batch` | a crash between the two SQL transactions leaves processed blocks whose transactions are never recorded, and their outputs are filtered out |
| `fork_stall` | a reorganisation above the processed blocks leaves an orphan among the pending points; when it is the last point of a batch, the node refuses the range, in every later pass, too |
| `fetch_hang` | a connection closed during a batch leaves `busyMutex` locked and the next call never returns |

Seen in the models and not given a run: with window 0 an empty table makes
`points[0]` panic; when a range request fails, the closed channel can win the
select and an empty batch ends as done, which empties `highestPoint`; the window
counts orphans; where a boundary block is read after its successor (`early`), a batch
can end with the boundary block, one block closer to the tip than the window
allows, or begin with the successor, which does not follow the processed chain;
with reorganisations a leftover stream or fetcher meets a closed
channel and the process panics (`Panic` fires in `fork`); a second rollback also
deletes transactions at the heights an earlier one logged, so `TxComplete` is not
claimed with reorganisations; a range that spans the point of an earlier rollback,
whose row is deleted (`rollback_point`), delivers a block without a row, for which
`SetPointHeights` updates nothing, while its transactions are recorded; and where
two forks begin with different first blocks, a rollback of everything followed by
a restart numbers the first block of the next batch 0 whatever its parent is, as
the previous hash is only compared from height 1 on. The empty batch and the block
without a row set `raced` in `fork`; in `line` the first can happen only after the
connection is lost, when no further batch comes, and the second not at all. The
last is why the theorems about forks assume one first block, which the Cardano
networks have. In the block-fetch client, a call after the connection has closed can
wait for ever for a place in the full send queue, with the mutex held.

In the handlers: an accepted broadcast is answered with 500 when the second
command fails, and a retry is then refused by the node; with a wrong content type
the handler sends 400 and still runs its commands on an empty request; a signing
command that also warns can be answered with 200 and no transaction; chunks are
counted in runes while the ledger's limit is in bytes, so a memo of wide runes is
refused (`MemoKept` promises only single-byte ones); `RpcError` has no JSON tag
for the name the client reads, so its message is empty there.

In the library: a header that comes in pieces is read only if no read of at most
eight bytes that begins inside it, or right behind it, goes past its end
(`overrun`), else the reader keeps more than a header, returns nothing more, and the
next longer read has a negative slice index; what follows a BatchDone in the joined bytes is dropped, so the check
for remaining bytes never fires; a BatchDone in the segment of its StartBatch is
seen only with the next segment, which is lost; a block cut after its first byte
is an error; a segment of another protocol inside a batch garbles a block; two
decoded messages of one type are one instance; marshalling twice duplicates the
messages, and the length is truncated to 16 bits; a mainnet address is accepted on
preprod, as only the prefix is compared. The exceptions written into the
properties are these cases and no others.

### Bounds

`BlockBatchSize` 2 and `ReorgWindow` 1 are the smallest values for which a batch
has a first, a last and a following block and the window matters. Five blocks
give two full batches and a remainder, so a batch can start after another, after
a crash, or while goroutines of the last one are alive. Two generations let one
batch's goroutines outlive into the next; a third would need two passes to fail
while goroutines of both are still unscheduled. Two reorganisations take the node
to the other fork and back, which is the least for a point to be rolled back
twice. `byron` needs batches of 3 so that a boundary block is inside a batch; `byron_edge`
has batches of 2, which puts it last. The window of 3 in `byron` holds the third
boundary block and its successor, so that no batch ends with it; after a restart
all headers come again, and the third flush ends with the boundary block while the
row of its successor is there, which puts that row first. In `rpc` the boundary block, its successor and the
fork's block have one height, so a lookup by height can go wrong. No run uses
symmetry. `MaxStarts`, `MaxReorgs`, `Gen` and the tree itself are all the bounds
of the follower.

In `fetch`, `QueueSize` 1 is enough while the connection is open, as the holder of
the mutex sends one request; after it has closed, a call can find the queue full. In
`fetch_hang` it is 2, so that it is the mutex the next call waits for.

In `commands`, `MaxRequests` 2 lets two requests run side by side or one retry the
other. `MaxDescriptors` 5 holds two pipes and a half, so that the second command
runs short while the first one has its files, with a descriptor left over or a
writer still holding one. `ChunkSize` 2 with memos of 0, 2 and 3 runes gives no
chunk, a full one, and a short last one; one memo has a rune of two bytes. In
`library`, a block of 4 bytes can be cut before, at and after the two bytes that
tell its kind, streams have up to three cuts, and every division of the bytes
into reads is tried. In two more streams a segment of another protocol comes inside
a block and between the two bytes of a BatchDone. `PayloadSpan` 4 with `MaxMessages` 2 and `MaxMarshals` 2
lets a doubled payload overflow its field and a single one fit. `MaxUint` 7 has
every range and target, outside targets included. `Interval` 3 lets the phases
of two loops differ. The parts of `library` share nothing, so a behaviour runs
one of them.

Deadlock is checked in `rpc`. In the follower's runs the system may stop: the
node's tree ends, the process may be down after its last start. In `fetch` and
`fetch_hang` a caller waits for ever once the connection has closed. In `commands`
the requests end, and in `library` the bytes and the search do; that nothing
stops too early is said there by `RequestAnswered`, `RegularIsRead` and
`SearchEnds`.

### Fairness

`FairSpec` of Follower: weak fairness for each goroutine (the pass, each fetcher,
each consumer), for the node's answers with the callbacks that handle them
(`ChainSync`, `BlockFetch`), and for `Start`. Go schedules runnable goroutines
and a live node answers. Nothing is assumed of the node's growth, of reorganisations, of
crashes or of the connection, which may or may not happen. In BlockFetchClient, `Lock` has strong
fairness: a `sync.Mutex` goes over to its starvation mode and hands itself to the
longest waiter, so a caller is not passed over for ever; `SendMessage` has weak fairness, as one caller at a time is there. `TrailsByWindow` excepts
`declined`: a trigger that arrives after the last read of a pass and before the
pass ends is dropped, and nothing repeats it until the next header.

In TxServer, weak fairness for the handler, for its writers and for the child
once all its input is written: goroutines are scheduled, and `cardano-cli` ends
when it has its input. Nothing is assumed of requests or failures. In BinarySearch
the loop runs; in PeriodicCaller time passes and the loops are scheduled. Message
reader, segments and addresses need none: no liveness is claimed of them.

## 4. Proofs

| module | theorem | result |
|---|---|---|
| FollowerProofs | `TypeInvHolds`, `TypeCorrect` | type correctness of the whole follower |
| ChainIndexProofs | `IndexCorrect` | `IndexSpec => []IndexInv` |
| FollowerIndexProofs | `FollowerImplementsIndex`, `SteadyHeightTrue`, `SteadyTxComplete`, `SteadyNoPanic`, `SteadyConfirmed`, `SteadyHeightAnswered`, `NumberedChainsAreIndexed` | the follower implements ChainIndex, and everything `line` and `byron` check but liveness, if `SteadyNode`, as long as no batch is cut between rows out of order or ends with a boundary block (`WellCut`) |
| FollowerForkProofs | `ForkIndexSteps`, `ForkOneChain`, `ForkTxBacked`, `ForkHeightTrue` | with reorganisations, until a batch has raced, if `OneRoot` |
| RpcServerProofs | `RpcInvHolds`, `TxAnswersAreRight`, `HeightsAnsweredAreTrue`, `LatestIsNotBehind`, `RecordedIsFound`, `ListedIsConfirmed` | the answers of the handlers |
| TxServerProofs | `TxInvHolds`, `SignaturesAreOwn`, `SuccessIsTrue`, `SuccessIsReportedOnce`, `DescriptorsAreReturned`, `MemosAreKept` | what the transaction handlers report, open and write |
| LibraryProofs | `SearchInvHolds`, `SearchIsCorrect`, `CallsAreSpaced`, `HeadersAreJoined`, `ReaderIsAChannel`, `PayloadIsConserved`, `RegularStreamsAreRead`, `SegmentsAreReadBack`, `AddressesAreReadBack` | the binary search, the periodic caller, the message reader, segments, addresses |
| BlockFetchClientProofs | `InvHolds`, `TypeCorrect`, `EachGetsItsOwn`, `CallbacksOfOneRange`, `BatchesAreWhole` | the sharing of the block-fetch client |

All of them hold for every block tree, every batch size and window, every number
of generations, starts, reorganisations, callers, handlers, transactions, memos
and descriptors, every size of the integers, every interval, every stream of
messages with every cut into segments and reads, and every set of keys that satisfy the
named assumptions of the modules. Three hypotheses are not assumptions of a module
but of single theorems, since the code does behave differently without them:

- `SteadyNode`: no reorganisations. Boundary blocks are allowed.
- `[]WellCut`: the batch under way does not end with a boundary block, and its two
  ends stand among the rows where they stand on the chain. The first is exactly what
  goes wrong in `byron_edge`; without the second a batch can begin in the wrong
  place, as said above. The runs `byron` and `line` satisfy both. It is a condition
  on the behaviour, since where a batch ends depends on the rows known when it is
  cut. On a chain without boundary blocks it says nothing, which
  `NumberedChainsAreIndexed` spells out.
- `OneRoot`: no boundary blocks, and all forks have their first block in common.

`SteadyNoPanic` also needs a window of at least one.

*Follower.* `TypeOK` is not inductive: `ends[bf.gen][1]` needs a range, and a
channel is looked up through `consumer[g].on`. `TypeInv` adds `LockedHasRange`
(a fetcher that has not got the mutex has a range), `RequestHasRange` (so has
the request the node is answering) and `RunningHasChannel`. One lemma per action.

*ChainIndex.* `IndexInv` is inductive as it stands, but only its parts together:
a rollback keeps `NoGaps` because slots never decrease along a chain, so the rows
that stay are closed under parents; it keeps `TxBacked` because every processed
block at or above the slot is moved and logged with its height, so a transaction
that survives is backed by a block that stays; `Record` keeps `TxBacked` because the
processed blocks are one chain, which holds a transaction once.

*Follower implements ChainIndex.* A step of the follower that changes the tables
has to be one of ChainIndex: the heights `TakeDone` stores are true and continue
the processed chain, and the transactions `StoreTxs` stores are those of processed
blocks. `SteadyInv` says what makes them so, for each place of a pass: the rows
are closed under parents and on the node's chain (`KnownInv`); `highestPoint` is
the end of the processed chain (`HighestInv`), except that a lost connection may
leave the zero value; goroutines outside the current generation are over, and a
channel that somebody may still close is open (`RoutineInv`, which gives `NoPanic`);
the batch requested begins where the processed chain ends, and that end is not a
boundary block (`RangeInv`, `ChainInv`); what
the consumer has numbered, what waits in the channel and what the node has still
to send are, in this order, the chain up to the last block of the batch
(`StreamInv`, `BufferInOrder`, `NumberedInv`); after a boundary block inside the batch
the consumer goes on with the same height (`NumberAfter`). A batch that ends with its channel
closed has them all, or is `Barren`: nothing came and nothing will. The other
theorems are consequences, through `IndexCorrect` or one conjunct. So the theorems
about RpcServer, which stands beside ChainIndex, apply to the running follower
wherever it implements it.

*Forks.* With reorganisations a batch may be cut out of rows of two forks, so the
batch need not continue the processed chain. `ForkInv` says that it does (`Sound`)
or that its first block fails the consumer's comparison with the previous hash
(`Doomed`), so that nothing is numbered; the comparison is skipped at height 0
only, where `RootKnown` has the first block among the rows. A range that was
requested is answered with a chain or not at all, so the blocks after the first
follow it; when the channel is closed without an error all have come
(`SentInv`). A generation that has ended can only disturb the current one through
its channel, and sets `raced` then. All this is an invariant of the form
`raced \/ ForkInv`; once `raced` is set it stays (`RacedStays`).

*RpcServer.* `RpcInv` says what each local variable of a handler means in each
state of the handler. Its core is `NothingLost`: without a rollback since the
request came in, what was processed and recorded is still there. `TxLocated` and
`AskedRight` carry a read forward: the height read for a transaction is that of a
processed block that holds it, the block asked for is the one at that height,
and no other block of the chain has it, since boundary blocks hold no
transactions and heights otherwise grow (`GrowthAssumption`).

*BlockFetchClient.* `Inv`: while the connection is open, the waiting caller, the
queued request, the protocol state and the stream all belong to the holder of
`busyMutex`. That the mutex outlives the call is what makes it true.

*TxServer.* `TxInv` has a local part for each handler and one part about all.
`PipesInOrder` says that file i is behind number i + 2, which is what makes `Read`
the command's files. `EndedWell` and `CommandOfRequest` carry the node's acceptance
from the child to the answer. `OneWinner` is about all handlers: of a transaction
there is one handler that may still report success, or one success reported, and
in both cases the node has it; as the node takes a transaction once, a submit that
succeeds finds neither. A step of one handler keeps what the others know since
`accepted` only grows (`OthersKeep`).

`OpenCounted` says which descriptors are open, as the cardinality of a set of
pairs of a handler and a pipe's end together with the strays; a step changes it by
the ends it opens or closes. For memos, `ChunkString` cuts at the multiples of
`ChunkSize`; the joins of the first i chunks are the beginnings of the memo up to
these cuts.

*Induction over data.* A recursive function is handled without an induction
scheme: the values it should have are given explicitly, so that the recursive
equation has a solution, and a value that differs has a least index
(`LeastIndex`, from the well-foundedness of the natural numbers), which the
equation refutes. `JoinOfChunks`, `BytesOfPlainRunes`, `JoinsExist` and `BytesAre`
are proved so, and for the message reader `JoinsAre`, `JoinsGrow`, `RegularFollows`
and `MessageRuns`.

*Library.* `SearchInv`: a target of the range stays between the bounds, and the
bounds leave the range by one at most, so that they wrap only in the cases `Wraps`
names. For the caller, `age <= since` makes an old `lastCallTime` mean an old call.
`SegmentInv`: the messages of a segment are of its
protocol, the payload of one call of `MarshalDataItem` is a beginning of them, and
after `Messages` the table holds what the last message of each type carried.
`TablesAgree` compares the tables of `protocol.go`. For addresses, a header made of
two halves of four bits has these halves (`HalvesOfByte`), the ten types have
different ones, and two networks with one header do not take each other's prefixes.

*Message reader.* `BuffersOK` says that the buffers hold bytes and a payload does not
outgrow its length. Everything else is about
places in the stream, relative to the number s of segments that are complete. The
kept header, the data of the current Read and the wire are consecutive and reach to
the end of what was sent; they begin with segment s + 1, or behind the part of its
payload that is in the buffer (`FramesOK`). The pending bytes end with segment s,
and outside a batch they are of that segment only (`PendingOK`). In the payload
before them the messages up to the last one decoded begin, and no others unless
something was skipped behind a BatchDone (`OrderOK`). For the headers, `PiecesInv` says where a
kept header begins: without an overrun at the first byte of a header of the stream,
of which it holds no more than there is, so a read that outgrows it is one that
goes past the end of that header, whatever the reads and segments before it were. Each action is one of seven
kinds of step on these places (`Waits`, `Arrives`, `Decodes`, `Starts`, `Ends`,
`Returns`, `Fails`), and each kind keeps the invariant.

Messages begin in their order (`IsStream`), so a message that is decoded is the next
one, or a later one after a skip: the reader implements MessageChannel (`ChannelInv`).
`KeptInv` adds that the payload before the pending bytes is that of the messages
decoded and of what was dropped, disjointly, which gives `Conserved`. `RegularInv`
adds that on a regular stream nothing is skipped, the last message decoded is
complete, the reader is in a batch exactly when the stream is, and what waits for the
next segment belongs to blocks. `RegularFollows` shows that there each payload byte is
followed by the next byte of its message or the first of another, across segments,
too, and `MessageRuns` that a message is a run of bytes; so none of the ways to
fail is open, and with no byte left no message is.

Two things came out of these proofs. The model told a BatchDone by its first byte,
where the code compares two; with a segment of another protocol between them that
is a different step. And a stream that ends in an open batch satisfied the
conditions of `Regular` while its last messages may stay in the reader, so `Regular`
now also says that batches are done (`BatchesAreDone`).

Only model-checked:

- liveness (`ProcessorReturns`, `TrailsByWindow`, `CallReturnsWhileOpen`,
  `RequestAnswered`, `SearchEnds`, `DueIsCalled`, `LoopsEnd`): fairness and ENABLED
  are out of the prover's reach;
- with reorganisations: boundary blocks, what happens after a batch has raced, and
  `TxComplete`.

A batch that ends with a boundary block is outside both: there `HeightTrue` is
false, as `byron_edge` shows. So is a batch that is cut between a boundary block and
a successor that stands before it.

## 5. Not modelled

- `getStatus` (the protocol parameters beside `GetHeight`), `GetProtocolParams`,
  `SubmitTx` and `postTransactionEstimateFee`: one call of a library each, or the
  length of an encoding, with no state.
- `block.go`, the message types of `message.go` and `protocol.go`: CBOR layout.
  Bech32, hashing, formatting, logging, eras, error values, the address tools.
- The methods of the RPC client: each is one call of `req` or `post`, which are
  the last step of a request in TxServer.
- The dial retries of `connect`: after ten failures the process ends, which is
  `status = "down"`. Timeouts and pipelining of the vendored protocol loops, the
  muxer and the handshake.
- `GetPointsBySlot`, `GetPointsForLastSlot`, `Client.FetchLatestBlock` and
  `Client.GetTransaction` have no caller in the server; the last two make the same calls of
  the block-fetch client as the others do.

What is left of the code is layout and single calls; the development can grow in
its proofs.

## 6. Plan

All invariants and action properties of the passing runs are proved, under the
hypotheses above. What is left:

1. The theorems of FollowerForkProofs with boundary blocks: `ForkInv` with
   `NumberAfter` in place of the successor of a height.
2. The liveness properties, once a prover for fairness is at hand.
