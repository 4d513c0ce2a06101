----------------------------- MODULE MCLibrary -----------------------------
(***************************************************************************)
(* The parts of the package that stand by themselves, for TLC: the message *)
(* reader, segments, addresses, the binary search and the periodic caller. *)
(* They share no state, so each behaviour runs one of them.                *)
(***************************************************************************)
EXTENDS MessageReader, Segment, Address, BinarySearch, PeriodicCaller

VARIABLE part   \* the part that runs

libVars == <<part, vars, segmentVars, addressVars, searchVars, callerVars>>

MCSize == [StartBatch |-> 2, Block |-> 4, BatchDone |-> 2, Other |-> 3]

(* The payload of messages of these kinds, and that payload in pieces. *)
PayloadOf(kinds) ==
    LET bytes[m \in 0..Len(kinds)] ==
          IF m = 0 THEN <<>> ELSE bytes[m - 1] \o [k \in 1..MCSize[kinds[m]] |-> <<m, k>>]
    IN  bytes[Len(kinds)]

Cut(bytes, cuts) ==
    LET n == Cardinality(cuts)
        at[i \in 0..(n + 1)] ==
          CASE i = 0 -> 1
            [] i = n + 1 -> Len(bytes) + 1
            [] OTHER -> CHOOSE c \in cuts : Cardinality({d \in cuts : d < c}) = i - 1
    IN  [i \in 1..(n + 1) |-> SubSeq(bytes, at[i - 1], at[i] - 1)]

(* A message of another protocol has segments of its own; besides there    *)
(* are up to max cuts, before bytes that may begin a segment.              *)
Streams(kinds, max, Begins(_)) ==
    LET bytes == PayloadOf(kinds)
        other(i) == kinds[bytes[i][1]] = "Other"
        forced == {i \in 2..Len(bytes) : other(i) # other(i - 1)}
        allowed == {i \in 2..Len(bytes) : Begins(bytes[i])}
    IN  {[sent |-> kinds, segs |-> Cut(bytes, forced \cup c)] :
            c \in {d \in SUBSET allowed : Cardinality(d) <= max}}

Anywhere(byte) == TRUE
AtMessage(byte) == byte[2] = 1

Batch == <<"StartBatch", "Block", "BatchDone">>

(* A segment of another protocol arrives in the middle of a block. *)
Interleaved ==
    [sent |-> <<"StartBatch", "Block", "Other", "BatchDone">>,
     segs |-> <<<<<<1, 1>>, <<1, 2>>>>, <<<<2, 1>>, <<2, 2>>, <<2, 3>>>>,
                <<<<3, 1>>, <<3, 2>>, <<3, 3>>>>, <<<<2, 4>>, <<4, 1>>, <<4, 2>>>>>>]

(* One arrives between the two bytes of a BatchDone. *)
DoneCut ==
    [sent |-> <<"StartBatch", "BatchDone", "Other">>,
     segs |-> <<<<<<1, 1>>, <<1, 2>>, <<2, 1>>>>, <<<<3, 1>>, <<3, 2>>, <<3, 3>>>>, <<<<2, 2>>>>>>]

NoWire == [sent |-> <<>>, segs |-> <<>>]

MCWires ==
    Streams(Batch, 3, Anywhere) \cup Streams(Batch \o Batch, 3, AtMessage)
      \cup Streams(<<"Other", "Other">>, 1, Anywhere)
      \cup Streams(<<"StartBatch", "Other", "Block", "BatchDone">>, 1, Anywhere)
      \cup {Interleaved, DoneCut, NoWire}

(* The parts that do not run rest: no bytes to read, nothing to find. *)
LibInit ==
    /\ part \in {"reader", "segment", "address", "search", "caller"}
    /\ Init
    /\ part # "reader" => sent = <<>>
    /\ SearchInit
    /\ part # "search" => from = 0 /\ to = 0 /\ target = -1
    /\ SegmentInit /\ AddressInit /\ CallerInit

Reader == part = "reader" /\ Next /\ UNCHANGED <<part, segmentVars, addressVars, searchVars, callerVars>>
Segments == part = "segment" /\ SegmentNext /\ UNCHANGED <<part, vars, addressVars, searchVars, callerVars>>
Addresses == part = "address" /\ AddressNext /\ UNCHANGED <<part, vars, segmentVars, searchVars, callerVars>>

Search(A) == part = "search" /\ A /\ UNCHANGED <<part, vars, segmentVars, addressVars, callerVars>>
Caller(A) == part = "caller" /\ A /\ UNCHANGED <<part, vars, segmentVars, addressVars, searchVars>>

LibNext == Reader \/ Segments \/ Addresses \/ Search(SearchNext) \/ Caller(CallerNext)

LibSpec ==
    /\ LibInit /\ [][LibNext]_libVars
    /\ WF_libVars(Search(SearchStep))
    /\ WF_libVars(Caller(TimePasses))
    /\ \A l \in Loop : WF_libVars(Caller(LoopTicks(l))) /\ WF_libVars(Caller(LoopReturns(l)))
=============================================================================
