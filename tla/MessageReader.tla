--------------------------- MODULE MessageReader ---------------------------
(***************************************************************************)
(* MessageReader (message.go) puts messages together from the byte stream  *)
(* of a connection.  The stream is a sequence of segments, each with a     *)
(* header of eight bytes and a payload; Read is called with pieces of any  *)
(* size.  Outside a batch each segment holds whole messages; between       *)
(* StartBatch and BatchDone the payloads are joined, and blocks are cut    *)
(* out of the joined bytes.                                                *)
(*                                                                         *)
(* A payload byte is <<m, k>>, byte k of message m; a header byte is       *)
(* <<0, n>>, with n the length of the payload that follows.  One iteration *)
(* of each of the three loops (Read, nextBlocks, nextMessages) is a step.  *)
(***************************************************************************)
EXTENDS Naturals, Sequences, FiniteSets, Functions

CONSTANTS
    Wires,   \* the streams: kinds of the messages and segments of their bytes
    Size     \* the length of a message, by its kind

ASSUME SizeAssumption ==
    /\ \A k \in DOMAIN Size : Size[k] \in Nat \ {0, 1}
    /\ "BatchDone" \in DOMAIN Size /\ Size["BatchDone"] = 2

HeaderSize == 8

VARIABLES
    sent,      \* the kinds of the messages on the wire
    segs,      \* the payloads of the segments on the wire
    wire,      \* the bytes no Read has been given yet
    data,      \* the bytes of the current Read from i on
    partial,   \* r.partialHeader
    buffer,    \* r.buffer, the payload of the current segment
    length,    \* r.length
    batching,  \* r.batching
    pending,   \* r.batchBuffer; while messages are decoded, what is left
    out,       \* messages decoded from the segment that is complete
    got,       \* messages returned
    mode,      \* the loop: "read", "blocks", "messages"; or how it failed
    overrun,   \* history: a read of a header's size or less went past a header
    dropped    \* history: bytes thrown away after a BatchDone

streamVars == <<sent, segs>>
readerVars == <<partial, buffer, length, batching, pending, out, got, mode>>
vars == <<streamVars, wire, data, readerVars, overrun, dropped>>

Byte == Nat \X Nat
Header(payload) == [i \in 1..HeaderSize |-> <<0, Len(payload)>>]

(* Pieces that follow one another: the first i of them joined, and all. *)
Joins(pieces) ==
    LET join[i \in 0..Len(pieces)] == IF i = 0 THEN <<>> ELSE join[i - 1] \o pieces[i]
    IN  join

Join(pieces) == Joins(pieces)[Len(pieces)]

Frames(segments) == [i \in 1..Len(segments) |-> Header(segments[i]) \o segments[i]]

(* The bytes of the segments on the wire, and how far the first i go. *)
Bytes(segments) == Join(Frames(segments))
WireEnd(i) == Len(Joins(Frames(segs))[i])

(* The streams a node sends.  In a segment a message follows another;      *)
(* messages of other protocols may come between the segments of one, and   *)
(* are counted from where they begin.  The bytes of a message come in      *)
(* order, none is sent twice, and no message is left out.                  *)
Follows(kinds, a, b) ==
    IF a[2] < Size[kinds[a[1]]] THEN b = <<a[1], a[2] + 1>> ELSE b[2] = 1

Begun(bytes, n) == {bytes[i][1] : i \in {j \in 1..n : bytes[j][2] = 1}}

IsStream(kinds, segments) ==
    LET bytes == Join(segments) IN
    /\ kinds \in Seq(DOMAIN Size) /\ segments \in Seq(Seq(Byte))
    /\ \A i \in 1..Len(segments) : \A j \in 1..(Len(segments[i]) - 1) :
          Follows(kinds, segments[i][j], segments[i][j + 1])
    /\ \A i \in 1..Len(bytes) :
          /\ bytes[i][1] \in 1..Len(kinds) /\ bytes[i][2] \in 1..Size[kinds[bytes[i][1]]]
          /\ IF bytes[i][2] = 1
               THEN Begun(bytes, i - 1) = 1..(bytes[i][1] - 1)
               ELSE \E j \in 1..(i - 1) : bytes[j] = <<bytes[i][1], bytes[i][2] - 1>>
          /\ \A j \in 1..Len(bytes) : bytes[i] = bytes[j] => i = j
    /\ Begun(bytes, Len(bytes)) = 1..Len(kinds)

ASSUME WireAssumption == \A w \in Wires : IsStream(w.sent, w.segs)

Init ==
    /\ \E w \in Wires : sent = w.sent /\ segs = w.segs
    /\ wire = Bytes(segs) /\ data = <<>>
    /\ partial = <<>> /\ buffer = <<>> /\ length = 0
    /\ batching = FALSE /\ pending = <<>>
    /\ out = <<>> /\ got = <<>> /\ mode = "read"
    /\ overrun = FALSE /\ dropped = {}

From(s, i) == SubSeq(s, i, Len(s))

-----------------------------------------------------------------------------
(* Read *)

(* The next n bytes are no more than a header has, begin behind the first  *)
(* byte of a header, or right behind all of it, and go past its end.       *)
Overruns(n) ==
    LET at == Len(Bytes(segs)) - Len(wire) IN
    \E i \in 0..(Len(segs) - 1) :
        /\ WireEnd(i) < at /\ at <= WireEnd(i) + HeaderSize
        /\ n <= HeaderSize /\ at + n > WireEnd(i) + HeaderSize

(* The caller has n more bytes. *)
Read(n) ==
    /\ mode = "read" /\ data = <<>>
    /\ data' = SubSeq(wire, 1, n)
    /\ wire' = From(wire, n + 1)
    /\ overrun' = (overrun \/ Overruns(n))
    /\ UNCHANGED <<streamVars, readerVars, dropped>>

AtHeader == mode = "read" /\ data # <<>> /\ buffer = <<>>

(* Faulty variant: one byte more passes for a header. *)
IsLoneHeaderOrMore == Len(data) <= HeaderSize + 1

IsLoneHeader == Len(data) <= HeaderSize

KeepHeader ==
    /\ AtHeader
    /\ IsLoneHeader
    /\ partial' = partial \o data
    /\ data' = <<>>
    /\ UNCHANGED <<streamVars, wire, buffer, length, batching, pending, out, got, mode, overrun, dropped>>

(* i becomes negative: slice bounds out of range. *)
Panic ==
    /\ AtHeader
    /\ ~IsLoneHeader
    /\ Len(partial) > HeaderSize
    /\ mode' = "panic"
    /\ UNCHANGED <<streamVars, wire, data, partial, buffer, length, batching, pending, out, got, overrun, dropped>>

(* Faulty variant: the part of the header that was kept is not deducted. *)
AfterWholeHeader == From(data, HeaderSize + 1)

AfterHeader == From(data, HeaderSize + 1 - Len(partial))

(* The payload goes on with the bytes that belong to this segment; a whole *)
(* segment is decoded at once.                                             *)
Fill(body, n) ==
    LET fill == IF n - Len(buffer) > Len(body) THEN Len(body) ELSE n - Len(buffer)
        payload == buffer \o SubSeq(body, 1, fill)
    IN  /\ length' = n
        /\ buffer' = payload
        /\ data' = From(body, fill + 1)
        /\ IF Len(payload) = n
             THEN /\ pending' = IF batching THEN pending \o payload ELSE payload
                  /\ mode' = IF batching THEN "blocks" ELSE "messages"
             ELSE UNCHANGED <<pending, mode>>
        /\ UNCHANGED <<streamVars, wire, batching, out, got, overrun, dropped>>

ReadHeader ==
    /\ AtHeader
    /\ ~IsLoneHeader
    /\ Len(partial) <= HeaderSize
    /\ partial' = <<>>
    /\ Fill(AfterHeader, (partial \o data)[1][2])

ReadPayload ==
    /\ mode = "read" /\ data # <<>> /\ buffer # <<>>
    /\ Fill(data, length)
    /\ UNCHANGED partial

-----------------------------------------------------------------------------
(* Decoding: the message that the pending bytes begin with *)

First == pending[1][1]
FirstKind == sent[First]
FirstSize == Size[FirstKind]
Complete == Len(pending) >= FirstSize
Intact == \A k \in 1..FirstSize : pending[k] = <<First, k>>
Aligned == pending[1][2] = 1
StartsWith(kind) == FirstKind = kind /\ Len(pending) >= 2 /\ \A k \in 1..2 : pending[k] = <<First, k>>

Take == out' = Append(out, First) /\ pending' = From(pending, FirstSize + 1)

(* The loop ends: its messages are returned and the segment is reset. *)
Return(messages) ==
    /\ got' = got \o messages
    /\ out' = <<>>
    /\ mode' = "read" /\ buffer' = <<>> /\ length' = 0

DecodeVars == <<streamVars, wire, data, partial, overrun>>

(* nextMessages *)

NextMessage ==
    /\ mode = "messages" /\ pending # <<>>
    /\ Aligned /\ Complete /\ FirstKind # "StartBatch"
    /\ Take
    /\ UNCHANGED <<DecodeVars, buffer, length, batching, got, mode, dropped>>

NextStartBatch ==
    /\ mode = "messages" /\ pending # <<>>
    /\ Aligned /\ Complete /\ FirstKind = "StartBatch"
    /\ batching' = TRUE
    /\ pending' = From(pending, FirstSize + 1)
    /\ Return(Append(out, First))
    /\ UNCHANGED <<DecodeVars, dropped>>

MessagesDone ==
    /\ mode = "messages" /\ pending = <<>>
    /\ Return(out)
    /\ UNCHANGED <<DecodeVars, batching, pending, dropped>>

(* A message that goes on in the next segment is an error. *)
MessageCut ==
    /\ mode = "messages" /\ pending # <<>>
    /\ Aligned /\ ~Complete
    /\ mode' = "error"
    /\ UNCHANGED <<DecodeVars, buffer, length, batching, pending, out, got, dropped>>

(* nextBlocks *)

NextBlock ==
    /\ mode = "blocks" /\ pending # <<>>
    /\ StartsWith("Block") /\ Complete /\ Intact
    /\ Take
    /\ UNCHANGED <<DecodeVars, buffer, length, batching, got, mode, dropped>>

(* Faulty variant: the batch buffer is not cleared. *)
NextBatchDoneKeeping ==
    /\ mode = "blocks" /\ pending # <<>>
    /\ StartsWith("BatchDone")
    /\ batching' = FALSE
    /\ pending' = pending
    /\ Return(Append(out, First))
    /\ UNCHANGED <<DecodeVars, dropped>>

(* Everything behind a BatchDone is skipped with it. *)
NextBatchDone ==
    /\ mode = "blocks" /\ pending # <<>>
    /\ StartsWith("BatchDone")
    /\ batching' = FALSE
    /\ pending' = <<>>
    /\ dropped' = dropped \cup Range(From(pending, FirstSize + 1))
    /\ Return(Append(out, First))
    /\ UNCHANGED DecodeVars

(* Faulty variant: when no BatchDone has come, no block is returned. *)
BlocksDoneLosing ==
    /\ mode = "blocks"
    /\ pending # <<>> => StartsWith("Block") /\ ~Complete
    /\ Return(<<>>)
    /\ UNCHANGED <<DecodeVars, batching, pending, dropped>>

(* The rest of a block is still to come. *)
BlocksDone ==
    /\ mode = "blocks"
    /\ pending # <<>> => StartsWith("Block") /\ ~Complete
    /\ Return(out)
    /\ UNCHANGED <<DecodeVars, batching, pending, dropped>>

(* The two bytes at the start are not those of a block or of BatchDone. *)
NotABlock ==
    /\ mode = "blocks" /\ pending # <<>>
    /\ ~StartsWith("Block") /\ ~StartsWith("BatchDone")
    /\ mode' = "error"
    /\ UNCHANGED <<DecodeVars, buffer, length, batching, pending, out, got, dropped>>

(* Bytes of another segment inside a block, or the tail of a message that  *)
(* was skipped: the decoder fails or makes something else of them.         *)
Garbled ==
    /\ pending # <<>>
    /\ \/ mode = "messages" /\ ~Aligned
       \/ mode = "blocks" /\ StartsWith("Block") /\ Complete /\ ~Intact
    /\ mode' = "garbled"
    /\ UNCHANGED <<DecodeVars, buffer, length, batching, pending, out, got, dropped>>

Next ==
    \/ \E n \in 1..Len(wire) : Read(n)
    \/ KeepHeader \/ Panic \/ ReadHeader \/ ReadPayload
    \/ NextMessage \/ NextStartBatch \/ MessagesDone \/ MessageCut
    \/ NextBlock \/ NextBatchDone \/ BlocksDone \/ NotABlock \/ Garbled

Spec == Init /\ [][Next]_vars

-----------------------------------------------------------------------------
(* Properties *)

Failed == mode \in {"error", "panic", "garbled"}

(* Whatever the segments and the reads, the reader is a channel: messages  *)
(* come out in order and once, until it fails.                             *)
Channel == INSTANCE MessageChannel WITH failed <- Failed
ChannelSpec == Channel!ChannelSpec

(* Between two reads every payload byte that was handed over is in exactly *)
(* one place: in a message that was returned, in one of the three buffers, *)
(* or among those skipped after a BatchDone.                               *)
MessageBytes(ms) == UNION {{m} \X (1..Size[sent[m]]) : m \in Range(ms)}
Payload(s) == {b \in Range(s) : b[1] # 0}
Kept == <<MessageBytes(got), Payload(partial), Range(buffer), Range(pending), dropped>>

Conserved ==
    mode = "read" /\ data = <<>> =>
        /\ Payload(Bytes(segs)) \ Payload(wire) = UNION Range(Kept)
        /\ \A i, j \in DOMAIN Kept : i # j => Kept[i] \cap Kept[j] = {}

(* A header may come in pieces, and what decides is where the reads cut    *)
(* the stream, not what the reader holds: it never panics while no read of *)
(* at most eight bytes begins inside a header, or right behind it, and     *)
(* goes past its end; after such a read it holds more than a header        *)
(* between two reads, so that it returns nothing more and the next longer  *)
(* read makes it panic.                                                    *)
HeaderInPieces ==
    /\ ~overrun => Len(partial) <= HeaderSize /\ mode # "panic"
    /\ overrun /\ mode = "read" /\ data = <<>> => Len(partial) > HeaderSize

(* The streams the reader is made for: a message goes on in the next       *)
(* segment only if it is a block of a batch cut after its first two bytes, *)
(* nothing but blocks comes between StartBatch and BatchDone, every batch  *)
(* is done, and BatchDone ends a segment other than that of its            *)
(* StartBatch.                                                             *)
EndsIn(m) == CHOOSE i \in DOMAIN segs : <<m, Size[sent[m]]>> \in Range(segs[i])

InBatch(m) ==
    \E s \in 1..(m - 1) : sent[s] = "StartBatch" /\ \A d \in (s + 1)..(m - 1) : sent[d] # "BatchDone"

CutsOnlyBlocks ==
    \A i \in DOMAIN segs : LET last == segs[i][Len(segs[i])] IN
        /\ segs[i] # <<>>
        /\ last[2] < Size[sent[last[1]]] =>
            /\ sent[last[1]] = "Block" /\ InBatch(last[1]) /\ last[2] >= 2
            /\ i < Len(segs) /\ segs[i + 1][1] = <<last[1], last[2] + 1>>

OneProtocolInBatch == \A m \in DOMAIN sent : InBatch(m) => sent[m] \in {"Block", "BatchDone"}

BatchDoneEndsSegment ==
    \A m \in DOMAIN sent : sent[m] = "BatchDone" =>
        /\ segs[EndsIn(m)][Len(segs[EndsIn(m)])] = <<m, Size["BatchDone"]>>
        /\ \A s \in 1..(m - 1) : sent[s] = "StartBatch" => EndsIn(s) # EndsIn(m)

BatchesAreDone == ~InBatch(Len(sent) + 1)

Regular == CutsOnlyBlocks /\ OneProtocolInBatch /\ BatchesAreDone /\ BatchDoneEndsSegment

(* On such a stream, unless a read overruns a header, the reader never     *)
(* fails, and once it has all the bytes it has returned all the messages.  *)
RegularIsRead ==
    Regular /\ ~overrun =>
        /\ ~Failed
        /\ mode = "read" /\ data = <<>> /\ wire = <<>> /\ partial = <<>> => Len(got) = Len(sent)
=============================================================================
