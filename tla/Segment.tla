------------------------------ MODULE Segment ------------------------------
(***************************************************************************)
(* The protocol tables (protocol.go) and the segments built and decoded    *)
(* with them (segment.go).  A message is its Go type, the subprotocol      *)
(* number its sender has put into it and its content.  ProtocolToMessage   *)
(* returns the instance that the table holds, so every decoded message of  *)
(* a type is the same instance: the table is state.                        *)
(***************************************************************************)
EXTENDS Naturals, Sequences, Functions

CONSTANTS
    Content,        \* what messages carry
    NoContent,      \* a message of the table before anything was decoded
    PayloadSpan,    \* the payload lengths its field can tell apart (2^16)
    MaxMessages,    \* messages added to a segment: a bound
    MaxMarshals     \* calls of MarshalDataItem: a bound

ASSUME SegmentAssumption ==
    PayloadSpan \in Nat \ {0} /\ MaxMessages \in Nat /\ MaxMarshals \in Nat

ChainSyncKinds == <<"RequestNext", "AwaitReply", "RollForward", "RollBackward",
                    "FindIntersect", "IntersectFound", "IntersectNotFound", "ChainSyncDone">>
BlockFetchKinds == <<"RequestRange", "ClientDone", "StartBatch", "NoBlocks", "Block", "BatchDone">>
KeepAliveKinds == <<"KeepAliveResponse", "KeepAlive">>
LocalStateKinds == <<"Acquire", "Acquired", "Failure", "Query", "Result", "Release", "Reacquire",
                     "Done", "AcquireVolatileTip", "ReacquireVolatileTip",
                     "AcquireImmutableTip", "ReacquireImmutableTip">>

(* The type for each protocol and subprotocol number (from 0). *)
ProtocolMessageMap ==
    [Handshake |-> <<"ProposeVersions", "AcceptVersionNtC", "Refuse", "QueryReply">>,
     ChainSync |-> ChainSyncKinds,
     BlockFetch |-> BlockFetchKinds,
     KeepAlive |-> KeepAliveKinds,
     LocalState |-> LocalStateKinds,
     LocalTx |-> <<>>]

(* MessageProtocolMap and MessageSubprotocolMap list the same types.  The  *)
(* accepted version is the one of the node-to-node handshake here, and the *)
(* local-state messages are missing.                                       *)
SentKinds ==
    [Handshake |-> <<"ProposeVersions", "AcceptVersionNtN", "Refuse", "QueryReply">>,
     ChainSync |-> ChainSyncKinds,
     BlockFetch |-> BlockFetchKinds,
     KeepAlive |-> KeepAliveKinds]

ReadTypes == UNION {Range(ProtocolMessageMap[p]) : p \in DOMAIN ProtocolMessageMap}
Sendable == UNION {Range(SentKinds[p]) : p \in DOMAIN SentKinds}
Types == ReadTypes \cup Sendable

MessageProtocolMap ==
    [t \in Sendable |-> CHOOSE p \in DOMAIN SentKinds : t \in Range(SentKinds[p])]

MessageSubprotocolMap ==
    [t \in Sendable |-> (CHOOSE i \in DOMAIN SentKinds[MessageProtocolMap[t]] :
                            SentKinds[MessageProtocolMap[t]][i] = t) - 1]

Known(p, sub) == p \in DOMAIN ProtocolMessageMap /\ sub + 1 \in DOMAIN ProtocolMessageMap[p]
ProtocolToMessage(p, sub) == ProtocolMessageMap[p][sub + 1]

VARIABLES
    protocol,   \* s.Protocol
    messages,   \* s.messages
    payload,    \* s.Payload, one element for each message
    declared,   \* s.PayloadLength
    marshals,   \* calls of MarshalDataItem so far
    decoded,    \* the types of the messages that Messages returned
    table       \* the content of each instance of the table

segmentVars == <<protocol, messages, payload, declared, marshals, decoded, table>>

SegmentInit ==
    /\ protocol = "Handshake"
    /\ messages = <<>> /\ payload = <<>> /\ declared = 0 /\ marshals = 0
    /\ decoded = <<>>
    /\ table = [t \in ReadTypes |-> NoContent]

(* A sender numbers its message with MessageToProtocol, or leaves it 0. *)
Numbers(t) == {0} \cup (IF t \in Sendable THEN {MessageSubprotocolMap[t]} ELSE {})

(* Faulty variant: messages of two protocols get into one segment. *)
AddMessageUnchecked(t, sub, content) ==
    /\ Len(messages) < MaxMessages
    /\ t \in Sendable
    /\ protocol' = MessageProtocolMap[t]
    /\ messages' = Append(messages, [type |-> t, sub |-> sub, content |-> content])
    /\ UNCHANGED <<payload, declared, marshals, decoded, table>>

AddMessage(t, sub, content) ==
    /\ Len(messages) < MaxMessages
    /\ t \in Sendable
    /\ messages # <<>> => protocol = MessageProtocolMap[t]
    /\ protocol' = MessageProtocolMap[t]
    /\ messages' = Append(messages, [type |-> t, sub |-> sub, content |-> content])
    /\ UNCHANGED <<payload, declared, marshals, decoded, table>>

(* The payload of an earlier call is kept, and its length is truncated. *)
MarshalDataItem ==
    /\ marshals < MaxMarshals
    /\ messages # <<>>
    /\ marshals' = marshals + 1
    /\ payload' = payload \o messages
    /\ declared' = Len(payload') % PayloadSpan
    /\ UNCHANGED <<protocol, messages, decoded, table>>

(* What the receiver has: as many bytes as the header declares. *)
Received == SubSeq(payload, 1, declared)

(* Messages, on the receiving side; an unknown number is an error. *)
Messages ==
    /\ Received # <<>>
    /\ \A i \in DOMAIN Received : Known(protocol, Received[i].sub)
    /\ decoded' = [i \in DOMAIN Received |-> ProtocolToMessage(protocol, Received[i].sub)]
    /\ table' = [t \in ReadTypes |->
                    LET last == {i \in DOMAIN Received : decoded'[i] = t /\ \A j \in DOMAIN Received : j > i => decoded'[j] # t}
                    IN  IF last = {} THEN table[t] ELSE Received[CHOOSE i \in last : TRUE].content]
    /\ UNCHANGED <<protocol, messages, payload, declared, marshals>>

SegmentNext ==
    \/ \E t \in Types, c \in Content : \E sub \in Numbers(t) : AddMessage(t, sub, c)
    \/ MarshalDataItem
    \/ Messages

SegmentSpec == SegmentInit /\ [][SegmentNext]_segmentVars

-----------------------------------------------------------------------------
(* Property *)

(* The three tables agree: what AddMessage accepts and MarshalDataItem     *)
(* writes is what Messages gives back, type and content, for numbered      *)
(* messages of a segment that was marshalled once and whose payload fits   *)
(* the length field.  Two exceptions: AcceptVersionNtN is read as the      *)
(* node-to-client message, and of two messages of one type the first is    *)
(* overwritten by the second.                                              *)
SegmentRoundTrip ==
    decoded # <<>> /\ marshals = 1 /\ Len(payload) < PayloadSpan
      /\ (\A i \in DOMAIN decoded : messages[i].sub = MessageSubprotocolMap[messages[i].type]) =>
        \A i \in DOMAIN decoded :
            LET m == messages[i] IN
            /\ decoded[i] = m.type \/ m.type = "AcceptVersionNtN"
            /\ table[decoded[i]] = m.content \/ \E j \in DOMAIN decoded : j # i /\ messages[j].type = m.type
=============================================================================
