--------------------------- MODULE MessageChannel ---------------------------
(***************************************************************************)
(* What a reader of the node's messages promises: they come out in the     *)
(* order in which they went in, each once, one or several at a time.  Only *)
(* what directly follows a BatchDone may be skipped, and after a failure   *)
(* nothing is delivered any more.                                          *)
(***************************************************************************)
EXTENDS Naturals, Sequences

VARIABLES
    sent,    \* the kinds of the messages, in the order of the wire
    got,     \* the messages delivered so far, by their index in sent
    failed   \* whether the reader has given up

channelVars == <<sent, got, failed>>

LastGot == IF got = <<>> THEN 0 ELSE got[Len(got)]
MaySkip == got # <<>> /\ sent[LastGot] = "BatchDone"

ChannelInit == got = <<>> /\ failed = FALSE

(* Messages first to last are delivered in one step. *)
Deliver(first, last) ==
    /\ ~failed
    /\ first = LastGot + 1 \/ (first > LastGot /\ MaySkip)
    /\ got' = got \o [i \in 1..(last + 1 - first) |-> first + i - 1]
    /\ UNCHANGED <<sent, failed>>

Fail ==
    /\ ~failed
    /\ failed' = TRUE
    /\ UNCHANGED <<sent, got>>

ChannelNext ==
    \/ \E first, last \in DOMAIN sent : first <= last /\ Deliver(first, last)
    \/ Fail

ChannelSpec == ChannelInit /\ [][ChannelNext]_channelVars
=============================================================================
