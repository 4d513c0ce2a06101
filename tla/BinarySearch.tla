---------------------------- MODULE BinarySearch ----------------------------
(***************************************************************************)
(* BinarySearchCallback (util.go): a search over unsigned integers that    *)
(* asks a callback where the target lies.  The bounds wrap around at both  *)
(* ends of the type.                                                       *)
(***************************************************************************)
EXTENDS Integers

CONSTANT MaxUint   \* the largest unsigned integer, 2^64 - 1

ASSUME MaxUintAssumption == MaxUint \in Nat

VARIABLES
    from, to,     \* the arguments start and end
    target,       \* what the callback compares with; it may lie outside
    start, end,   \* the bounds that are left
    probed,       \* the value last given to the callback
    result        \* "searching", or how the search ended

searchVars == <<from, to, target, start, end, probed, result>>
inputs == <<from, to, target>>

SearchInit ==
    /\ from \in 0..MaxUint /\ to \in 0..MaxUint
    /\ target \in -1..(MaxUint + 1)
    /\ start = from /\ end = to
    /\ probed = from /\ result = "searching"

(* Faulty variant: a midpoint that is rounded up, one too far. *)
MidUp == start + (end - start) \div 2 + 1

Mid == start + (end - start) \div 2

Calls == result = "searching" /\ start <= end

Dec(n) == IF n = 0 THEN MaxUint ELSE n - 1
Inc(n) == IF n = MaxUint THEN 0 ELSE n + 1

Below ==
    /\ Calls
    /\ target < Mid
    /\ end' = Dec(Mid) /\ probed' = Mid
    /\ UNCHANGED <<inputs, start, result>>

(* Faulty variant: the midpoint is not excluded. *)
AboveKeepingMid ==
    /\ Calls
    /\ target > Mid
    /\ start' = Mid /\ probed' = Mid
    /\ UNCHANGED <<inputs, end, result>>

Above ==
    /\ Calls
    /\ target > Mid
    /\ start' = Inc(Mid) /\ probed' = Mid
    /\ UNCHANGED <<inputs, end, result>>

Found ==
    /\ Calls
    /\ target = Mid
    /\ probed' = Mid /\ result' = "found"
    /\ UNCHANGED <<inputs, start, end>>

(* The callback fails, or answers something else than -1, 0 or 1. *)
CallbackFails ==
    /\ Calls
    /\ probed' = Mid /\ result' = "failed"
    /\ UNCHANGED <<inputs, start, end>>

NoMatch ==
    /\ result = "searching"
    /\ start > end
    /\ result' = "missing"
    /\ UNCHANGED <<inputs, start, end, probed>>

SearchStep == Below \/ Above \/ Found \/ NoMatch
SearchNext == SearchStep \/ CallbackFails
SearchSpec == SearchInit /\ [][SearchNext]_searchVars

-----------------------------------------------------------------------------
(* Properties *)

(* Targets below zero or above the largest integer make a bound wrap. *)
Wraps == (from = 0 /\ target < from) \/ (to = MaxUint /\ target > to)

(* The callback is called with values of the range only; the search ends   *)
(* with the target, or the target is not in the range.                     *)
SearchCorrect ==
    ~Wraps =>
        /\ from <= to => probed \in from..to
        /\ result = "found" => probed = target
        /\ result = "missing" => target \notin from..to

(* The search comes to an end. *)
SearchEnds == ~Wraps ~> result # "searching"

(* The inductive invariant: a target of the range is between the bounds,   *)
(* and these leave the range by one at most.                               *)
BoundsOK ==
    ~Wraps =>
        /\ from <= to => from <= start /\ end <= to /\ start <= end + 1 /\ start <= to + 1 /\ from <= end + 1
        /\ from > to => start = from /\ end = to
        /\ target \in from..to /\ result # "found" => target \in start..end

SearchTypeOK ==
    /\ from \in 0..MaxUint /\ to \in 0..MaxUint /\ target \in -1..(MaxUint + 1)
    /\ start \in 0..MaxUint /\ end \in 0..MaxUint /\ probed \in 0..MaxUint
    /\ result \in {"searching", "found", "missing", "failed"}

SearchInv == SearchTypeOK /\ BoundsOK /\ SearchCorrect
=============================================================================
