--------------------------- MODULE PeriodicCaller ---------------------------
(***************************************************************************)
(* PeriodicCaller (util.go) runs an action at most once per interval:      *)
(* Postpone puts it off, and a loop on a ticker makes up for it.  The      *)
(* mutex makes each operation one step.  Of a time only its age is told    *)
(* apart, up to the interval; a zero time is that old.                     *)
(***************************************************************************)
EXTENDS Naturals

CONSTANTS
    Interval,  \* pc.interval
    Loop       \* goroutines that calls of Start can begin

ASSUME IntervalAssumption == Interval \in Nat \ {0}

VARIABLES
    age,       \* time since pc.lastCallTime
    since,     \* history: time since the action was last begun
    calls,     \* history: changes with each begin of the action
    loop,      \* each loop: "off", "select" or "returned"
    phase,     \* time since the last tick of the loop's ticker
    tick,      \* ticker.C holds a tick
    stopped,   \* pc.stopped
    closed     \* pc.stopChan is closed

callerVars == <<age, since, calls, loop, phase, tick, stopped, closed>>

CallerInit ==
    /\ age = Interval /\ since = Interval /\ calls = 0
    /\ loop = [l \in Loop |-> "off"]
    /\ phase = [l \in Loop |-> 0] /\ tick = [l \in Loop |-> FALSE]
    /\ stopped = FALSE /\ closed = FALSE

BeginAction == since' = 0 /\ calls' = 1 - calls
NoAction == UNCHANGED <<since, calls>>

Older(t) == IF t < Interval THEN t + 1 ELSE t
TickDue(l) == loop[l] = "select" /\ phase[l] + 1 = Interval

TimePasses ==
    /\ age' = Older(age) /\ since' = Older(since)
    /\ phase' = [l \in Loop |-> IF loop[l] # "select" \/ TickDue(l) THEN 0 ELSE phase[l] + 1]
    /\ tick' = [l \in Loop |-> tick[l] \/ TickDue(l)]
    /\ UNCHANGED <<calls, loop, stopped, closed>>

(* Faulty variant: only a call that ran the action is remembered. *)
PostponeForgetful ==
    /\ ~stopped
    /\ IF age = Interval THEN BeginAction ELSE NoAction
    /\ UNCHANGED <<age, loop, phase, tick, stopped, closed>>

Postpone ==
    /\ ~stopped
    /\ IF age = Interval THEN BeginAction ELSE NoAction
    /\ age' = 0
    /\ UNCHANGED <<loop, phase, tick, stopped, closed>>

Start(l) ==
    /\ loop[l] = "off"
    /\ loop' = [loop EXCEPT ![l] = "select"]
    /\ UNCHANGED <<age, since, calls, phase, tick, stopped, closed>>

Due == ~stopped /\ age = Interval

(* Faulty variant: more than the interval must have passed. *)
LoopTicksLate(l) ==
    /\ loop[l] = "select" /\ tick[l]
    /\ tick' = [tick EXCEPT ![l] = FALSE]
    /\ UNCHANGED <<age, since, calls, loop, phase, stopped, closed>>

LoopTicks(l) ==
    /\ loop[l] = "select" /\ tick[l]
    /\ tick' = [tick EXCEPT ![l] = FALSE]
    /\ IF Due THEN BeginAction /\ age' = 0 ELSE NoAction /\ UNCHANGED age
    /\ UNCHANGED <<loop, phase, stopped, closed>>

LoopReturns(l) ==
    /\ loop[l] = "select" /\ closed
    /\ loop' = [loop EXCEPT ![l] = "returned"]
    /\ UNCHANGED <<age, since, calls, phase, tick, stopped, closed>>

(* Faulty variant: the channel stays open. *)
StopQuietly ==
    /\ ~stopped
    /\ stopped' = TRUE
    /\ UNCHANGED <<age, since, calls, loop, phase, tick, closed>>

Stop ==
    /\ ~stopped
    /\ stopped' = TRUE /\ closed' = TRUE
    /\ UNCHANGED <<age, since, calls, loop, phase, tick>>

CallerNext ==
    \/ TimePasses
    \/ Postpone
    \/ Stop
    \/ \E l \in Loop : Start(l) \/ LoopTicks(l) \/ LoopReturns(l)

(* Time goes on, and the loops are scheduled. *)
CallerFairness ==
    /\ WF_callerVars(TimePasses)
    /\ \A l \in Loop : WF_callerVars(LoopTicks(l)) /\ WF_callerVars(LoopReturns(l))

CallerSpec == CallerInit /\ [][CallerNext]_callerVars

-----------------------------------------------------------------------------
(* Properties *)

(* Two begins of the action, by whichever of Postpone and the loops, are   *)
(* an interval apart, and there is none after Stop.                        *)
SpacedCalls == [][calls' # calls => since = Interval /\ ~stopped]_callerVars

(* With a loop running, an action that is due is begun. *)
DueIsCalled ==
    (\E l \in Loop : loop[l] = "select") /\ Due ~> age = 0 \/ stopped

(* Stop ends the loops, one that is started later too. *)
LoopsEnd == stopped ~> \A l \in Loop : loop[l] # "select"
=============================================================================
