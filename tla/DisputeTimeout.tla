--------------------------- MODULE DisputeTimeout ---------------------------
(***************************************************************************)
(* connector/timeout.go in time, with the ways the repository comes by its *)
(* argument: a duration in seconds, as the type of MakeTimeout and         *)
(* events.go say, and instants in nanoseconds, the timeout of a registered *)
(* state in adjudicator.go and the time of an event in subscribe.go.       *)
(*                                                                         *)
(* One unit of time stands for a nanosecond.  The canister and the callers *)
(* are assumed to read the same clock.                                     *)
(***************************************************************************)
EXTENDS Integers

CONSTANTS
    Waiters,           \* goroutines that wait for a timeout, each for one
    Second,            \* time.Second
    HalfRange,         \* 2^63: an int64 is in -HalfRange .. HalfRange - 1
    PollInterval,      \* DefaultTimeoutPollInterval
    Durations,         \* the durations in seconds that are waited for
    ChallengeDuration, \* of the channel's params, in seconds
    Start,             \* the time at which the system is started
    MaxLateness,       \* bound: how long a goroutine that can go on may not
    Horizon            \* bound: the last instant

Uint64 == 0..2 * HalfRange - 1

ASSUME TimeoutAssumption ==
    /\ HalfRange \in Nat \ {0}
    /\ Second \in Nat \ {0} /\ PollInterval \in Nat \ {0}
    /\ Durations \subseteq Uint64
    /\ ChallengeDuration \in Nat /\ Start \in Nat
    /\ MaxLateness \in Nat /\ Horizon \in Nat

VARIABLES
    now,      \* the clock
    timeout,  \* the timeout of the registered state (icperun.go), 0 if none
    pc,       \* pc[w]: "idle", "made" (a Timeout), "select" (in Wait), "done"
    kind,     \* kind[w]: what the argument of MakeTimeout was
    sec,      \* sec[w]: the argument of MakeTimeout
    made,     \* made[w]: when MakeTimeout was called
    when,     \* when[w]: Timeout.when
    began,    \* began[w]: when Wait was called
    timer,    \* timer[w]: when the time.After of the select fires
    ctx,      \* ctx[w]: Wait's context, with a "deadline", without ("open"), "done"
    res,      \* res[w]: how the last Wait ended
    ended     \* ended[w]: when it did

vars == <<now, timeout, pc, kind, sec, made, when, began, timer, ctx, res, ended>>

Init ==
    /\ now = Start /\ timeout = 0
    /\ pc = [w \in Waiters |-> "idle"]
    /\ kind = [w \in Waiters |-> "duration"]
    /\ sec = [w \in Waiters |-> 0]
    /\ made = [w \in Waiters |-> Start]
    /\ when = [w \in Waiters |-> Start]
    /\ began = [w \in Waiters |-> Start]
    /\ timer = [w \in Waiters |-> Start]
    /\ ctx = [w \in Waiters |-> "open"]
    /\ res = [w \in Waiters |-> "none"]
    /\ ended = [w \in Waiters |-> Start]
-----------------------------------------------------------------------------
(* Mutant: nothing wraps.                                                  *)
ToInt64_Unwrapped(x) == x

(* What 64 bits keep of an integer.                                        *)
ToInt64(x) == ((x + HalfRange) % (2 * HalfRange)) - HalfRange

(* Mutant: the duration is taken for one in units of the clock.            *)
MakeTime_Unscaled(s) == ToInt64(s)

(* time.Duration(sec) * time.Second: both the conversion and the product   *)
(* wrap, which is to wrap once.                                            *)
MakeTime(s) == ToInt64(s * Second)

MakeTimeout(w, k, s) ==
    /\ pc[w] = "idle"
    /\ pc' = [pc EXCEPT ![w] = "made"]
    /\ kind' = [kind EXCEPT ![w] = k]
    /\ sec' = [sec EXCEPT ![w] = s]
    /\ made' = [made EXCEPT ![w] = now]
    /\ when' = [when EXCEPT ![w] = now + MakeTime(s)]
    /\ UNCHANGED <<now, timeout, began, timer, ctx, res, ended>>

(* The Timeout of an event (of 10 s, in events.go), or of another caller.  *)
EventTimeout(w) == \E s \in Durations : MakeTimeout(w, "duration", s)

(* checkDisputes: the timeout of the state that query_state answers with.  *)
CheckDisputes(w) ==
    /\ timeout # 0
    /\ MakeTimeout(w, "timepoint", timeout)

(* Next: the timestamp of the event it returns, here of the dispute.       *)
NextEvent(w) ==
    /\ timeout # 0
    /\ MakeTimeout(w, "timestamp", timeout - ChallengeDuration * Second)

Wait(w) ==
    /\ pc[w] = "made"
    /\ pc' = [pc EXCEPT ![w] = "select"]
    /\ began' = [began EXCEPT ![w] = now]
    /\ timer' = [timer EXCEPT ![w] = now + PollInterval]
    /\ \E c \in {"open", "deadline"} : ctx' = [ctx EXCEPT ![w] = c]
    /\ UNCHANGED <<now, timeout, kind, sec, made, when, res, ended>>

Return(w, r) ==
    /\ pc' = [pc EXCEPT ![w] = "done"]
    /\ res' = [res EXCEPT ![w] = r]
    /\ ended' = [ended EXCEPT ![w] = now]

IsElapsed(w) == when[w] <= now

(* Mutant: the new timer runs for two intervals.                           *)
TimerFires_Twice(w) ==
    /\ pc[w] = "select" /\ timer[w] <= now
    /\ IF IsElapsed(w)
       THEN Return(w, "nil") /\ UNCHANGED timer
       ELSE /\ timer' = [timer EXCEPT ![w] = now + 2 * PollInterval]
            /\ UNCHANGED <<pc, res, ended>>
    /\ UNCHANGED <<now, timeout, kind, sec, made, when, began, ctx>>

(* The case of time.After: look at the clock, or arm a new timer.          *)
TimerFires(w) ==
    /\ pc[w] = "select" /\ timer[w] <= now
    /\ IF IsElapsed(w)
       THEN Return(w, "nil") /\ UNCHANGED timer
       ELSE timer' = [timer EXCEPT ![w] = now + PollInterval] /\ UNCHANGED <<pc, res, ended>>
    /\ UNCHANGED <<now, timeout, kind, sec, made, when, began, ctx>>

(* Mutant: the context is looked at when the timer fires.                  *)
ContextDone_AtPoll(w) ==
    /\ pc[w] = "select" /\ ctx[w] = "done" /\ timer[w] = now /\ IsElapsed(w)
    /\ Return(w, "ctx.Err")
    /\ UNCHANGED <<now, timeout, kind, sec, made, when, began, timer, ctx>>

(* The case of ctx.Done.                                                   *)
ContextDone(w) ==
    /\ pc[w] = "select" /\ ctx[w] = "done"
    /\ Return(w, "ctx.Err")
    /\ UNCHANGED <<now, timeout, kind, sec, made, when, began, timer, ctx>>
-----------------------------------------------------------------------------
(* The environment: one dispute, deadlines, and the time, which does not    *)
(* run further than MaxLateness past a timer.                              *)

Dispute ==
    /\ timeout = 0
    /\ timeout' = now + ChallengeDuration * Second
    /\ UNCHANGED <<now, pc, kind, sec, made, when, began, timer, ctx, res, ended>>

Cancel(w) ==
    /\ pc[w] = "select" /\ ctx[w] = "deadline"
    /\ ctx' = [ctx EXCEPT ![w] = "done"]
    /\ UNCHANGED <<now, timeout, pc, kind, sec, made, when, began, timer, res, ended>>

Tick ==
    /\ now < Horizon
    /\ \A w \in Waiters : pc[w] = "select" => now < timer[w] + MaxLateness
    /\ now' = now + 1
    /\ UNCHANGED <<timeout, pc, kind, sec, made, when, began, timer, ctx, res, ended>>
-----------------------------------------------------------------------------
Step(w) == Wait(w) \/ TimerFires(w) \/ ContextDone(w)

Next ==
    \/ \E w \in Waiters : EventTimeout(w) \/ CheckDisputes(w) \/ NextEvent(w) \/ Step(w) \/ Cancel(w)
    \/ Dispute \/ Tick

Spec == Init /\ [][Next]_vars

(* The clock runs, a goroutine goes on, a context with a deadline expires. *)
FairSpec ==
    /\ Spec
    /\ WF_vars(Tick)
    /\ \A w \in Waiters : WF_vars(Step(w)) /\ WF_vars(Cancel(w))
-----------------------------------------------------------------------------
TypeOK ==
    /\ now \in Nat /\ timeout \in Nat
    /\ pc \in [Waiters -> {"idle", "made", "select", "done"}]
    /\ kind \in [Waiters -> {"duration", "timepoint", "timestamp"}]
    /\ sec \in [Waiters -> Nat]
    /\ made \in [Waiters -> Nat] /\ began \in [Waiters -> Nat]
    /\ timer \in [Waiters -> Nat] /\ ended \in [Waiters -> Nat]
    /\ when \in [Waiters -> Int]
    /\ \A w \in Waiters : when[w] - made[w] \in -HalfRange .. HalfRange - 1
    /\ ctx \in [Waiters -> {"open", "deadline", "done"}]
    /\ res \in [Waiters -> {"none", "nil", "ctx.Err"}]

Later(a, b) == IF a >= b THEN a ELSE b

(* A Wait for a number of seconds that 63 bits of nanoseconds can hold     *)
(* returns nil neither before they are over nor more than a poll interval  *)
(* (and the goroutine's lateness) after, counted from their end or from    *)
(* the call if that came later (timeout.go, MakeTime, Wait, IsElapsed).    *)
DurationIsWaited ==
    \A w \in Waiters :
        LET due == made[w] + sec[w] * Second IN
        res[w] = "nil" /\ sec[w] * Second < HalfRange =>
            /\ ended[w] >= due
            /\ ended[w] <= Later(due, began[w]) + PollInterval + MaxLateness

(* What a Wait under way says of the clock: the next look comes at most a  *)
(* poll interval after the due time or the call (timeout.go, Wait).        *)
IInv ==
    /\ TypeOK
    /\ timeout = 0 \/ timeout >= ChallengeDuration * Second
    /\ \A w \in Waiters :
         /\ pc[w] # "idle" => when[w] = made[w] + MakeTime(sec[w])
         /\ res[w] # "none" => pc[w] = "done"
         /\ pc[w] = "select" =>
               /\ timer[w] <= Later(when[w], began[w]) + PollInterval
               /\ now <= timer[w] + MaxLateness
         /\ res[w] = "nil" =>
               /\ ended[w] >= when[w]
               /\ ended[w] <= Later(when[w], began[w]) + PollInterval + MaxLateness

(* Every Wait ends whose due time is in reach of the clock, and every Wait *)
(* with a deadline, also when the product has wrapped (timeout.go, Wait).  *)
InReach(w) == Later(when[w], timer[w]) + PollInterval + MaxLateness <= Horizon

EveryWaitEnds ==
    \A w \in Waiters :
        pc[w] = "select" /\ (ctx[w] = "deadline" \/ InReach(w)) ~> pc[w] = "done"

(* "Timeout can be used to wait until a specific timepoint is reached by   *)
(* the blockchain" (timeout.go): a nil Wait of checkDisputes ends no       *)
(* earlier than the timeout of the registered state.                       *)
TimepointIsReached ==
    \A w \in Waiters :
        res[w] = "nil" /\ kind[w] = "timepoint" => ended[w] >= sec[w]
=============================================================================
