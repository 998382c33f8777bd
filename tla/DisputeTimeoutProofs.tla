------------------------ MODULE DisputeTimeoutProofs ------------------------
(***************************************************************************)
(* The timeout's invariants, for any width of integers, any unit of time,  *)
(* any durations and any number of waiters.                                *)
(***************************************************************************)
EXTENDS DisputeTimeout, TLAPS

LEMMA Constants ==
    /\ HalfRange \in Nat /\ HalfRange > 0
    /\ Second \in Nat /\ PollInterval \in Nat /\ MaxLateness \in Nat
    /\ ChallengeDuration \in Nat /\ Start \in Nat
    /\ \A s \in Durations : s \in Nat
  BY TimeoutAssumption DEF Uint64

(* A remainder is what the modulus leaves, and a number below the modulus  *)
(* is its own.                                                             *)
LEMMA Remainder ==
  ASSUME NEW m \in Nat \ {0}, NEW x \in Int
  PROVE  x % m \in 0..m - 1 /\ (x \in 0..m - 1 => x % m = x)
  OBVIOUS

(* Wrapping yields an int64, and keeps what is one already.                *)
LEMMA Wrapping ==
  ASSUME NEW x \in Int
  PROVE  /\ ToInt64(x) \in -HalfRange .. HalfRange - 1
         /\ x \in -HalfRange .. HalfRange - 1 => ToInt64(x) = x
  <1>1. 2 * HalfRange \in Nat \ {0} /\ x + HalfRange \in Int
    BY Constants
  <1> DEFINE y == x + HalfRange
             m == 2 * HalfRange
  <1>2. y % m \in 0..m - 1 /\ (y \in 0..m - 1 => y % m = y)
    BY <1>1, Remainder
  <1>3. ToInt64(x) = (y % m) - HalfRange
    BY DEF ToInt64
  <1> HIDE DEF m
  <1>4. m = 2 * HalfRange
    BY DEF m
  <1>5. x \in -HalfRange .. HalfRange - 1 => y \in 0..m - 1
    BY <1>1, <1>4, Constants
  <1> QED BY <1>2, <1>3, <1>4, <1>5, Constants

LEMMA MakeTimeWraps ==
  ASSUME NEW s \in Nat
  PROVE  /\ s * Second \in Nat
         /\ MakeTime(s) \in -HalfRange .. HalfRange - 1
         /\ s * Second < HalfRange => MakeTime(s) = s * Second
  <1>1. s * Second \in Nat
    BY Constants
  <1> QED BY <1>1, Wrapping, Constants DEF MakeTime

LEMMA InitIInv == Init => IInv
  <1> SUFFICES ASSUME Init PROVE IInv
    OBVIOUS
  <1>1. TypeOK
    BY Constants DEF Init, TypeOK
  <1> QED BY <1>1 DEF Init, IInv

(* Everything the invariant says of one waiter.                            *)
WaiterInv(w) ==
    /\ pc[w] # "idle" => when[w] = made[w] + MakeTime(sec[w])
    /\ res[w] # "none" => pc[w] = "done"
    /\ pc[w] = "select" =>
          /\ timer[w] <= Later(when[w], began[w]) + PollInterval
          /\ now <= timer[w] + MaxLateness
    /\ res[w] = "nil" =>
          /\ ended[w] >= when[w]
          /\ ended[w] <= Later(when[w], began[w]) + PollInterval + MaxLateness

(* A step of one waiter leaves the others alone.                           *)
LEMMA OneWaiter ==
  ASSUME IInv, NEW w \in Waiters, TypeOK', WaiterInv(w)', now' = now,
         \A v \in Waiters \ {w} :
            /\ pc'[v] = pc[v] /\ sec'[v] = sec[v] /\ made'[v] = made[v]
            /\ when'[v] = when[v] /\ began'[v] = began[v] /\ timer'[v] = timer[v]
            /\ res'[v] = res[v] /\ ended'[v] = ended[v],
         timeout' = timeout
  PROVE  IInv'
  <1>1. ASSUME NEW v \in Waiters PROVE WaiterInv(v)'
    BY DEF IInv, WaiterInv
  <1> QED BY <1>1 DEF IInv, WaiterInv

LEMMA MakeTimeoutIInv ==
  ASSUME IInv, NEW w \in Waiters, NEW k \in {"duration", "timepoint", "timestamp"}, NEW s \in Nat,
         MakeTimeout(w, k, s)
  PROVE  IInv'
  <1>1. /\ MakeTime(s) \in -HalfRange .. HalfRange - 1
        /\ MakeTime(s) \in Int
    BY MakeTimeWraps, Constants
  <1>2. TypeOK'
    <2>1. \A v \in Waiters : when'[v] - made'[v] \in -HalfRange .. HalfRange - 1
      BY <1>1, Constants DEF MakeTimeout, IInv, TypeOK
    <2> QED BY <1>1, <2>1 DEF MakeTimeout, IInv, TypeOK
  <1>3. WaiterInv(w)'
    BY <1>1 DEF MakeTimeout, IInv, TypeOK, WaiterInv
  <1> QED BY <1>2, <1>3, OneWaiter DEF MakeTimeout, IInv, TypeOK

LEMMA NextEventIInv ==
  ASSUME IInv, NEW w \in Waiters, NextEvent(w) PROVE IInv'
  <1> DEFINE challenge == ChallengeDuration * Second
  <1>1. challenge \in Nat
    BY Constants
  <1>2. timeout \in Nat /\ timeout >= challenge /\ MakeTimeout(w, "timestamp", timeout - challenge)
    BY DEF NextEvent, IInv, TypeOK
  <1> HIDE DEF challenge
  <1>3. timeout - challenge \in Nat
    BY <1>1, <1>2
  <1> QED BY <1>2, <1>3, MakeTimeoutIInv

LEMMA WaitIInv ==
  ASSUME IInv, NEW w \in Waiters, Wait(w) PROVE IInv'
  <1>1. TypeOK'
    BY Constants DEF Wait, IInv, TypeOK
  <1>2. WaiterInv(w)'
    BY Constants DEF Wait, IInv, TypeOK, WaiterInv, Later
  <1> QED BY <1>1, <1>2, OneWaiter DEF Wait, IInv, TypeOK

LEMMA TimerFiresIInv ==
  ASSUME IInv, NEW w \in Waiters, TimerFires(w) PROVE IInv'
  <1>1. TypeOK'
    BY Constants DEF TimerFires, Return, IInv, TypeOK
  <1>2. WaiterInv(w)'
    <2>1. CASE IsElapsed(w) /\ Return(w, "nil") /\ UNCHANGED timer
      BY <2>1, Constants
      DEF TimerFires, Return, IsElapsed, IInv, TypeOK, WaiterInv, Later
    <2>2. CASE ~IsElapsed(w) /\ timer' = [timer EXCEPT ![w] = now + PollInterval]
               /\ UNCHANGED <<pc, res, ended>>
      BY <2>2, Constants
      DEF TimerFires, IsElapsed, IInv, TypeOK, WaiterInv, Later
    <2> QED BY <2>1, <2>2 DEF TimerFires
  <1> QED BY <1>1, <1>2, OneWaiter DEF TimerFires, Return, IInv, TypeOK

LEMMA ContextDoneIInv ==
  ASSUME IInv, NEW w \in Waiters, ContextDone(w) PROVE IInv'
  <1>1. TypeOK'
    BY DEF ContextDone, Return, IInv, TypeOK
  <1>2. WaiterInv(w)'
    BY DEF ContextDone, Return, IInv, TypeOK, WaiterInv
  <1> QED BY <1>1, <1>2, OneWaiter DEF ContextDone, Return, IInv, TypeOK

LEMMA EnvironmentIInv ==
  ASSUME IInv, Dispute \/ Tick \/ \E w \in Waiters : Cancel(w) PROVE IInv'
  <1>1. TypeOK'
    <2>1. ChallengeDuration * Second \in Nat
      BY Constants
    <2> QED BY <2>1 DEF Dispute, Tick, Cancel, IInv, TypeOK
  <1>2. ASSUME NEW w \in Waiters PROVE WaiterInv(w)'
    BY Constants DEF Dispute, Tick, Cancel, IInv, TypeOK, WaiterInv
  <1>3. timeout' = 0 \/ timeout' >= ChallengeDuration * Second
    <2>1. ChallengeDuration * Second \in Nat
      BY Constants
    <2> QED BY <2>1 DEF Dispute, Tick, Cancel, IInv, TypeOK
  <1> QED BY <1>1, <1>2, <1>3 DEF IInv, WaiterInv
-----------------------------------------------------------------------------
(* IInv is inductive.                                                      *)
THEOREM Inductive == Spec => []IInv
  <1>1. IInv /\ [Next]_vars => IInv'
    <2> SUFFICES ASSUME IInv, [Next]_vars PROVE IInv'
      OBVIOUS
    <2>1. ASSUME NEW w \in Waiters, EventTimeout(w) PROVE IInv'
      BY <2>1, MakeTimeoutIInv, Constants DEF EventTimeout
    <2>2. ASSUME NEW w \in Waiters, CheckDisputes(w) PROVE IInv'
      BY <2>2, MakeTimeoutIInv DEF CheckDisputes, IInv, TypeOK
    <2>3. ASSUME NEW w \in Waiters, NextEvent(w) PROVE IInv'
      BY <2>3, NextEventIInv
    <2>4. ASSUME NEW w \in Waiters, Step(w) PROVE IInv'
      BY <2>4, WaitIInv, TimerFiresIInv, ContextDoneIInv DEF Step
    <2>5. CASE Dispute \/ Tick \/ \E w \in Waiters : Cancel(w)
      BY <2>5, EnvironmentIInv
    <2>6. CASE UNCHANGED vars
      BY <2>6 DEF vars, IInv, TypeOK
    <2> QED BY <2>1, <2>2, <2>3, <2>4, <2>5, <2>6 DEF Next
  <1> QED BY <1>1, InitIInv, PTL DEF Spec

(* The variables keep their types, and a computed instant stays within the *)
(* range of a duration.                                                    *)
THEOREM TypeCorrect == Spec => []TypeOK
  <1>1. IInv => TypeOK
    BY DEF IInv
  <1> QED BY <1>1, Inductive, PTL

(* A Wait for a duration that does not wrap is neither early nor more than *)
(* one poll late, whatever the width and the unit of time.                 *)
THEOREM DurationsAreWaited == Spec => []DurationIsWaited
  <1>1. IInv => DurationIsWaited
    <2> SUFFICES ASSUME IInv, NEW w \in Waiters, res[w] = "nil",
                        sec[w] * Second < HalfRange
                 PROVE  LET due == made[w] + sec[w] * Second IN
                        /\ ended[w] >= due
                        /\ ended[w] <= Later(due, began[w]) + PollInterval + MaxLateness
      BY DEF DurationIsWaited
    <2>1. sec[w] \in Nat /\ res[w] # "none"
      BY DEF IInv, TypeOK
    <2>2. MakeTime(sec[w]) = sec[w] * Second
      BY <2>1, MakeTimeWraps
    <2>3. when[w] = made[w] + sec[w] * Second
      BY <2>1, <2>2 DEF IInv
    <2> QED BY <2>3 DEF IInv
  <1> QED BY <1>1, Inductive, PTL
=============================================================================
