----------------------- MODULE AdjudicatorSubscription -----------------------
(***************************************************************************)
(* What an AdjEventSub promises those who call Next, without polling,      *)
(* goroutines and channels: nothing but events of the channel, no event to *)
(* two callers, one event to a caller at most, and nil for good once the   *)
(* subscription is closed, be it by Close or by an event it has returned.  *)
(***************************************************************************)
EXTENDS Sequences, Naturals

CONSTANTS Callers, Events

VARIABLES
    log,      \* the events of the channel so far
    waiting,  \* the callers whose Next has not returned
    got,      \* got[c]: the events that Next returned to c
    closed    \* the subscription is closed

vars == <<log, waiting, got, closed>>

Init == log = <<>> /\ waiting = {} /\ got = [c \in Callers |-> {}] /\ closed = FALSE

Record ==
    /\ \E e \in Events : log' = Append(log, e)
    /\ UNCHANGED <<waiting, got, closed>>

Call(c) ==
    /\ ~closed
    /\ waiting' = waiting \cup {c}
    /\ UNCHANGED <<log, got, closed>>

ReturnEvent(c) ==
    /\ c \in waiting /\ got[c] = {}
    /\ \E i \in DOMAIN log :
          /\ \A d \in Callers : log[i] \notin got[d]
          /\ got' = [got EXCEPT ![c] = {log[i]}]
    /\ waiting' = waiting \ {c}
    /\ closed' = TRUE
    /\ UNCHANGED log

ReturnNil(c) ==
    /\ c \in waiting
    /\ waiting' = waiting \ {c}
    /\ UNCHANGED <<log, got, closed>>

Close == closed' = TRUE /\ UNCHANGED <<log, waiting, got>>

Next ==
    \/ Record \/ Close
    \/ \E c \in Callers : Call(c) \/ ReturnEvent(c) \/ ReturnNil(c)

Spec == Init /\ [][Next]_vars
=============================================================================
