----------------------------- MODULE AdjEventSub -----------------------------
(***************************************************************************)
(* connector/subscribe.go: one subscription as Adjudicator.Subscribe hands *)
(* it out, from NewAdjudicatorSub to its end.  The goroutine run polls the *)
(* canister; the callers call Next and Close of the interface of go-perun, *)
(* which gives no access to panicErr; the parties of the channel go on     *)
(* using the canister.                                                     *)
(*                                                                         *)
(* A step is one case of a select, one send to a channel or one message to *)
(* the canister.                                                           *)
(***************************************************************************)
EXTENDS AdjudicatorEvents

CONSTANTS
    Callers,   \* the goroutines that call Next and Close
    MaxFaults  \* bound: polls that fail

ASSUME SubscriptionAssumption == MaxLag \in Nat /\ MaxFaults \in Nat

(* Mutant: one place.                                                      *)
DefaultBufferSize_One == 1

(* The buffer of events; panicErr has room for one.                        *)
DefaultBufferSize == 3

VARIABLES
    can,           \* the Perun canister
    run,           \* where the goroutine is
    found,         \* adjEvents: the parsed events it has still to send
    seen,          \* history: the log that showed it these events
    events,        \* the buffer of the channel events
    eventsClosed,  \* the channel events is closed
    panicErr,      \* the buffer of panicErr is full
    ctxDone,       \* the context of the subscription is done
    closed,        \* the closer is closed
    pc,            \* pc[c]: where c's call of Next is: "idle" if there is none,
                   \* "select" after IsClosed, "event" after the case event
    ev,            \* ev[c]: the event that it has received
    got,           \* got[c]: the events that Next returned to c
    faults         \* number of failed polls so far

goroutine == <<run, found, seen, panicErr, faults>>
channel == <<events, eventsClosed>>
callers == <<pc, ev, got>>
vars == <<can, goroutine, channel, ctxDone, closed, callers>>

TypeOK ==
    /\ can \in Canisters
    /\ run \in {"polling", "report", "send", "returned"}
    /\ found \in Seq(Events) /\ seen \in Seq(Events)
    /\ events \in Seq(Events) /\ Len(events) <= DefaultBufferSize
    /\ eventsClosed \in BOOLEAN /\ panicErr \in BOOLEAN
    /\ ctxDone \in BOOLEAN /\ closed \in BOOLEAN
    /\ pc \in [Callers -> {"idle", "select", "event"}]
    /\ ev \in [Callers -> SUBSET Events]
    /\ got \in [Callers -> SUBSET Events]
    /\ faults \in 0..MaxFaults

(* NewAdjudicatorSub, on a channel that is not registered yet.             *)
Init ==
    /\ can = EmptyCanister
    /\ run = "polling" /\ found = <<>> /\ seen = <<>>
    /\ events = <<>> /\ eventsClosed = FALSE /\ panicErr = FALSE
    /\ ctxDone = FALSE /\ closed = FALSE
    /\ pc = [c \in Callers |-> "idle"]
    /\ ev = [c \in Callers |-> {}]
    /\ got = [c \in Callers |-> {}]
    /\ faults = 0
-----------------------------------------------------------------------------
(* The goroutine run.  Its own case event := <-s.events is never ready     *)
(* (OwnEventsNotTaken) and has no action.                                  *)

(* A turn that finds no event changes nothing.                             *)
Poll ==
    /\ run = "polling"
    /\ \/ \E log \in VisibleLogs(can) :
             /\ parseEventsAll(log) # <<>>
             /\ found' = parseEventsAll(log) /\ seen' = log
             /\ run' = "send"
             /\ UNCHANGED <<panicErr, faults>>
       \/ /\ faults < MaxFaults /\ faults' = faults + 1
          /\ run' = "report"
          /\ UNCHANGED <<found, seen, panicErr>>
    /\ UNCHANGED <<can, channel, ctxDone, closed, callers>>

(* Mutant: the goroutine returns with its first error.                     *)
Report_Returning ==
    /\ run = "report" /\ ~panicErr
    /\ panicErr' = TRUE
    /\ run' = "returned"
    /\ UNCHANGED <<can, found, seen, faults, channel, ctxDone, closed, callers>>

(* panicErr <- err.  Nobody receives: the second report blocks.            *)
Report ==
    /\ run = "report" /\ ~panicErr
    /\ panicErr' = TRUE
    /\ run' = "polling"
    /\ UNCHANGED <<can, found, seen, faults, channel, ctxDone, closed, callers>>

(* Mutant: the goroutine polls on after it has delivered.                  *)
Send_AndPollOn ==
    /\ run = "send" /\ Len(events) < DefaultBufferSize
    /\ events' = Append(events, Head(found))
    /\ found' = Tail(found)
    /\ run' = IF found' = <<>> THEN "polling" ELSE "send"
    /\ UNCHANGED <<can, seen, panicErr, faults, eventsClosed, ctxDone, closed, callers>>

(* s.events <- event; the goroutine returns after the last one and leaves  *)
(* the channel open.                                                       *)
Send ==
    /\ run = "send" /\ Len(events) < DefaultBufferSize
    /\ events' = Append(events, Head(found))
    /\ found' = Tail(found)
    /\ run' = IF found' = <<>> THEN "returned" ELSE "send"
    /\ UNCHANGED <<can, seen, panicErr, faults, eventsClosed, ctxDone, closed, callers>>

(* Mutant: the channel stays open.                                         *)
RunDone_NoFinish ==
    /\ run = "polling" /\ ctxDone
    /\ run' = "returned"
    /\ UNCHANGED eventsClosed
    /\ UNCHANGED <<can, found, seen, panicErr, faults, events, ctxDone, closed, callers>>

(* finish.                                                                 *)
RunDone ==
    /\ run = "polling" /\ ctxDone
    /\ run' = "returned"
    /\ eventsClosed' = TRUE
    /\ UNCHANGED <<can, found, seen, panicErr, faults, events, ctxDone, closed, callers>>

Run == Poll \/ Report \/ Send \/ RunDone
-----------------------------------------------------------------------------
(* Next.  On a closed subscription it returns nil at once, which changes   *)
(* nothing.                                                                *)

(* Mutant: IsClosed is not asked.                                          *)
NextCalled_Unchecked(c) ==
    /\ pc[c] = "idle"
    /\ pc' = [pc EXCEPT ![c] = "select"]
    /\ UNCHANGED <<can, goroutine, channel, ctxDone, closed, ev, got>>

NextCalled(c) ==
    /\ pc[c] = "idle" /\ ~closed
    /\ pc' = [pc EXCEPT ![c] = "select"]
    /\ UNCHANGED <<can, goroutine, channel, ctxDone, closed, ev, got>>

NextReceives(c) ==
    /\ pc[c] = "select" /\ events # <<>>
    /\ events' = Tail(events)
    /\ pc' = [pc EXCEPT ![c] = "event"]
    /\ ev' = [ev EXCEPT ![c] = {Head(events)}]
    /\ UNCHANGED <<can, goroutine, eventsClosed, ctxDone, closed, got>>

(* Mutant: only a conclusion closes the subscription.                      *)
NextReturnsEvent_ClosingWhenConcluded(c) ==
    /\ pc[c] = "event"
    /\ pc' = [pc EXCEPT ![c] = "idle"]
    /\ got' = [got EXCEPT ![c] = @ \cup ev[c]]
    /\ ev' = [ev EXCEPT ![c] = {}]
    /\ closed' = (closed \/ \E e \in ev[c] : e.type = "Concluded")
    /\ UNCHANGED <<can, goroutine, channel, ctxDone>>

(* closer.Close, and return.                                               *)
NextReturnsEvent(c) ==
    /\ pc[c] = "event"
    /\ pc' = [pc EXCEPT ![c] = "idle"]
    /\ got' = [got EXCEPT ![c] = @ \cup ev[c]]
    /\ ev' = [ev EXCEPT ![c] = {}]
    /\ closed' = TRUE
    /\ UNCHANGED <<can, goroutine, channel, ctxDone>>

(* Mutant: a nil of a concrete type, which is no nil for the caller.       *)
NextReturnsNil_Typed(c) ==
    /\ pc[c] = "select"
    /\ (eventsClosed /\ events = <<>>) \/ closed
    /\ pc' = [pc EXCEPT ![c] = "idle"]
    /\ got' = [got EXCEPT ![c] = @ \cup {Event("nil", 0)}]
    /\ UNCHANGED <<can, goroutine, channel, ctxDone, closed, ev>>

(* The channel is closed and empty, or the closer is closed.               *)
NextReturnsNil(c) ==
    /\ pc[c] = "select"
    /\ (eventsClosed /\ events = <<>>) \/ closed
    /\ pc' = [pc EXCEPT ![c] = "idle"]
    /\ UNCHANGED <<can, goroutine, channel, ctxDone, closed, ev, got>>

NextStep(c) == NextReceives(c) \/ NextReturnsEvent(c) \/ NextReturnsNil(c)

(* Close closes the closer only: the goroutine polls on.                   *)
Close ==
    /\ ~closed /\ closed' = TRUE
    /\ UNCHANGED <<can, goroutine, channel, ctxDone, callers>>
-----------------------------------------------------------------------------
(* The environment: the owner of the context, and the parties' messages.   *)
Cancel ==
    /\ ~ctxDone /\ ctxDone' = TRUE
    /\ UNCHANGED <<can, goroutine, channel, closed, callers>>

SignedRequests == [version : Versions, signed : {TRUE}]

Party ==
    /\ \E req \in SignedRequests :
          \/ CanDispute(can, req) /\ can' = OnDispute(can, req)
          \/ CanConclude(can, req) /\ can' = OnConclude(can, req)
    /\ UNCHANGED <<goroutine, channel, ctxDone, closed, callers>>

Expire ==
    /\ CanExpire(can) /\ can' = OnExpire(can)
    /\ UNCHANGED <<goroutine, channel, ctxDone, closed, callers>>

Next ==
    \/ Run \/ Close \/ Cancel \/ Party \/ Expire
    \/ \E c \in Callers : NextCalled(c) \/ NextStep(c)

Spec == Init /\ [][Next]_vars

(* The goroutine and the calls of Next keep running, and of a log that     *)
(* shows events a poll that succeeds sees some in the end.  Nothing makes  *)
(* a poll fail, a caller call Next or Close, or the context end.           *)
FairSpec ==
    /\ Spec
    /\ WF_vars(Run)
    /\ \A c \in Callers : WF_vars(NextStep(c))
-----------------------------------------------------------------------------
(* The events that a call of Next has taken from the channel.              *)
Taken(c) == got[c] \cup ev[c]
AllTaken == UNION {Taken(c) : c \in Callers}

(* run receives from the channel it sends to: it never takes an event away *)
(* from the callers, and never closes the channel on an event they have    *)
(* not read (subscribe.go, the case <-s.events of run).                    *)
OwnEventsNotTaken == run = "polling" => events = <<>> /\ found = <<>>

(* The goroutine never waits for a caller to make room: it returns with    *)
(* its events delivered, although nobody may call Next any more, as after  *)
(* Close (subscribe.go, DefaultBufferSize and run).                        *)
SendNeverBlocks == run = "send" => Len(events) < DefaultBufferSize

(* An event is the newest of its type that the poll saw, and one caller is *)
(* told of a dispute only after another one took the conclusion, if the    *)
(* poll saw one (subscribe.go, Next; utils.go, parseAdjEvents).            *)
NewestAndConclusionFirst ==
    /\ \A e \in AllTaken :
          /\ \E i \in DOMAIN seen : seen[i] = e
          /\ \A i \in DOMAIN seen : seen[i].type = e.type => seen[i].version <= e.version
    /\ (\E e \in AllTaken : e.type = "Disputed") =>
          \A i \in DOMAIN seen : seen[i].type = "Concluded" => seen[i] \in AllTaken

(* The goroutine waits for a second report to be read, which nobody does.  *)
Stuck == run = "report" /\ panicErr

(* A Next returns once the subscription or its context has ended, unless   *)
(* two polls have failed and only Close can end it (subscribe.go, finish   *)
(* and the case <-s.closer.Closed() of Next).                              *)
NextReturns ==
    \A c \in Callers :
        /\ pc[c] # "idle" /\ closed ~> pc[c] = "idle"
        /\ pc[c] # "idle" /\ ctxDone ~> pc[c] = "idle" \/ Stuck

(* Close does not end the goroutine, but it never outlives the context, or *)
(* the first poll that shows it an event, whether callers read or not,     *)
(* unless two polls have failed (subscribe.go, run, Close).                *)
GoroutineEnds ==
    /\ ctxDone ~> run = "returned" \/ Stuck
    /\ can.log # <<>> ~> run = "returned" \/ Stuck

(* A Next that waits on a channel with an event returns: also if the event *)
(* was logged while the poll was under way, or another caller took it      *)
(* (subscribe.go, run and Next).                                           *)
EventWakesNext ==
    \A c \in Callers :
        pc[c] # "idle" /\ can.log # <<>> ~> pc[c] = "idle" \/ Stuck

(* AdjEventSub implements AdjudicatorSubscription: the events, whoever     *)
(* takes them, come one to a caller and each to one, out of the log, and   *)
(* only to a Next that was called before the subscription was closed.      *)
Promise == INSTANCE AdjudicatorSubscription WITH
    log <- can.log,
    waiting <- {c \in Callers : pc[c] # "idle"}

ImplementsSubscription == Promise!Spec
-----------------------------------------------------------------------------
(* Why the safety properties hold: an inductive invariant.                 *)

parsed == parseEventsAll(seen)
Consumed == Len(parsed) - Len(events) - Len(found)

(* The parsed events are taken, in the buffer, or still to be sent, in     *)
(* their order, and none of them got lost.                                 *)
Fifo ==
    /\ Consumed \in Nat
    /\ \A i \in DOMAIN events : events[i] = parsed[Consumed + i]
    /\ \A i \in DOMAIN found : found[i] = parsed[Consumed + Len(events) + i]
    /\ AllTaken = {parsed[i] : i \in 1..Consumed}

RunInv ==
    /\ run \in {"polling", "report"} => seen = <<>>
    /\ run = "send" <=> found # <<>>

(* Who has got an event is not served again, and nobody else has got it.   *)
CallerInv ==
    \A c \in Callers :
        /\ got[c] # {} => closed /\ pc[c] = "idle"
        /\ IF pc[c] = "event" THEN \E e \in Events : ev[c] = {e} ELSE ev[c] = {}
        /\ \A d \in Callers \ {c} : Taken(c) \cap Taken(d) = {}

SeenIsLogged == \A i \in DOMAIN seen : Logged(can, seen[i].type, seen[i].version)

IInv == TypeOK /\ LogConsistent(can) /\ SeenIsLogged /\ Fifo /\ RunInv /\ CallerInv
=============================================================================
