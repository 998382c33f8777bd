-------------------------- MODULE AdjudicatorProofs --------------------------
(* Theorems about Adjudicator, for any participants, versions, requests    *)
(* and bounds.                                                             *)
EXTENDS Adjudicator, PerunCanisterProofs

(***************************************************************************)
(* Type correctness.                                                       *)
(***************************************************************************)

LEMMA SubTypes ==
    /\ NoSub \in Subs /\ NewAdjudicatorSub \in Subs
    /\ \A s \in Subs : /\ [s EXCEPT !.run = "blocked"] \in Subs
                       /\ [s EXCEPT !.run = "returned"] \in Subs
                       /\ [s EXCEPT !.panicErr = TRUE] \in Subs
    /\ \A s \in Subs, e \in Seq(Events) :
          /\ [s EXCEPT !.events = e] \in Subs
          /\ [s EXCEPT !.run = "returned", !.events = e] \in Subs
<1>1. <<>> \in Seq(Events)
  OBVIOUS
<1>2. NoSub \in Subs /\ NewAdjudicatorSub \in Subs
  BY <1>1 DEF Subs, NoSub, NewAdjudicatorSub
<1> QED
  BY <1>2 DEF Subs

(* A well-typed move of p's call, which leaves the other calls alone and   *)
(* whose subscription holds only events of the log.                        *)
LocalTypeOK ==
    /\ pc \in [Participants -> Locations]
    /\ res \in [Participants -> Results]
    /\ sub \in [Participants -> Subs]

AllLogged(s) == \A i \in DOMAIN s.events : Logged(can, s.events[i].type, s.events[i].version)

LocalMove(p) ==
    /\ LocalTypeOK'
    /\ \A q \in Participants \ {p} : pc'[q] = pc[q] /\ res'[q] = res[q] /\ sub'[q] = sub[q]
    /\ AllLogged(sub'[p])

LEMMA ControlMoves ==
    ASSUME LocalTypeOK, NEW p \in Participants,
           NEW l \in Locations, NEW r \in Results
    PROVE  /\ Goto(p, l) /\ UNCHANGED sub /\ AllLogged(sub[p]) => LocalMove(p)
           /\ GotoWithSub(p, l) => LocalMove(p)
           /\ GotoWithoutSub(p, l) => LocalMove(p)
           /\ Return(p, r) => LocalMove(p)
<1>1. AllLogged(NoSub) /\ AllLogged(NewAdjudicatorSub) /\ "idle" \in Locations
  BY DEF AllLogged, NoSub, NewAdjudicatorSub, Locations
<1>2. Goto(p, l) /\ UNCHANGED sub /\ AllLogged(sub[p]) => LocalMove(p)
  BY DEF LocalMove, LocalTypeOK, Goto
<1>3. GotoWithSub(p, l) => LocalMove(p)
  BY <1>1, SubTypes DEF LocalMove, LocalTypeOK, GotoWithSub, Goto
<1>4. GotoWithoutSub(p, l) => LocalMove(p)
  BY <1>1, SubTypes DEF LocalMove, LocalTypeOK, GotoWithoutSub, Goto
<1>5. ASSUME Return(p, r)
      PROVE  LocalMove(p)
  <2>1. /\ pc' = [pc EXCEPT ![p] = "idle"] /\ res' = [res EXCEPT ![p] = r]
        /\ sub' = [sub EXCEPT ![p] = NoSub]
    BY <1>5 DEF Return
  <2>2. LocalTypeOK'
    BY <1>1, <2>1, SubTypes DEF LocalTypeOK
  <2>3. AllLogged(sub'[p])
    <3>1. sub'[p] = NoSub
      BY <2>1 DEF LocalTypeOK
    <3> QED
      BY <1>1, <3>1
  <2>4. \A q \in Participants \ {p} : pc'[q] = pc[q] /\ res'[q] = res[q] /\ sub'[q] = sub[q]
    BY <2>1 DEF LocalTypeOK
  <2> QED
    BY <2>2, <2>3, <2>4 DEF LocalMove
<1> QED
  BY <1>2, <1>3, <1>4, <1>5

LEMMA SubMoves ==
    ASSUME LocalTypeOK, NEW p \in Participants,
           NEW s \in Subs, AllLogged(s),
           sub' = [sub EXCEPT ![p] = s], UNCHANGED <<pc, res>>
    PROVE  LocalMove(p)
BY DEF LocalMove, LocalTypeOK

LEMMA TailLogged ==
    ASSUME NEW s \in Subs, AllLogged(s), s.events # <<>>
    PROVE  /\ [s EXCEPT !.events = Tail(@)] \in Subs
           /\ AllLogged([s EXCEPT !.events = Tail(@)])
<1> DEFINE e == s.events
           t == Tail(e)
<1>1. e \in Seq(Events)
  BY DEF Subs
<1>2. t \in Seq(Events) /\ \A i \in DOMAIN t : i + 1 \in DOMAIN e /\ t[i] = e[i + 1]
  BY <1>1
<1>3. \A i \in DOMAIN t : Logged(can, t[i].type, t[i].version)
  BY <1>2 DEF AllLogged
<1>4. [s EXCEPT !.events = Tail(@)] = [s EXCEPT !.events = t]
  OBVIOUS
<1>5. [s EXCEPT !.events = t].events = t
  BY DEF Subs
<1> HIDE DEF t
<1> QED
  BY <1>2, <1>3, <1>4, <1>5, SubTypes DEF AllLogged

LEMMA LocationsAndResults ==
    /\ Waiting \subseteq Locations
    /\ {"idle", "dispute", "conclude", "queryAndMatchEvents", "queryState",
        "timeoutWait", "concludeDispute", "queryConcluded", "withdraw",
        "waitForDisputed", "waitForConcluded",
        "waitForDisputeConcluded"} \subseteq Locations
    /\ {"nil", "ErrFailDispute", "ErrFailConclude", "ErrFailWithdrawal",
        "ErrConcludedDifferentVersion", "ErrAdjudicatorReqIncompatible",
        "ErrNonceOutOfRange", "ErrNotRegistered", "ErrVersionTooHigh",
        "ErrQuery", "ErrContext"} \subseteq Results
BY DEF Locations, Waiting, Results

LEMMA EnsuredConcludedMoves ==
    ASSUME LocalTypeOK, NEW p \in Participants, EnsuredConcluded(p)
    PROVE  LocalMove(p)
BY ControlMoves, LocationsAndResults DEF EnsuredConcluded

(* The handlers change the canister only by its own messages.              *)
CanSteps ==
    \/ UNCHANGED can
    \/ \E p \in Participants :
          \/ can' = OnDispute(can, op[p])
          \/ can' = OnConclude(can, op[p])
          \/ can' = OnWithdraw(can, p)
    \/ can' = OnExpire(can)

(* Each action but the start of a call: a message to the canister, or      *)
(* none, and a well-typed local move.                                      *)
LEMMA StepMoves ==
    ASSUME TypeOK, DeliveredIsLogged, NEW p \in Participants,
           Step(p) \/ TimeoutElapsed(p) \/ Poll(p) \/ RunDone(p)
    PROVE  /\ CanSteps
           /\ LocalMove(p)
           /\ faults' \in Nat
           /\ Unrelated
<1>0. LocalTypeOK /\ faults \in Nat /\ can \in Canisters /\ AllLogged(sub[p])
  BY DEF TypeOK, LocalTypeOK, DeliveredIsLogged, AllLogged
<1>1. CASE Dispute(p)
  BY <1>0, <1>1, ControlMoves, LocationsAndResults
  DEF Dispute, Answered, CallFails, CanSteps
<1>2. CASE Conclude(p)
  BY <1>0, <1>2, ControlMoves, LocationsAndResults
  DEF Conclude, Answered, CallFails, CanSteps
<1>3. CASE QueryAndMatchEvents(p)
  BY <1>0, <1>3, ControlMoves, EnsuredConcludedMoves, LocationsAndResults
  DEF QueryAndMatchEvents, Sees, QueryAnswered, QueryFails, CanSteps
<1>4. CASE QueryState(p)
  BY <1>0, <1>4, ControlMoves, LocationsAndResults
  DEF QueryState, Sees, QueryAnswered, QueryFails, CanSteps
<1>5. CASE ConcludeDispute(p)
  BY <1>0, <1>5, ControlMoves, LocationsAndResults
  DEF ConcludeDispute, Answered, CallFails, CanSteps
<1>6. CASE QueryConcluded(p)
  BY <1>0, <1>6, ControlMoves, EnsuredConcludedMoves, LocationsAndResults
  DEF QueryConcluded, Sees, QueryAnswered, QueryFails, CanSteps
<1>7. CASE Withdraw(p)
  BY <1>0, <1>7, ControlMoves, LocationsAndResults
  DEF Withdraw, Answered, CallFails, CanSteps
<1>8. CASE ReceiveEvent(p)
  <2>1. CanSteps /\ faults' \in Nat /\ Unrelated
    BY <1>0, <1>8 DEF ReceiveEvent, CanSteps
  <2>2. Accepted(p) => LocalMove(p)
    BY <1>0, ControlMoves, EnsuredConcludedMoves, LocationsAndResults DEF Accepted
  <2>3. (/\ sub[p].events # <<>>
         /\ sub' = [sub EXCEPT ![p].events = Tail(@)]
         /\ UNCHANGED <<pc, res>>) => LocalMove(p)
    <3>1. sub[p] \in Subs
      BY <1>0 DEF LocalTypeOK
    <3>2. [sub EXCEPT ![p].events = Tail(@)]
            = [sub EXCEPT ![p] = [sub[p] EXCEPT !.events = Tail(@)]]
      OBVIOUS
    <3> QED
      BY <1>0, <3>1, <3>2, TailLogged, SubMoves
  <2> QED
    BY <1>8, <2>1, <2>2, <2>3 DEF ReceiveEvent
<1>9. CASE ContextDone(p)
  BY <1>0, <1>9, ControlMoves, LocationsAndResults DEF ContextDone, CanSteps
<1>10. CASE ReceivePanicErr(p)
  BY <1>0, <1>10, ControlMoves, LocationsAndResults DEF ReceivePanicErr, CanSteps
<1>11. CASE TimeoutElapsed(p)
  BY <1>0, <1>11, ControlMoves, LocationsAndResults DEF TimeoutElapsed, CanSteps
<1>12. CASE Poll(p)
  <2>1. CanSteps /\ faults' \in Nat /\ Unrelated
    BY <1>0, <1>12 DEF Poll, CanSteps, Sees, QueryAnswered, QueryFails
  <2>2. \A log \in VisibleLogs(can) :
          /\ parseEventsAll(log) \in Seq(Events)
          /\ \A i \in DOMAIN parseEventsAll(log) :
                Logged(can, parseEventsAll(log)[i].type, parseEventsAll(log)[i].version)
    BY <1>0, ParsedIsLogged
  <2>3. sub[p] \in Subs /\ UNCHANGED <<pc, res>>
    BY <1>0, <1>12 DEF LocalTypeOK, Poll
  <2>4. ASSUME NEW log \in VisibleLogs(can),
               sub' = [sub EXCEPT ![p].run = "returned",
                                  ![p].events = parseEventsAll(log)]
        PROVE  LocalMove(p)
    <3> DEFINE e == parseEventsAll(log)
               s == [sub[p] EXCEPT !.run = "returned", !.events = e]
    <3>1. s.events = e
      BY <2>3 DEF Subs
    <3>2. s \in Subs /\ AllLogged(s)
      BY <2>2, <2>3, <3>1, SubTypes DEF AllLogged
    <3>3. sub' = [sub EXCEPT ![p] = s]
      BY <1>0, <2>4 DEF LocalTypeOK
    <3> HIDE DEF s
    <3> QED
      BY <1>0, <2>3, <3>2, <3>3, SubMoves
  <2>5. ASSUME sub' = [sub EXCEPT ![p].run = "blocked"]
        PROVE  LocalMove(p)
    <3> DEFINE s == [sub[p] EXCEPT !.run = "blocked"]
    <3>1. s.events = sub[p].events
      BY <2>3 DEF Subs
    <3>2. s \in Subs /\ AllLogged(s)
      BY <1>0, <2>3, <3>1, SubTypes DEF AllLogged
    <3>3. sub' = [sub EXCEPT ![p] = s]
      BY <2>5
    <3> HIDE DEF s
    <3> QED
      BY <1>0, <2>3, <3>2, <3>3, SubMoves
  <2>6. ASSUME sub' = [sub EXCEPT ![p].panicErr = TRUE]
        PROVE  LocalMove(p)
    <3> DEFINE s == [sub[p] EXCEPT !.panicErr = TRUE]
    <3>1. s.events = sub[p].events
      BY <2>3 DEF Subs
    <3>2. s \in Subs /\ AllLogged(s)
      BY <1>0, <2>3, <3>1, SubTypes DEF AllLogged
    <3>3. sub' = [sub EXCEPT ![p] = s]
      BY <2>6
    <3> HIDE DEF s
    <3> QED
      BY <1>0, <2>3, <3>2, <3>3, SubMoves
  <2> QED
    BY <1>12, <2>1, <2>4, <2>5, <2>6 DEF Poll
<1>13. CASE RunDone(p)
  <2> DEFINE s == [sub[p] EXCEPT !.run = "returned"]
  <2>1. sub[p] \in Subs /\ s.events = sub[p].events
    BY <1>0 DEF LocalTypeOK, Subs
  <2>2. s \in Subs /\ AllLogged(s)
    BY <1>0, <2>1, SubTypes DEF AllLogged
  <2>3. sub' = [sub EXCEPT ![p] = s]
    BY <1>13 DEF RunDone
  <2> HIDE DEF s
  <2>4. LocalMove(p)
    BY <1>0, <1>13, <2>2, <2>3, SubMoves DEF RunDone
  <2> QED
    BY <1>0, <1>13, <2>4 DEF RunDone, CanSteps
<1> QED
  BY <1>1, <1>2, <1>3, <1>4, <1>5, <1>6, <1>7, <1>8, <1>9, <1>10, <1>11,
     <1>12, <1>13 DEF Step

(***************************************************************************)
(* The inductive invariant.                                                *)
(***************************************************************************)

LEMMA CanStepsEvolve ==
    ASSUME TypeOK, LogConsistent(can), CanSteps
    PROVE  Evolves(can, can') /\ LogConsistent(can')
<1>1. Consistent(can) /\ op \in [Participants -> Ops] /\ can \in Canisters
  BY DEF Consistent, TypeOK
<1>2. CASE UNCHANGED can
  BY <1>1, <1>2, EvolvesReflexive
<1>3. CASE can' = OnExpire(can)
  BY <1>1, <1>3, OnExpireEvolves DEF Consistent
<1>4. ASSUME NEW p \in Participants,
             \/ can' = OnDispute(can, op[p])
             \/ can' = OnConclude(can, op[p])
             \/ can' = OnWithdraw(can, p)
      PROVE  Evolves(can, can') /\ LogConsistent(can')
  <2>1. op[p].version \in Versions
    BY <1>1 DEF Ops
  <2> QED
    BY <1>1, <1>4, <2>1, OnDisputeEvolves, OnConcludeEvolves, OnWithdrawEvolves DEF Consistent
<1> QED
  BY <1>2, <1>3, <1>4 DEF CanSteps

(* A call that takes no step keeps what it knows.                          *)
LEMMA OthersKeep ==
    ASSUME TypeOK, Evolves(can, can'), NEW q \in Participants, CallInv(q),
           pc'[q] = pc[q], op'[q] = op[q], res'[q] = res[q]
    PROVE  CallInv(q)'
<1>1. op[q].version \in Versions /\ "Disputed" \in EventTypes
  BY DEF TypeOK, Ops, EventTypes
<1> QED
  BY <1>1 DEF CallInv, Evolves, EnsuredByCall, Returned, Disputes

(* The facts a move to a location, or a return, leaves to be shown.        *)
LEMMA CallInvAt ==
    ASSUME TypeOK, NEW p \in Participants, NEW l \in Locations,
           pc'[p] = l, l # "idle", UNCHANGED op,
           l \in {"dispute", "waitForDisputed"} => Disputes(op[p].kind, op[p]),
           l \in EnsureConcludedLocations => ~Disputes(op[p].kind, op[p]),
           l = "withdraw" => op[p].kind = "Withdraw" /\ can'.concluded,
           l = "waitForDisputed" => Logged(can', "Disputed", op[p].version),
           l = "waitForConcluded" => can'.concluded /\ can'.reg = op[p].version,
           l = "queryConcluded" => can'.concluded /\ can'.reg # NoVersion
    PROVE  CallInv(p)'
BY DEF CallInv, EnsuredByCall, Returned

LEMMA CallInvReturned ==
    ASSUME TypeOK, NEW p \in Participants, NEW r \in Results, UNCHANGED op,
           Return(p, r),
           r = "nil" => \/ /\ Disputes(op[p].kind, op[p])
                           /\ Logged(can', "Disputed", op[p].version)
                        \/ /\ ~Disputes(op[p].kind, op[p])
                           /\ can'.concluded
                           /\ op[p].kind = "Withdraw" => p \in can'.paid
    PROVE  CallInv(p)'
<1>1. pc'[p] = "idle" /\ res'[p] = r
  BY DEF Return, TypeOK
<1> QED
  BY <1>1 DEF CallInv, EnsuredByCall, Returned, Disputes, EnsureConcludedLocations

LEMMA CallInvEnsured ==
    ASSUME TypeOK, NEW p \in Participants, UNCHANGED op,
           EnsuredConcluded(p), ~Disputes(op[p].kind, op[p]), can'.concluded
    PROVE  CallInv(p)'
<1>1. CASE op[p].kind = "Withdraw"
  <2>1. pc'[p] = "withdraw"
    BY <1>1 DEF EnsuredConcluded, GotoWithoutSub, Goto, TypeOK
  <2> QED
    BY <1>1, <2>1, CallInvAt DEF Locations, EnsureConcludedLocations
<1>2. CASE op[p].kind # "Withdraw"
  BY <1>2, CallInvReturned DEF EnsuredConcluded, Results
<1> QED
  BY <1>1, <1>2

LEMMA GotoMoves ==
    ASSUME TypeOK, NEW p \in Participants, NEW l,
           Goto(p, l) \/ GotoWithSub(p, l) \/ GotoWithoutSub(p, l)
    PROVE  pc'[p] = l
BY DEF TypeOK, Goto, GotoWithSub, GotoWithoutSub

(* A conclusion that a replica shows, or that a subscription delivers, is  *)
(* the canister's conclusion.                                              *)
LEMMA LoggedConclusion ==
    ASSUME TypeOK, LogConsistent(can), NEW v \in Versions, Logged(can, "Concluded", v)
    PROVE  can.concluded /\ can.reg = v
BY DEF Logged, LogConsistent, Event

LEMMA StepCallInv ==
    ASSUME IInv, NEW p \in Participants,
           Step(p) \/ TimeoutElapsed(p) \/ Poll(p) \/ RunDone(p)
    PROVE  CallInv(p)'
<1> USE DEF EnsureConcludedLocations
<1>0. /\ TypeOK /\ LogConsistent(can) /\ CallInv(p) /\ can \in Canisters
      /\ Consistent(can) /\ op[p] \in Ops /\ op[p].version \in Versions
  BY DEF IInv, TypeOK, Consistent, Ops
<1>1. Unrelated /\ UNCHANGED op /\ CanSteps
  BY <1>0, StepMoves DEF IInv, Unrelated
<1>2. Evolves(can, can')
  BY <1>0, <1>1, CanStepsEvolve
<1>3. \A r \in Results : r # "nil" /\ Return(p, r) => CallInv(p)'
  BY <1>0, <1>1, CallInvReturned
<1>4. CASE Dispute(p)
  <2>1. Disputes(op[p].kind, op[p])
    BY <1>0, <1>4 DEF Dispute, CallInv
  <2>2. CASE /\ Answered(OnDispute(can, op[p])) /\ CanDispute(can, op[p])
             /\ GotoWithSub(p, "waitForDisputed")
    <3>1. Logged(can', "Disputed", op[p].version)
      BY <1>0, <2>2, OnDisputeEvolves DEF Answered
    <3> QED
      BY <1>0, <1>1, <2>1, <2>2, <3>1, GotoMoves, CallInvAt, LocationsAndResults
  <2> QED
    BY <1>3, <1>4, <2>2, LocationsAndResults DEF Dispute
<1>5. CASE Conclude(p)
  <2>1. ~Disputes(op[p].kind, op[p])
    BY <1>0, <1>5 DEF Conclude, CallInv
  <2>2. CASE /\ Answered(OnConclude(can, op[p])) /\ CanConclude(can, op[p])
             /\ Goto(p, "waitForConcluded")
    <3>1. can'.concluded /\ can'.reg = op[p].version
      BY <1>0, <2>2, OnConcludeEvolves DEF Answered
    <3> QED
      BY <1>0, <1>1, <2>1, <2>2, <3>1, GotoMoves, CallInvAt, LocationsAndResults
  <2>3. CASE GotoWithoutSub(p, "queryAndMatchEvents")
    BY <1>0, <1>1, <2>1, <2>3, GotoMoves, CallInvAt, LocationsAndResults
  <2> QED
    BY <1>3, <1>5, <2>2, <2>3, LocationsAndResults DEF Conclude
<1>6. CASE QueryAndMatchEvents(p)
  <2>1. ~Disputes(op[p].kind, op[p])
    BY <1>0, <1>6 DEF QueryAndMatchEvents, CallInv
  <2>2. ASSUME NEW log \in VisibleLogs(can), NEW ev \in Newest(log, "Concluded"),
               EnsuredConcluded(p), UNCHANGED can
        PROVE  CallInv(p)'
    <3>1. PICK i \in DOMAIN log : log[i].type = "Concluded"
      BY DEF Newest
    <3>2. log \in Seq(Events) /\ Logged(can, "Concluded", log[i].version)
      BY <1>0, <3>1, VisibleIsLogged
    <3>3. log[i].version \in Versions
      <4>1. log[i] \in Events
        BY <3>2
      <4> QED
        BY <4>1 DEF Events
    <3>4. can.concluded
      BY <1>0, <3>2, <3>3, LoggedConclusion
    <3> QED
      BY <1>0, <1>1, <2>1, <2>2, <3>4, CallInvEnsured
  <2>3. CASE Return(p, "ErrFailConclude") \/ Return(p, "ErrQuery")
    BY <1>3, <2>3, LocationsAndResults
  <2>4. can' = can
    BY <1>6 DEF QueryAndMatchEvents, Sees, QueryAnswered, QueryFails
  <2> QED
    BY <1>6, <2>2, <2>3, <2>4 DEF QueryAndMatchEvents
<1>7. CASE QueryState(p)
  <2>1. ~Disputes(op[p].kind, op[p])
    BY <1>0, <1>7 DEF QueryState, CallInv
  <2>2. CASE Goto(p, "timeoutWait")
    BY <1>0, <1>1, <2>1, <2>2, GotoMoves, CallInvAt, LocationsAndResults
  <2> QED
    BY <1>3, <1>7, <2>2, LocationsAndResults DEF QueryState
<1>8. CASE TimeoutElapsed(p)
  <2>1. ~Disputes(op[p].kind, op[p])
    BY <1>0, <1>8 DEF TimeoutElapsed, CallInv
  <2> QED
    BY <1>0, <1>1, <1>8, <2>1, GotoMoves, CallInvAt, LocationsAndResults
    DEF TimeoutElapsed
<1>9. CASE ConcludeDispute(p)
  <2>1. ~Disputes(op[p].kind, op[p])
    BY <1>0, <1>9 DEF ConcludeDispute, CallInv
  <2>2. CASE GotoWithSub(p, "waitForDisputeConcluded")
    BY <1>0, <1>1, <2>1, <2>2, GotoMoves, CallInvAt, LocationsAndResults
  <2> QED
    BY <1>3, <1>9, <2>2, LocationsAndResults DEF ConcludeDispute
<1>10. CASE QueryConcluded(p)
  <2>1. ~Disputes(op[p].kind, op[p]) /\ can.concluded
    BY <1>0, <1>10 DEF QueryConcluded, CallInv
  <2>2. can'.concluded
    BY <1>2, <2>1 DEF Evolves
  <2>3. CASE EnsuredConcluded(p)
    BY <1>0, <1>1, <2>1, <2>2, <2>3, CallInvEnsured
  <2> QED
    BY <1>3, <1>10, <2>3, LocationsAndResults DEF QueryConcluded
<1>11. CASE Withdraw(p)
  <2>1. op[p].kind = "Withdraw" /\ can.concluded
    BY <1>0, <1>11 DEF Withdraw, CallInv, EnsuredByCall
  <2>2. ~Disputes(op[p].kind, op[p]) /\ can'.concluded
    BY <1>2, <2>1 DEF Evolves, Disputes
  <2>3. CASE /\ Answered(OnWithdraw(can, p)) /\ CanWithdraw(can, p)
             /\ Return(p, "nil")
    <3>1. p \in can'.paid
      BY <1>0, <2>3, OnWithdrawEvolves DEF Answered
    <3> QED
      BY <1>0, <1>1, <2>2, <2>3, <3>1, CallInvReturned, LocationsAndResults
  <2> QED
    BY <1>3, <1>11, <2>3, LocationsAndResults DEF Withdraw
<1>12. CASE ReceiveEvent(p)
  <2> DEFINE ev == Head(sub[p].events)
  <2>1. UNCHANGED can
    BY <1>12 DEF ReceiveEvent
  <2>2. CASE UNCHANGED <<pc, res>>
    BY <1>0, <1>1, <1>2, <2>2, OthersKeep
  <2>3. CASE Accepts(p, ev) /\ Accepted(p)
    <3>1. CASE pc[p] = "waitForDisputed" /\ Return(p, "nil")
      BY <1>0, <1>1, <2>1, <3>1, CallInvReturned, LocationsAndResults DEF CallInv
    <3>2. CASE pc[p] = "waitForConcluded" /\ EnsuredConcluded(p)
      BY <1>0, <1>1, <2>1, <3>2, CallInvEnsured DEF CallInv
    <3>3. CASE pc[p] = "waitForDisputeConcluded" /\ GotoWithoutSub(p, "queryConcluded")
      <4>1. sub[p].events \in Seq(Events) /\ sub[p].events # <<>>
        BY <1>0, <1>12 DEF TypeOK, Subs, ReceiveEvent
      <4>2. 1 \in DOMAIN sub[p].events /\ ev = sub[p].events[1] /\ ev \in Events
        BY <4>1
      <4>3. Logged(can, "Concluded", ev.version) /\ ev.version \in Versions
        <5>1. ev.type = "Concluded"
          BY <2>3, <3>3 DEF Accepts
        <5>2. Logged(can, ev.type, ev.version)
          BY <4>2 DEF IInv, DeliveredIsLogged
        <5> QED
          BY <4>2, <5>1, <5>2 DEF Events
      <4>4. can.concluded /\ can.reg # NoVersion
        BY <1>0, <4>3, LoggedConclusion DEF LogConsistent
      <4>5. ~Disputes(op[p].kind, op[p])
        BY <1>0, <3>3 DEF CallInv
      <4> QED
        BY <1>0, <1>1, <2>1, <3>3, <4>4, <4>5, GotoMoves, CallInvAt, LocationsAndResults
    <3> QED
      BY <2>3, <3>1, <3>2, <3>3 DEF Accepted
  <2> QED
    BY <1>12, <2>2, <2>3 DEF ReceiveEvent
<1>13. CASE ContextDone(p)
  BY <1>3, <1>13, LocationsAndResults DEF ContextDone
<1>14. CASE ReceivePanicErr(p)
  BY <1>3, <1>14, LocationsAndResults DEF ReceivePanicErr
<1>15. CASE Poll(p) \/ RunDone(p)
  BY <1>0, <1>1, <1>2, <1>15, OthersKeep DEF Poll, RunDone
<1> QED
  BY <1>4, <1>5, <1>6, <1>7, <1>8, <1>9, <1>10, <1>11, <1>12, <1>13, <1>14,
     <1>15 DEF Step

LEMMA CallStarts ==
    ASSUME IInv, NEW p \in Participants, Reject(p) \/ Begin(p)
    PROVE  IInv'
<1>0. /\ TypeOK /\ LocalTypeOK /\ can \in Canisters
      /\ \A q \in Participants : CallInv(q)
  BY DEF IInv, TypeOK, LocalTypeOK
<1>1. PICK kind \in Kinds, req \in Requests : Call(p, kind, req)
           /\ (\/ Return(p, "ErrAdjudicatorReqIncompatible")
               \/ Return(p, "ErrNonceOutOfRange")
               \/ Disputes(kind, req) /\ GotoWithoutSub(p, "dispute")
               \/ ~Disputes(kind, req) /\ GotoWithSub(p, "conclude")
               \/ ~Disputes(kind, req) /\ GotoWithoutSub(p, "queryState"))
  BY DEF Reject, checkRegisterFails, Begin
<1> DEFINE o == [kind |-> kind, version |-> req.version,
                 signed |-> req.signed]
<1>2. o \in Ops /\ (Disputes(kind, req) <=> Disputes(o.kind, o))
  BY AdjudicatorAssumption DEF AllRequests, Ops, Kinds, Disputes
<1>3. /\ op' = [op EXCEPT ![p] = o] /\ UNCHANGED <<can, faults>>
      /\ calls' = [calls EXCEPT ![p] = @ + 1]
      /\ ctxDone' = [ctxDone EXCEPT ![p] = FALSE]
  BY <1>1 DEF Call
<1> HIDE DEF o
<1>4. LocalMove(p)
  BY <1>0, <1>1, ControlMoves, LocationsAndResults
<1>5. TypeOK'
  <2>1. /\ op' \in [Participants -> Ops]
        /\ calls' \in [Participants -> Nat]
        /\ ctxDone' \in [Participants -> BOOLEAN]
    BY <1>0, <1>2, <1>3 DEF TypeOK
  <2> QED
    BY <1>0, <1>3, <1>4, <2>1 DEF TypeOK, LocalMove, LocalTypeOK
<1>6. LogConsistent(can)'
  BY <1>3 DEF IInv, LogConsistent, Registered
<1>7. DeliveredIsLogged'
  BY <1>3, <1>4 DEF IInv, DeliveredIsLogged, LocalMove, AllLogged, Logged
<1>8. \A q \in Participants \ {p} : CallInv(q)'
  <2> SUFFICES ASSUME NEW q \in Participants \ {p} PROVE CallInv(q)'
    OBVIOUS
  <2>1. pc'[q] = pc[q] /\ res'[q] = res[q] /\ op'[q] = op[q]
    BY <1>0, <1>3, <1>4 DEF LocalMove, TypeOK
  <2>2. Evolves(can, can')
    BY <1>0, <1>3, EvolvesReflexive
  <2> QED
    BY <1>0, <2>1, <2>2, OthersKeep
<1>9. CallInv(p)'
  <2>1. op'[p] = o
    BY <1>0, <1>3 DEF TypeOK
  <2>2. \/ pc'[p] = "idle" /\ res'[p] # "nil"
        \/ pc'[p] = "dispute" /\ Disputes(o.kind, o)
        \/ pc'[p] \in {"conclude", "queryState"} /\ ~Disputes(o.kind, o)
    BY <1>0, <1>1, <1>2, GotoMoves DEF Return, TypeOK
  <2> QED
    BY <2>1, <2>2 DEF CallInv, EnsuredByCall, Returned, EnsureConcludedLocations
<1> QED
  BY <1>5, <1>6, <1>7, <1>8, <1>9 DEF IInv

LEMMA CallContinues ==
    ASSUME IInv, NEW p \in Participants,
           Step(p) \/ TimeoutElapsed(p) \/ Poll(p) \/ RunDone(p)
    PROVE  IInv'
<1>0. TypeOK /\ LogConsistent(can) /\ DeliveredIsLogged
  BY DEF IInv
<1>1. CanSteps /\ LocalMove(p) /\ faults' \in Nat /\ UNCHANGED <<op, ctxDone, calls>>
  BY <1>0, StepMoves DEF Unrelated
<1>2. Evolves(can, can') /\ LogConsistent(can')
  BY <1>0, <1>1, CanStepsEvolve
<1>3. TypeOK'
  BY <1>0, <1>1, <1>2 DEF TypeOK, LocalMove, LocalTypeOK, Evolves
<1>4. LogConsistent(can)'
  BY <1>2 DEF LogConsistent, Registered
<1>5. DeliveredIsLogged'
  <2> SUFFICES ASSUME NEW q \in Participants, NEW i \in DOMAIN sub'[q].events
               PROVE  Logged(can', sub'[q].events[i].type, sub'[q].events[i].version)
    BY DEF DeliveredIsLogged, Logged
  <2>1. Logged(can, sub'[q].events[i].type, sub'[q].events[i].version)
    BY <1>0, <1>1 DEF LocalMove, AllLogged, DeliveredIsLogged
  <2>2. sub'[q].events \in Seq(Events)
    BY <1>3 DEF TypeOK, Subs
  <2>3. sub'[q].events[i] \in Events
    BY <2>2
  <2> QED
    BY <1>2, <2>1, <2>3 DEF Evolves, Events
<1>6. \A q \in Participants \ {p} : CallInv(q)'
  BY <1>0, <1>1, <1>2, OthersKeep DEF LocalMove, IInv
<1>7. CallInv(p)'
  BY StepCallInv
<1> QED
  BY <1>3, <1>4, <1>5, <1>6, <1>7 DEF IInv

(* Steps of the environment and stuttering leave every call alone.         *)
LEMMA EnvironmentKeeps ==
    ASSUME IInv, (\E p \in Participants : Cancel(p)) \/ Expire \/ UNCHANGED vars
    PROVE  IInv'
<1>0. /\ TypeOK /\ LogConsistent(can) /\ DeliveredIsLogged /\ can \in Canisters
      /\ \A q \in Participants : CallInv(q)
  BY DEF IInv, TypeOK
<1>1. UNCHANGED <<pc, op, res, sub>>
  BY DEF Cancel, Expire, vars
<1>2. Evolves(can, can') /\ LogConsistent(can')
  <2>1. CanSteps
    BY DEF Cancel, Expire, vars, CanSteps
  <2> QED
    BY <1>0, <2>1, CanStepsEvolve
<1>3. TypeOK'
  <2>1. ctxDone' \in [Participants -> BOOLEAN] /\ calls' \in [Participants -> Nat] /\ faults' \in Nat
    BY <1>0 DEF TypeOK, Cancel, Expire, vars
  <2> QED
    BY <1>0, <1>1, <1>2, <2>1 DEF TypeOK, Evolves
<1>4. LogConsistent(can)'
  BY <1>2 DEF LogConsistent, Registered
<1>5. DeliveredIsLogged'
  <2> SUFFICES ASSUME NEW q \in Participants, NEW i \in DOMAIN sub[q].events
               PROVE  Logged(can', sub[q].events[i].type, sub[q].events[i].version)
    BY <1>1 DEF DeliveredIsLogged, Logged
  <2>1. sub[q].events \in Seq(Events)
    BY <1>0 DEF TypeOK, Subs
  <2>2. sub[q].events[i] \in Events
    BY <2>1
  <2> QED
    BY <1>0, <1>2, <2>2 DEF Evolves, Events, DeliveredIsLogged
<1>6. \A q \in Participants : CallInv(q)'
  BY <1>0, <1>1, <1>2, OthersKeep
<1> QED
  BY <1>3, <1>4, <1>5, <1>6 DEF IInv

LEMMA InitIInv == Init => IInv
<1> SUFFICES ASSUME Init PROVE IInv
  OBVIOUS
<1>1. EmptyCanister \in Canisters /\ LogConsistent(EmptyCanister)
  BY DEF EmptyCanister, Canisters, LogConsistent, Registered
<1>2. NoOp \in Ops
  BY ChannelAssumption DEF NoOp, Ops, Versions
<1>3. TypeOK
  BY <1>1, <1>2, SubTypes, LocationsAndResults DEF Init, TypeOK, Results
<1>4. LogConsistent(can) /\ DeliveredIsLogged
  BY <1>1 DEF Init, DeliveredIsLogged, NoSub
<1>5. \A p \in Participants : CallInv(p)
  BY DEF Init, CallInv, EnsuredByCall, Returned, EnsureConcludedLocations
<1> QED
  BY <1>3, <1>4, <1>5 DEF IInv

LEMMA NextIInv == IInv /\ [Next]_vars => IInv'
BY CallStarts, CallContinues, EnvironmentKeeps DEF Next

(***************************************************************************)
(* The theorems.                                                           *)
(***************************************************************************)

(* The inductive invariant holds in every reachable state: what each call  *)
(* of Register and Withdraw knows about the canister is true, whatever the *)
(* peers, the replicas and the network do.                                 *)
THEOREM Inductive == Spec => []IInv
BY InitIInv, NextIInv, PTL DEF Spec

(* Type correctness of the adjudicator.                                    *)
THEOREM TypeCorrect == Spec => []TypeOK
<1>1. IInv => TypeOK
  BY DEF IInv
<1> QED
  BY <1>1, Inductive, PTL

(* Nobody asks for a withdrawal, or returns successfully through           *)
(* ensureConcluded, before the canister has concluded the channel.         *)
THEOREM ConclusionComesFirst == Spec => []SuccessAfterConclusion
<1>1. IInv => SuccessAfterConclusion
  BY DEF IInv, CallInv, SuccessAfterConclusion
<1> QED
  BY <1>1, Inductive, PTL

(* A Register that returns nil has logged a dispute of its own version.    *)
THEOREM RegistersOwnVersion == Spec => []RegisteredOwnVersion
<1>1. IInv => RegisteredOwnVersion
  BY DEF IInv, CallInv, RegisteredOwnVersion
<1> QED
  BY <1>1, Inductive, PTL

(* A Withdraw that returns nil has been paid.                              *)
THEOREM WithdrawalsArePaid == Spec => []WithdrawnIsPaid
<1>1. IInv => WithdrawnIsPaid
  BY DEF IInv, CallInv, WithdrawnIsPaid
<1> QED
  BY <1>1, Inductive, PTL

(***************************************************************************)
(* The outcome is the version that the call asked for.                     *)
(***************************************************************************)

(* A step that makes a call succeed through ensureConcluded, or ask for    *)
(* the withdrawal, does so for the version the canister has concluded.     *)
LEMMA EnsuredOwnVersion ==
    ASSUME IInv, NEW p \in Participants,
           Step(p) \/ TimeoutElapsed(p) \/ Poll(p) \/ RunDone(p),
           EnsuredByCall(p)', ~EnsuredByCall(p)
    PROVE  can.concluded /\ UNCHANGED can /\ can.reg = op[p].version
<1> USE DEF EnsuredByCall, Returned
<1>0. /\ TypeOK /\ LogConsistent(can) /\ CallInv(p) /\ can \in Canisters
      /\ op[p].version \in Versions
  BY DEF IInv, TypeOK, Ops
<1>1. UNCHANGED op
  BY StepMoves DEF IInv, Unrelated
<1>2. ~\E r \in Results : r # "nil" /\ Return(p, r)
  BY <1>0, <1>1 DEF Return, TypeOK
<1>3. ~\E l \in Locations \ {"idle", "withdraw"} :
          Goto(p, l) \/ GotoWithSub(p, l) \/ GotoWithoutSub(p, l)
  BY <1>0, GotoMoves
<1>4. CASE Dispute(p) \/ Conclude(p) \/ QueryState(p) \/ TimeoutElapsed(p) \/ ConcludeDispute(p)
  BY <1>2, <1>3, <1>4, LocationsAndResults
  DEF Dispute, Conclude, QueryState, TimeoutElapsed, ConcludeDispute
<1>5. CASE QueryAndMatchEvents(p)
  <2>1. UNCHANGED can
    BY <1>5 DEF QueryAndMatchEvents, Sees, QueryAnswered, QueryFails
  <2>2. PICK log \in VisibleLogs(can) : \E ev \in Newest(log, "Concluded") : ev.version = op[p].version
    BY <1>2, <1>5, LocationsAndResults DEF QueryAndMatchEvents
  <2>3. PICK i \in DOMAIN log : log[i].type = "Concluded" /\ log[i].version = op[p].version
    BY <2>2 DEF Newest
  <2>4. Logged(can, "Concluded", op[p].version)
    BY <1>0, <2>3, VisibleIsLogged
  <2> QED
    BY <1>0, <2>1, <2>4, LoggedConclusion
<1>6. CASE QueryConcluded(p)
  <2>1. UNCHANGED can /\ can.concluded
    BY <1>0, <1>6 DEF QueryConcluded, Sees, QueryAnswered, QueryFails, CallInv
  <2> QED
    BY <1>2, <1>6, <2>1, LocationsAndResults DEF QueryConcluded
<1>7. CASE Withdraw(p)
  BY <1>7 DEF Withdraw
<1>8. CASE ReceiveEvent(p)
  <2>1. UNCHANGED can
    BY <1>8 DEF ReceiveEvent
  <2>2. ~UNCHANGED <<pc, res>>
    BY <1>1
  <2>3. pc[p] \in {"waitForDisputed", "waitForConcluded"}
    BY <1>3, <1>8, <2>2, LocationsAndResults DEF ReceiveEvent, Accepted
  <2>4. CASE pc[p] = "waitForDisputed"
    <3>1. Return(p, "nil") /\ Disputes(op[p].kind, op[p])
      BY <1>0, <1>8, <2>2, <2>4 DEF ReceiveEvent, Accepted, CallInv
    <3>2. pc'[p] = "idle"
      BY <1>0, <3>1 DEF Return, TypeOK
    <3> QED
      BY <1>1, <3>1, <3>2 DEF Disputes
  <2>5. CASE pc[p] = "waitForConcluded"
    BY <1>0, <2>1, <2>5 DEF CallInv
  <2> QED
    BY <2>3, <2>4, <2>5
<1>9. CASE ContextDone(p) \/ ReceivePanicErr(p)
  BY <1>2, <1>9, LocationsAndResults DEF ContextDone, ReceivePanicErr
<1>10. CASE Poll(p) \/ RunDone(p)
  BY <1>1, <1>10 DEF Poll, RunDone
<1> QED
  BY <1>4, <1>5, <1>6, <1>7, <1>8, <1>9, <1>10 DEF Step

LEMMA OwnVersionStep ==
    ASSUME IInv, SuccessMeansOwnVersion, [Next]_vars
    PROVE  SuccessMeansOwnVersion'
<1>0. TypeOK /\ LogConsistent(can) /\ SuccessAfterConclusion
  BY DEF IInv, CallInv, SuccessAfterConclusion
<1> SUFFICES ASSUME NEW q \in Participants, EnsuredByCall(q)'
             PROVE  can'.reg = op'[q].version
  BY DEF SuccessMeansOwnVersion
<1>1. ASSUME EnsuredByCall(q), op'[q] = op[q], CanSteps
      PROVE  can'.reg = op'[q].version
  BY <1>0, <1>1, CanStepsEvolve DEF Evolves, SuccessAfterConclusion, SuccessMeansOwnVersion
<1>2. ASSUME NEW p \in Participants,
             Step(p) \/ TimeoutElapsed(p) \/ Poll(p) \/ RunDone(p)
      PROVE  can'.reg = op'[q].version
  <2>1. CanSteps /\ LocalMove(p) /\ UNCHANGED op
    BY <1>0, <1>2, StepMoves DEF IInv, Unrelated
  <2>2. CASE EnsuredByCall(q)
    BY <1>1, <2>1, <2>2
  <2>3. CASE ~EnsuredByCall(q)
    <3>1. p = q
      BY <2>1, <2>3 DEF LocalMove, EnsuredByCall, Returned
    <3> QED
      BY <1>2, <2>1, <2>3, <3>1, EnsuredOwnVersion
  <2> QED
    BY <2>2, <2>3
<1>3. ASSUME NEW p \in Participants, Reject(p) \/ Begin(p)
      PROVE  can'.reg = op'[q].version
  <2>1. PICK kind \in Kinds, req \in Requests : Call(p, kind, req)
             /\ (\/ Return(p, "ErrAdjudicatorReqIncompatible")
                 \/ Return(p, "ErrNonceOutOfRange")
                 \/ GotoWithoutSub(p, "dispute")
                 \/ GotoWithSub(p, "conclude")
                 \/ GotoWithoutSub(p, "queryState"))
    BY <1>3 DEF Reject, checkRegisterFails, Begin
  <2>2. LocalMove(p) /\ UNCHANGED can
    <3>1. LocalTypeOK
      BY <1>0 DEF TypeOK, LocalTypeOK
    <3> QED
      BY <2>1, <3>1, ControlMoves, LocationsAndResults DEF Call
  <2>3. CASE p = q
    <3>1. pc'[p] # "withdraw" /\ ~(pc'[p] = "idle" /\ res'[p] = "nil")
      BY <1>0, <2>1, GotoMoves DEF Return, TypeOK
    <3> QED
      BY <2>3, <3>1 DEF EnsuredByCall, Returned
  <2>4. CASE p # q
    <3>1. op'[q] = op[q]
      BY <1>0, <2>1, <2>4 DEF Call, TypeOK
    <3>2. EnsuredByCall(q)
      BY <2>2, <2>4, <3>1 DEF LocalMove, EnsuredByCall, Returned
    <3> QED
      BY <1>1, <2>2, <3>1, <3>2 DEF CanSteps
  <2> QED
    BY <2>3, <2>4
<1>4. CASE (\E p \in Participants : Cancel(p)) \/ Expire \/ UNCHANGED vars
  <2>1. UNCHANGED <<pc, op, res>> /\ CanSteps
    BY <1>4 DEF Cancel, Expire, vars, CanSteps
  <2> QED
    BY <1>1, <2>1 DEF EnsuredByCall, Returned
<1> QED
  BY <1>2, <1>3, <1>4 DEF Next

(* A call that succeeds through ensureConcluded has its own request's      *)
(* version as the channel's outcome, however the peers' disputes and       *)
(* conclusions, stale event queries and lost replies interleave with it.   *)
THEOREM OwnVersionIsConcluded == Spec => []SuccessMeansOwnVersion
<1>1. Init => SuccessMeansOwnVersion
  BY DEF Init, SuccessMeansOwnVersion, EnsuredByCall, Returned
<1>2. IInv /\ SuccessMeansOwnVersion /\ [Next]_vars => SuccessMeansOwnVersion'
  BY OwnVersionStep
<1> QED
  BY <1>1, <1>2, Inductive, PTL DEF Spec

(***************************************************************************)
(* What lasts.                                                             *)
(***************************************************************************)

(* One step on the canister: the registered version does not fall, the     *)
(* version of a settled channel is fixed, no event is lost, and who is     *)
(* paid is paid of a concluded channel and stays paid.                     *)
Advances(c, d) ==
    /\ c.reg <= d.reg
    /\ Settled(c) => Settled(d) /\ d.reg = c.reg
    /\ c.concluded => d.concluded
    /\ \A t \in EventTypes, v \in Versions : Logged(c, t, v) => Logged(d, t, v)
    /\ c.paid \subseteq d.paid
    /\ c.paid # d.paid => c.concluded

LEMMA MessageAdvances ==
    ASSUME NEW c, Consistent(c), NEW r \in Ops,
           NEW d, d \in {c, OnDispute(c, r), OnConclude(c, r), OnExpire(c)}
    PROVE  Advances(c, d)
<1>1. /\ c \in Canisters /\ c.reg \in Versions \cup {NoVersion}
      /\ r.version \in Versions
  BY DEF Consistent, Canisters, Ops
<1>2. Evolves(c, d)
  BY <1>1, EvolvesReflexive, OnDisputeEvolves, OnConcludeEvolves, OnExpireEvolves
<1>3. c.reg \in Int /\ r.version \in Int /\ c.reg <= c.reg
  BY <1>1 DEF Versions, NoVersion
<1>4. CASE d = c \/ d = OnExpire(c)
  <2>1. d.reg = c.reg /\ d.paid = c.paid /\ (Settled(c) => Settled(d))
    BY <1>1, <1>4 DEF OnExpire, Settled, Canisters
  <2> QED
    BY <1>2, <1>3, <2>1 DEF Advances, Evolves
<1>5. CASE d = OnDispute(c, r) /\ CanDispute(c, r)
  <2>1. d.reg = r.version /\ d.paid = c.paid /\ ~Settled(c) /\ c.reg < r.version
    BY <1>1, <1>5 DEF OnDispute, CanDispute, Canisters
  <2> QED
    BY <1>2, <1>3, <2>1 DEF Advances, Evolves
<1>6. CASE d = OnConclude(c, r) /\ CanConclude(c, r)
  <2>1. d.reg = r.version /\ d.paid = c.paid /\ d.concluded
    BY <1>1, <1>6 DEF OnConclude, Canisters
  <2>2. \/ r.version \in FinalVersions /\ ~Settled(c)
        \/ r.version = c.reg
    BY <1>6 DEF CanConclude
  <2>3. r.version \in FinalVersions => c.reg <= r.version
    BY <1>1, ChannelAssumption DEF Versions, NoVersion
  <2> QED
    BY <1>2, <1>3, <2>1, <2>2, <2>3 DEF Advances, Evolves, Settled
<1> QED
  BY <1>4, <1>5, <1>6 DEF OnDispute, OnConclude

(* Only a call that has passed ensureConcluded withdraws.                  *)
LEMMA PaymentAdvances ==
    ASSUME NEW c, Consistent(c), NEW p \in Participants, c.concluded
    PROVE  Advances(c, OnWithdraw(c, p))
<1> DEFINE d == OnWithdraw(c, p)
<1>1. c \in Canisters /\ c.reg <= c.reg
  BY DEF Consistent, Canisters, Versions, NoVersion
<1>2. Evolves(c, d)
  BY <1>1, OnWithdrawEvolves DEF Consistent
<1>3. d.reg = c.reg /\ d.concluded = c.concluded
  BY <1>1 DEF OnWithdraw, Canisters
<1>4. Settled(c) /\ Settled(d)
  BY <1>3 DEF Settled
<1>5. Advances(c, d)
  <2> HIDE DEF d
  <2> QED
    BY <1>1, <1>2, <1>3, <1>4 DEF Advances, Evolves
<1> QED
  BY <1>5

LEMMA NextAdvances ==
    ASSUME IInv, [Next]_vars
    PROVE  Advances(can, can')
<1>0. Consistent(can) /\ TypeOK /\ \A p \in Participants : CallInv(p)
  BY DEF IInv, TypeOK, Consistent
<1>1. NoOp \in Ops /\ \A p \in Participants : op[p] \in Ops
  BY <1>0, ChannelAssumption DEF TypeOK, NoOp, Ops, Versions
<1>2. CASE UNCHANGED can \/ can' = OnExpire(can)
  BY <1>0, <1>1, <1>2, MessageAdvances
<1>3. ASSUME NEW p \in Participants,
             can' = OnDispute(can, op[p]) \/ can' = OnConclude(can, op[p])
      PROVE  Advances(can, can')
  BY <1>0, <1>1, <1>3, MessageAdvances
<1>4. ASSUME NEW p \in Participants, Withdraw(p)
      PROVE  Advances(can, can')
  <2>1. can.concluded
    BY <1>0, <1>4 DEF Withdraw, CallInv, EnsuredByCall
  <2>2. can' \in {can, OnWithdraw(can, p)}
    BY <1>4 DEF Withdraw, Answered, CallFails
  <2> QED
    BY <1>0, <1>1, <2>1, <2>2, MessageAdvances, PaymentAdvances
<1>5. ASSUME NEW p \in Participants, Step(p), ~Withdraw(p)
      PROVE  \/ UNCHANGED can
             \/ can' = OnDispute(can, op[p]) \/ can' = OnConclude(can, op[p])
  BY <1>5
  DEF Step, Dispute, Conclude, ConcludeDispute, Answered, CallFails, QueryAndMatchEvents,
      QueryState, QueryConcluded, Sees, QueryAnswered, QueryFails, ReceiveEvent, ContextDone,
      ReceivePanicErr
<1>6. ASSUME NEW p \in Participants,
             \/ Reject(p) \/ Begin(p) \/ Cancel(p)
             \/ Poll(p) \/ RunDone(p) \/ TimeoutElapsed(p)
      PROVE  UNCHANGED can
  <2>1. CASE Reject(p) \/ Begin(p)
    BY <2>1 DEF Reject, checkRegisterFails, Begin, Call
  <2>2. CASE Cancel(p) \/ TimeoutElapsed(p)
    BY <2>2 DEF Cancel, TimeoutElapsed
  <2>3. CASE Poll(p)
    BY <2>3 DEF Poll, Sees, QueryAnswered, QueryFails
  <2>4. CASE RunDone(p)
    BY <2>4 DEF RunDone
  <2> QED
    BY <1>6, <2>1, <2>2, <2>3, <2>4
<1>7. CASE Expire \/ UNCHANGED vars
  BY <1>2, <1>7 DEF Expire, vars
<1> QED
  BY <1>2, <1>3, <1>4, <1>5, <1>6, <1>7 DEF Next

(* A channel's course on the canister has no way back: whatever calls,     *)
(* retries, lost replies and stale answers meet, the registered version    *)
(* does not fall, it is fixed once the challenge duration has elapsed or   *)
(* the channel is concluded, and only a concluded channel pays             *)
(* (adjudicator.go, dispute, conclude and withdraw).                       *)
THEOREM ChannelAdvances == Spec => [][Advances(can, can')]_vars
<1>1. IInv /\ [Next]_vars => [Advances(can, can')]_vars
  BY NextAdvances
<1> QED
  BY <1>1, Inductive, PTL DEF Spec

ConcludedAt(v) == can.concluded /\ can.reg = v

(* Some call, or only calls, with this version have been let through       *)
(* ensureConcluded.                                                        *)
SomeEnsured(v) == \E p \in Participants : EnsuredByCall(p) /\ op[p].version = v
OnlyEnsured(v) == \A p \in Participants : EnsuredByCall(p) => op[p].version = v

(* Once a call was let through ensureConcluded, be it one that the peer    *)
(* has long followed by others, no call is ever let through it with        *)
(* another version: all participants that withdraw, or register a final    *)
(* state, with success agree for good on what the channel's outcome is     *)
(* (adjudicator.go, isConcluded and checkDisputes).                        *)
THEOREM SuccessesAgree ==
    ASSUME NEW v \in Versions
    PROVE  Spec => [](SomeEnsured(v) => []OnlyEnsured(v))
<1>1. SuccessAfterConclusion /\ SuccessMeansOwnVersion /\ SomeEnsured(v) => ConcludedAt(v)
  BY DEF SuccessAfterConclusion, SuccessMeansOwnVersion, SomeEnsured, ConcludedAt
<1>2. ConcludedAt(v) /\ IInv /\ [Next]_vars => ConcludedAt(v)'
  BY NextAdvances DEF Advances, ConcludedAt, Settled
<1>3. SuccessMeansOwnVersion /\ ConcludedAt(v) => OnlyEnsured(v)
  BY DEF SuccessMeansOwnVersion, ConcludedAt, OnlyEnsured
<1> QED
  BY <1>1, <1>2, <1>3, Inductive, ConclusionComesFirst, OwnVersionIsConcluded, PTL DEF Spec

PaidOfConcluded == can.paid # {} => can.concluded

(* All payments of a channel are of one version: once somebody has been    *)
(* paid, also by a call whose answer was lost, the version registered then *)
(* is the concluded one for good (adjudicator.go, withdraw, is called      *)
(* after ensureConcluded only).                                            *)
THEOREM PaymentsAgree ==
    ASSUME NEW v \in Versions
    PROVE  Spec => [](can.paid # {} /\ can.reg = v => []ConcludedAt(v))
<1>1. Init => PaidOfConcluded
  BY DEF Init, EmptyCanister, PaidOfConcluded
<1>2. PaidOfConcluded /\ IInv /\ [Next]_vars => PaidOfConcluded'
  BY NextAdvances DEF Advances, PaidOfConcluded
<1>3. ConcludedAt(v) /\ IInv /\ [Next]_vars => ConcludedAt(v)'
  BY NextAdvances DEF Advances, ConcludedAt, Settled
<1>4. PaidOfConcluded /\ can.paid # {} /\ can.reg = v => ConcludedAt(v)
  BY DEF PaidOfConcluded, ConcludedAt
<1> QED
  BY <1>1, <1>2, <1>3, <1>4, Inductive, PTL DEF Spec
=============================================================================
