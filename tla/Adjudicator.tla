----------------------------- MODULE Adjudicator -----------------------------
(***************************************************************************)
(* channel/adjudicator.go: Register and Withdraw of the Go adjudicator,    *)
(* called by the participants of one channel against one Perun canister,   *)
(* together with the event subscription each call opens                    *)
(* (connector/subscribe.go, connector/adjudicator_eventsub.go).            *)
(*                                                                         *)
(* A participant runs one call at a time.  pc names the source function    *)
(* the call is in, and a step is one RPC or one case of a select.  The     *)
(* subscription's polling goroutine (AdjEventSub.run) takes its steps      *)
(* independently of the call that waits for its events.                    *)
(***************************************************************************)
EXTENDS AdjudicatorEvents

CONSTANTS
    Requests,   \* the AdjudicatorReqs the participants may hand in
    Deadlines,  \* the participants whose contexts have a deadline
    MaxFaults,  \* bound: RPCs that fail or are answered by a replica that lags
    MaxCalls    \* bound: calls of each participant

(* version, signed: the transaction and whether fullySignedTx accepts it.  *)
(* encodable: MakeNonce and MakeParts succeed.                             *)
AllRequests == [version : Versions, signed : BOOLEAN, encodable : BOOLEAN]

ASSUME AdjudicatorAssumption ==
    /\ Requests \subseteq AllRequests
    /\ Deadlines \subseteq Participants
    /\ MaxLag \in Nat /\ MaxFaults \in Nat /\ MaxCalls \in Nat

VARIABLES
    can,      \* the Perun canister
    pc,       \* pc[p]: the function p's call is in, "idle" between calls
    op,       \* op[p]: the current call, or the last one
    res,      \* res[p]: what the last call returned
    sub,      \* sub[p]: the AdjEventSub the current call listens to
    ctxDone,  \* ctxDone[p]: the context of the current call is done
    calls,    \* calls[p]: number of calls so far
    faults    \* number of failed or lagging RPCs so far

vars == <<can, pc, op, res, sub, ctxDone, calls, faults>>

Kinds == {"Register", "Withdraw"}
Ops == [kind : Kinds \cup {"none"}, version : Versions, signed : BOOLEAN]
NoOp == [kind |-> "none", version |-> 0, signed |-> FALSE]

Waiting == {"waitForDisputed", "waitForConcluded", "waitForDisputeConcluded"}
Locations == Waiting \cup
    {"idle", "dispute", "conclude", "queryAndMatchEvents", "queryState",
     "timeoutWait", "concludeDispute", "queryConcluded", "withdraw"}

Results == {"none", "nil", "ErrFailDispute", "ErrFailConclude",
            "ErrFailWithdrawal", "ErrConcludedDifferentVersion",
            "ErrAdjudicatorReqIncompatible", "ErrNonceOutOfRange",
            "ErrNotRegistered", "ErrVersionTooHigh", "ErrQuery", "ErrContext"}

(* run       the goroutine: not started, polling, returned, or blocked on  *)
(*           a send to panicErr that nobody receives                       *)
(* events    the channel's buffer: events delivered, not received yet      *)
(* panicErr  the buffer of panicErr (one place) holds an error             *)
Subs == [run : {"none", "polling", "returned", "blocked"},
         events : Seq(Events), panicErr : BOOLEAN]
NoSub == [run |-> "none", events |-> <<>>, panicErr |-> FALSE]
NewAdjudicatorSub == [NoSub EXCEPT !.run = "polling"]

Init ==
    /\ can = EmptyCanister
    /\ pc = [p \in Participants |-> "idle"]
    /\ op = [p \in Participants |-> NoOp]
    /\ res = [p \in Participants |-> "none"]
    /\ sub = [p \in Participants |-> NoSub]
    /\ ctxDone = [p \in Participants |-> FALSE]
    /\ calls = [p \in Participants |-> 0]
    /\ faults = 0
-----------------------------------------------------------------------------
(* Building blocks of the handlers.                                        *)

Answered(c) == can' = c /\ UNCHANGED faults

QueryAnswered == UNCHANGED <<can, faults>>

QueryFails == faults < MaxFaults /\ faults' = faults + 1 /\ UNCHANGED can

(* An answer of query_events that misses events is counted as a fault.     *)
Sees(log) == IF log = can.log THEN QueryAnswered ELSE QueryFails

(* The call fails for the caller: it was lost, or executed and only the    *)
(* reply was lost.                                                         *)
CallFails(c) == faults < MaxFaults /\ faults' = faults + 1 /\ can' \in {can, c}

Goto(p, l) ==
    /\ pc' = [pc EXCEPT ![p] = l]
    /\ UNCHANGED res

GotoWithSub(p, l) ==
    /\ Goto(p, l)
    /\ sub' = [sub EXCEPT ![p] = NewAdjudicatorSub]

(* The goroutine of a subscription that the caller drops may live on, but  *)
(* nobody listens to it any more.                                          *)
GotoWithoutSub(p, l) ==
    /\ Goto(p, l)
    /\ sub' = [sub EXCEPT ![p] = NoSub]

Return(p, r) ==
    /\ pc' = [pc EXCEPT ![p] = "idle"]
    /\ res' = [res EXCEPT ![p] = r]
    /\ sub' = [sub EXCEPT ![p] = NoSub]

(* ensureConcluded has returned nil to Register or to Withdraw.            *)
EnsuredConcluded(p) ==
    IF op[p].kind = "Withdraw" THEN GotoWithoutSub(p, "withdraw") ELSE Return(p, "nil")

Unrelated == UNCHANGED <<op, ctxDone, calls>>
-----------------------------------------------------------------------------
(* Register and Withdraw up to their first RPC or subscription.            *)

ConcludeFinal(req) == req.version \in FinalVersions /\ req.signed

(* Mutant: the request of the next version is recorded.                    *)
Call_NextVersion(p, kind, req) ==
    /\ pc[p] = "idle" /\ calls[p] < MaxCalls
    /\ calls' = [calls EXCEPT ![p] = @ + 1]
    /\ op' = [op EXCEPT ![p] = [kind |-> kind, version |-> req.version + 1,
                                signed |-> req.signed]]
    /\ ctxDone' = [ctxDone EXCEPT ![p] = FALSE]
    /\ UNCHANGED <<can, faults>>

Call(p, kind, req) ==
    /\ pc[p] = "idle" /\ calls[p] < MaxCalls
    /\ calls' = [calls EXCEPT ![p] = @ + 1]
    /\ op' = [op EXCEPT ![p] = [kind |-> kind, version |-> req.version, signed |-> req.signed]]
    /\ ctxDone' = [ctxDone EXCEPT ![p] = FALSE]
    /\ UNCHANGED <<can, faults>>

Disputes(kind, req) == kind = "Register" /\ req.version \notin FinalVersions

(* A dispute is not possible with sub-channel states.                      *)
checkRegisterFails(kind, req, states) == Disputes(kind, req) /\ states

(* Rejected before any RPC, also a nonce or participant that cannot be     *)
(* encoded.                                                                *)
Reject(p) ==
    \E kind \in Kinds, req \in Requests, states \in BOOLEAN :
        /\ Call(p, kind, req)
        /\ \/ checkRegisterFails(kind, req, states) /\ Return(p, "ErrAdjudicatorReqIncompatible")
           \/ /\ ~checkRegisterFails(kind, req, states)
              /\ ~req.encodable
              /\ Return(p, "ErrNonceOutOfRange")

Begin(p) ==
    \E kind \in Kinds, req \in Requests :
        /\ req.encodable
        /\ Call(p, kind, req)
        /\ \/ Disputes(kind, req) /\ GotoWithoutSub(p, "dispute")
           \/ ~Disputes(kind, req) /\ ConcludeFinal(req) /\ GotoWithSub(p, "conclude")
           \/ ~Disputes(kind, req) /\ ~ConcludeFinal(req) /\ GotoWithoutSub(p, "queryState")
-----------------------------------------------------------------------------
(* A dispute.                                                              *)

(* Mutant: the canister's answer is not looked at.                         *)
Dispute_IgnoringAnswer(p) ==
    /\ pc[p] = "dispute"
    /\ \/ Answered(OnDispute(can, op[p])) /\ GotoWithSub(p, "waitForDisputed")
       \/ CallFails(OnDispute(can, op[p])) /\ Return(p, "ErrFailDispute")
    /\ Unrelated

Dispute(p) ==
    /\ pc[p] = "dispute"
    /\ \/ /\ Answered(OnDispute(can, op[p]))
          /\ IF CanDispute(can, op[p])
             THEN GotoWithSub(p, "waitForDisputed")
             ELSE Return(p, "ErrFailDispute")
       \/ CallFails(OnDispute(can, op[p])) /\ Return(p, "ErrFailDispute")
    /\ Unrelated

(* Mutant: the wait for a conclusion takes any event.                      *)
Accepts_AnyType(p, ev) ==
    IF pc[p] = "waitForDisputed"
    THEN ev.type = "Disputed" /\ ev.version >= op[p].version
    ELSE ev \in Events

(* The events a wait loop accepts; it discards the others.                 *)
Accepts(p, ev) ==
    IF pc[p] = "waitForDisputed"
    THEN ev.type = "Disputed" /\ ev.version >= op[p].version
    ELSE ev.type = "Concluded"

(* What follows an accepted event.                                         *)
Accepted(p) ==
    \/ pc[p] = "waitForDisputed" /\ Return(p, "nil")
    \/ pc[p] = "waitForConcluded" /\ EnsuredConcluded(p)
    \/ pc[p] = "waitForDisputeConcluded" /\ GotoWithoutSub(p, "queryConcluded")

(* One turn of waitForDisputed or waitForConcluded.                        *)
ReceiveEvent(p) ==
    /\ pc[p] \in Waiting /\ sub[p].events # <<>>
    /\ LET ev == Head(sub[p].events) IN
       IF Accepts(p, ev)
       THEN Accepted(p)
       ELSE /\ sub' = [sub EXCEPT ![p].events = Tail(@)]
            /\ UNCHANGED <<pc, res>>
    /\ UNCHANGED <<can, faults>> /\ Unrelated

(* Mutant: the wait loops have no ctx.Done case.                           *)
ContextDone_TimeoutOnly(p) ==
    /\ pc[p] = "timeoutWait" /\ ctxDone[p]
    /\ Return(p, "ErrContext")
    /\ UNCHANGED <<can, faults>> /\ Unrelated

ContextDone(p) ==
    /\ pc[p] \in Waiting \cup {"timeoutWait"} /\ ctxDone[p]
    /\ Return(p, "ErrContext")
    /\ UNCHANGED <<can, faults>> /\ Unrelated

ReceivePanicErr(p) ==
    /\ pc[p] \in Waiting /\ sub[p].panicErr
    /\ Return(p, "ErrQuery")
    /\ UNCHANGED <<can, faults>> /\ Unrelated
-----------------------------------------------------------------------------
(* isConcluded: conclude a fully signed final state.                       *)

(* Mutants: the canister's answer is not looked at; a refusal is an error  *)
(* without a look at the events.                                           *)
Conclude_IgnoringAnswer(p) ==
    /\ pc[p] = "conclude"
    /\ \/ /\ Answered(OnConclude(can, op[p]))
          /\ Goto(p, "waitForConcluded") /\ UNCHANGED sub
       \/ CallFails(OnConclude(can, op[p])) /\ Return(p, "ErrFailConclude")
    /\ Unrelated

Conclude_RefusalIsFinal(p) ==
    /\ pc[p] = "conclude"
    /\ \/ /\ Answered(OnConclude(can, op[p]))
          /\ IF CanConclude(can, op[p])
             THEN Goto(p, "waitForConcluded") /\ UNCHANGED sub
             ELSE Return(p, "ErrFailConclude")
       \/ CallFails(OnConclude(can, op[p])) /\ Return(p, "ErrFailConclude")
    /\ Unrelated

Conclude(p) ==
    /\ pc[p] = "conclude"
    /\ \/ /\ Answered(OnConclude(can, op[p]))
          /\ IF CanConclude(can, op[p])
             THEN Goto(p, "waitForConcluded") /\ UNCHANGED sub
             ELSE GotoWithoutSub(p, "queryAndMatchEvents")
       \/ CallFails(OnConclude(can, op[p])) /\ Return(p, "ErrFailConclude")
    /\ Unrelated

(* Mutant: the conclusion of any version matches.                          *)
QueryAndMatchEvents_AnyVersion(p) ==
    /\ pc[p] = "queryAndMatchEvents"
    /\ \/ \E log \in VisibleLogs(can) :
             /\ Sees(log)
             /\ IF Newest(log, "Concluded") # {}
                THEN EnsuredConcluded(p)
                ELSE Return(p, "ErrFailConclude")
       \/ QueryFails /\ Return(p, "ErrQuery")
    /\ Unrelated

(* The canister refused: perhaps the peer has concluded already.           *)
QueryAndMatchEvents(p) ==
    /\ pc[p] = "queryAndMatchEvents"
    /\ \/ \E log \in VisibleLogs(can) :
             /\ Sees(log)
             /\ IF \E ev \in Newest(log, "Concluded") : ev.version = op[p].version
                THEN EnsuredConcluded(p)
                ELSE Return(p, "ErrFailConclude")
       \/ QueryFails /\ Return(p, "ErrQuery")
    /\ Unrelated
-----------------------------------------------------------------------------
(* checkDisputes: wait out the challenge duration, then conclude.          *)

QueryState(p) ==
    /\ pc[p] = "queryState"
    /\ \/ /\ QueryAnswered
          /\ \/ can.reg = NoVersion /\ Return(p, "ErrNotRegistered")
             \/ can.reg > op[p].version /\ Return(p, "ErrVersionTooHigh")
             \/ can.reg \in 0..op[p].version /\ Goto(p, "timeoutWait") /\ UNCHANGED sub
       \/ QueryFails /\ Return(p, "ErrQuery")
    /\ Unrelated

(* The wait is not tied to the canister's clock: qs.Timeout is an absolute *)
(* time in nanoseconds, which MakeTimeout takes for a number of seconds    *)
(* from now, modulo 2^64.  It may be over at once or practically never.    *)
TimeoutElapsed(p) ==
    /\ pc[p] = "timeoutWait"
    /\ Goto(p, "concludeDispute")
    /\ UNCHANGED <<can, faults, sub>> /\ Unrelated

(* The canister's answer is not looked at.                                 *)
ConcludeDispute(p) ==
    /\ pc[p] = "concludeDispute"
    /\ \/ /\ Answered(OnConclude(can, op[p]))
          /\ GotoWithSub(p, "waitForDisputeConcluded")
       \/ CallFails(OnConclude(can, op[p])) /\ Return(p, "ErrFailConclude")
    /\ Unrelated

(* Mutant: the concluded version is not compared with the request's.       *)
QueryConcluded_Unchecked(p) ==
    /\ pc[p] = "queryConcluded"
    /\ \/ QueryAnswered /\ EnsuredConcluded(p)
       \/ QueryFails /\ Return(p, "ErrQuery")
    /\ Unrelated

(* The answer is not nil, as the channel has been concluded (CallInv).     *)
QueryConcluded(p) ==
    /\ pc[p] = "queryConcluded"
    /\ \/ /\ QueryAnswered
          /\ IF can.reg = op[p].version
             THEN EnsuredConcluded(p)
             ELSE Return(p, "ErrConcludedDifferentVersion")
       \/ QueryFails /\ Return(p, "ErrQuery")
    /\ Unrelated
-----------------------------------------------------------------------------
(* Mutant: the error of the withdraw call is swallowed.                    *)
Withdraw_SwallowingError(p) ==
    /\ pc[p] = "withdraw"
    /\ \/ /\ Answered(OnWithdraw(can, p))
          /\ Return(p, IF CanWithdraw(can, p) THEN "nil" ELSE "ErrFailWithdrawal")
       \/ CallFails(OnWithdraw(can, p)) /\ Return(p, "nil")
    /\ Unrelated

Withdraw(p) ==
    /\ pc[p] = "withdraw"
    /\ \/ /\ Answered(OnWithdraw(can, p))
          /\ Return(p, IF CanWithdraw(can, p) THEN "nil" ELSE "ErrFailWithdrawal")
       \/ CallFails(OnWithdraw(can, p)) /\ Return(p, "ErrFailWithdrawal")
    /\ Unrelated
-----------------------------------------------------------------------------
(* AdjEventSub.run.  The goroutine returns after the first poll that finds *)
(* an event; a second error while the first is not received blocks it.     *)

Poll(p) ==
    /\ sub[p].run = "polling"
    /\ \/ \E log \in VisibleLogs(can) :
             /\ Sees(log)
             /\ parseEventsAll(log) # <<>>
             /\ sub' = [sub EXCEPT ![p].run = "returned",
                                   ![p].events = parseEventsAll(log)]
       \/ /\ QueryFails
          /\ sub' = IF sub[p].panicErr
                    THEN [sub EXCEPT ![p].run = "blocked"]
                    ELSE [sub EXCEPT ![p].panicErr = TRUE]
    /\ UNCHANGED <<pc, res>> /\ Unrelated

RunDone(p) ==
    /\ sub[p].run = "polling" /\ ctxDone[p]
    /\ sub' = [sub EXCEPT ![p].run = "returned"]
    /\ UNCHANGED <<can, pc, res, faults>> /\ Unrelated
-----------------------------------------------------------------------------
(* The environment: a deadline passes; a challenge duration elapses.       *)

Cancel(p) ==
    /\ p \in Deadlines /\ pc[p] # "idle" /\ ~ctxDone[p]
    /\ ctxDone' = [ctxDone EXCEPT ![p] = TRUE]
    /\ UNCHANGED <<can, pc, op, res, sub, calls, faults>>

Expire ==
    /\ CanExpire(can)
    /\ can' = OnExpire(can)
    /\ UNCHANGED <<pc, op, res, sub, ctxDone, calls, faults>>
-----------------------------------------------------------------------------
(* The steps of a call that do not depend on the dispute timeout.          *)
Step(p) ==
    \/ Dispute(p) \/ Conclude(p) \/ QueryAndMatchEvents(p)
    \/ QueryState(p) \/ ConcludeDispute(p) \/ QueryConcluded(p)
    \/ Withdraw(p)
    \/ ReceiveEvent(p) \/ ContextDone(p) \/ ReceivePanicErr(p)

Next ==
    \/ \E p \in Participants :
          \/ Reject(p) \/ Begin(p) \/ Step(p) \/ TimeoutElapsed(p)
          \/ Poll(p) \/ RunDone(p) \/ Cancel(p)
    \/ Expire

Spec == Init /\ [][Next]_vars

(* A call keeps running, its subscription keeps polling, and a context     *)
(* with a deadline expires; nothing makes a caller start a call, an RPC    *)
(* fail, or the dispute timeout elapse.                                    *)
Fairness ==
    \A p \in Participants :
        WF_vars(Step(p)) /\ WF_vars(Poll(p)) /\ WF_vars(Cancel(p))

FairSpec == Spec /\ Fairness
-----------------------------------------------------------------------------
TypeOK ==
    /\ can \in Canisters
    /\ pc \in [Participants -> Locations]
    /\ op \in [Participants -> Ops]
    /\ res \in [Participants -> Results]
    /\ sub \in [Participants -> Subs]
    /\ ctxDone \in [Participants -> BOOLEAN]
    /\ calls \in [Participants -> Nat]
    /\ faults \in Nat

Returned(p, kind) == pc[p] = "idle" /\ op[p].kind = kind /\ res[p] = "nil"

(* The calls whose success rests on ensureConcluded.                       *)
EnsuredByCall(p) ==
    \/ pc[p] = "withdraw"
    \/ Returned(p, "Withdraw")
    \/ Returned(p, "Register") /\ op[p].version \in FinalVersions

(* Nobody asks for a withdrawal, and no call that went through             *)
(* ensureConcluded succeeds, before the canister has concluded the         *)
(* channel: neither a dispute event that comes first, nor a stale answer,  *)
(* nor a peer's concurrent call makes ensureConcluded return early         *)
(* (adjudicator.go, waitForConcluded and queryAndMatchEvents).             *)
SuccessAfterConclusion ==
    \A p \in Participants : EnsuredByCall(p) => can.concluded

(* ... and what was concluded is the version of the call's own request,    *)
(* although a wait accepts the conclusion of any version and a peer may    *)
(* dispute and conclude in between (adjudicator.go, checkDisputes and      *)
(* isConcluded).                                                           *)
SuccessMeansOwnVersion ==
    \A p \in Participants : EnsuredByCall(p) => can.reg = op[p].version

(* A Register that returns nil has put its own version on the canister     *)
(* and is not misled by a dispute event of a peer's higher version         *)
(* (adjudicator.go, dispute).                                              *)
RegisteredOwnVersion ==
    \A p \in Participants :
        Returned(p, "Register") /\ op[p].version \notin FinalVersions
            => Logged(can, "Disputed", op[p].version)

(* A Withdraw that returns nil has been paid, whatever replies were lost   *)
(* (adjudicator.go, withdraw).                                             *)
WithdrawnIsPaid ==
    \A p \in Participants : Returned(p, "Withdraw") => p \in can.paid

(* Every call with a deadline returns, whatever is lost, stale or blocked  *)
(* on the way (the ctx.Done cases of the wait loops).                      *)
EveryCallReturns ==
    \A p \in Deadlines : pc[p] # "idle" ~> pc[p] = "idle"

(* A Withdraw of a final state that nobody disputed pays its participant,  *)
(* whoever concludes first and without a deadline, once no RPC fails and   *)
(* no query is answered by a lagging replica any more: also the retry of a *)
(* Withdraw whose conclude call was executed while its reply was lost, or  *)
(* whose look for the peer's conclusion came too early for the replica     *)
(* asked.  While replicas lag, a Withdraw may fail with ErrFailConclude on *)
(* a channel that is concluded as requested (adjudicator.go, isConcluded   *)
(* and queryAndMatchEvents).                                               *)
CooperativeCloseIsPaid ==
    \A p \in Participants \ Deadlines :
        (/\ pc[p] = "conclude" /\ op[p].kind = "Withdraw"
         /\ faults = MaxFaults /\ ~sub[p].panicErr)
            ~> \/ p \in can.paid
               \/ \E v \in Versions : Logged(can, "Disputed", v)

(* "here we wait for a conclusion event to arrive": once the canister has  *)
(* logged the conclusion, the wait of isConcluded ends.                    *)
ConclusionEventArrives ==
    \A p \in Participants :
        pc[p] = "waitForConcluded" ~> pc[p] # "waitForConcluded"

-----------------------------------------------------------------------------
(* Why the safety properties hold: an inductive invariant.                 *)

(* A subscription delivers only events of the log.                         *)
DeliveredIsLogged ==
    \A p \in Participants : \A i \in DOMAIN sub[p].events :
        Logged(can, sub[p].events[i].type, sub[p].events[i].version)

EnsureConcludedLocations ==
    {"conclude", "waitForConcluded", "queryAndMatchEvents", "queryState",
     "timeoutWait", "concludeDispute", "waitForDisputeConcluded", "queryConcluded"}

(* What a call of p knows about the canister, at each of its locations.    *)
CallInv(p) ==
    /\ pc[p] \in {"dispute", "waitForDisputed"} => Disputes(op[p].kind, op[p])
    /\ pc[p] \in EnsureConcludedLocations => ~Disputes(op[p].kind, op[p])
    /\ pc[p] = "withdraw" => op[p].kind = "Withdraw"
    /\ pc[p] = "waitForDisputed" => Logged(can, "Disputed", op[p].version)
    /\ pc[p] = "waitForConcluded" => can.concluded /\ can.reg = op[p].version
    /\ pc[p] = "queryConcluded" => can.concluded /\ can.reg # NoVersion
    /\ EnsuredByCall(p) => can.concluded
    /\ Returned(p, "Register") /\ op[p].version \notin FinalVersions
          => Logged(can, "Disputed", op[p].version)
    /\ Returned(p, "Withdraw") => p \in can.paid

IInv ==
    /\ TypeOK
    /\ LogConsistent(can)
    /\ DeliveredIsLogged
    /\ \A p \in Participants : CallInv(p)
-----------------------------------------------------------------------------
(* The adjudicator implements ChannelSettlement.                           *)

AnswerOf(p) ==
    IF op[p].kind = "none" THEN "none"
    ELSE IF pc[p] # "idle" THEN "pending"
    ELSE IF res[p] = "nil" THEN "success" ELSE "failure"

Settlement == INSTANCE ChannelSettlement WITH
    registered <- can.reg,
    outcome <- IF can.concluded THEN can.reg ELSE NoVersion,
    paid <- can.paid,
    call <- [p \in Participants |-> [kind |-> op[p].kind, version |-> op[p].version,
                                     answer |-> AnswerOf(p)]]

(* Every step of the handlers, the subscriptions and the canister is a     *)
(* step of ChannelSettlement or invisible to it: an answer "success" means *)
(* what it promises at the moment it is given, and no handler moves the    *)
(* channel in a way its caller did not ask for.                            *)
ImplementsSettlement == Settlement!Spec
=============================================================================
