------------------------ MODULE AdjudicatorRefinement ------------------------
(* Adjudicator implements ChannelSettlement, for any participants,         *)
(* versions, requests and bounds.                                          *)
EXTENDS AdjudicatorProofs

Call0(p) == [kind |-> op[p].kind, version |-> op[p].version, answer |-> AnswerOf(p)]
AbstractCall == [p \in Participants |-> Call0(p)]
Outcome == IF can.concluded THEN can.reg ELSE NoVersion

(* A running or successful call is one of Register or Withdraw.            *)
KindInv ==
    \A p \in Participants :
        pc[p] # "idle" \/ res[p] = "nil" => op[p].kind \in Kinds

LEMMA InitRefines == Init => Settlement!Init
BY DEF Init, Settlement!Init, EmptyCanister, NoVersion, Settlement!NoVersion,
       NoOp, Settlement!NoCall, AnswerOf

(* What a successful answer promises holds when the call returns.          *)
LEMMA SuccessFulfils ==
    ASSUME IInv, SuccessMeansOwnVersion, NEW p \in Participants,
           pc[p] = "idle", res[p] = "nil", op[p].kind \in Kinds
    PROVE  Settlement!Fulfilled(p)
<1>1. /\ CallInv(p) /\ LogConsistent(can)
      /\ can.reg \in Versions \cup {NoVersion} /\ op[p].version \in Versions
  BY DEF IInv, TypeOK, Canisters, Ops
<1>2. AbstractCall[p].kind = op[p].kind /\ AbstractCall[p].version = op[p].version
  BY DEF AbstractCall, Call0
<1>3. CASE op[p].kind = "Register" /\ op[p].version \notin FinalVersions
  <2>1. Logged(can, "Disputed", op[p].version)
    BY <1>1, <1>3 DEF CallInv, Returned
  <2>2. op[p].version <= can.reg
    BY <1>1, <2>1 DEF Logged, LogConsistent, Event
  <2>3. can.reg >= op[p].version
    BY <1>1, <2>2 DEF Versions, NoVersion
  <2> QED
    BY <1>2, <1>3, <2>3 DEF Settlement!Fulfilled, AbstractCall, Call0
<1>4. CASE ~(op[p].kind = "Register" /\ op[p].version \notin FinalVersions)
  <2>1. EnsuredByCall(p)
    BY <1>4 DEF EnsuredByCall, Returned, Kinds
  <2>2. can.concluded /\ can.reg = op[p].version
    BY <1>1, <2>1 DEF CallInv, SuccessMeansOwnVersion
  <2>3. op[p].kind = "Withdraw" => p \in can.paid
    BY <1>1 DEF CallInv, Returned
  <2> QED
    BY <1>2, <1>4, <2>2, <2>3 DEF Settlement!Fulfilled, AbstractCall, Call0
<1> QED
  BY <1>3, <1>4

Fulfilment ==
    \A p \in Participants : pc[p] = "idle" /\ res[p] = "nil" => Settlement!Fulfilled(p)

LEMMA FulfilmentHolds == IInv /\ SuccessMeansOwnVersion /\ KindInv => Fulfilment
BY SuccessFulfils DEF Fulfilment, KindInv

LEMMA KindStep == IInv /\ KindInv /\ [Next]_vars => KindInv'
<1> SUFFICES ASSUME IInv, KindInv, [Next]_vars PROVE KindInv'
  OBVIOUS
<1>0. TypeOK /\ DeliveredIsLogged
  BY DEF IInv
<1>1. ASSUME NEW p \in Participants,
             Step(p) \/ TimeoutElapsed(p) \/ Poll(p) \/ RunDone(p)
      PROVE  KindInv'
  <2>1. LocalMove(p) /\ UNCHANGED op
    BY <1>0, <1>1, StepMoves DEF Unrelated
  <2>2. pc[p] # "idle" \/ UNCHANGED <<pc, res>>
    BY <1>1 DEF Step, Dispute, Conclude, QueryAndMatchEvents, QueryState,
                ConcludeDispute, QueryConcluded, Withdraw, ReceiveEvent, Waiting,
                ContextDone, ReceivePanicErr, TimeoutElapsed, Poll, RunDone
  <2> QED
    BY <2>1, <2>2 DEF KindInv, LocalMove
<1>2. ASSUME NEW p \in Participants, Reject(p) \/ Begin(p)
      PROVE  KindInv'
  <2>1. PICK kind \in Kinds, req \in Requests : Call(p, kind, req)
    BY <1>2 DEF Reject, checkRegisterFails, Begin
  <2>2. op'[p].kind \in Kinds /\ \A q \in Participants \ {p} : op'[q] = op[q]
    BY <1>0, <2>1 DEF Call, TypeOK
  <2>3. \A q \in Participants \ {p} : pc'[q] = pc[q] /\ res'[q] = res[q]
    BY <1>0, <1>2 DEF Reject, checkRegisterFails, Begin, Return, GotoWithSub, GotoWithoutSub, Goto, TypeOK
  <2> QED
    BY <2>2, <2>3 DEF KindInv
<1>3. CASE (\E p \in Participants : Cancel(p)) \/ Expire \/ UNCHANGED vars
  BY <1>3 DEF Cancel, Expire, vars, KindInv
<1> QED
  BY <1>1, <1>2, <1>3 DEF Next

(* The messages of a call move the channel as the abstract call may.       *)
LedgerSame == can'.reg = can.reg /\ Outcome' = Outcome /\ can'.paid = can.paid

LEMMA LedgerStep ==
    ASSUME IInv, SuccessMeansOwnVersion, NEW p \in Participants,
           Step(p) \/ TimeoutElapsed(p) \/ Poll(p) \/ RunDone(p)
    PROVE  \/ Settlement!Dispute(p) \/ Settlement!Conclude(p) \/ Settlement!Pay(p)
           \/ LedgerSame
<1> USE DEF LedgerSame, Outcome
<1>0. /\ CallInv(p) /\ can \in Canisters
      /\ AbstractCall[p].kind = op[p].kind /\ AbstractCall[p].version = op[p].version
  BY DEF IInv, TypeOK, AbstractCall, Call0
<1>1. CASE Dispute(p)
  <2>1. can' = can \/ (CanDispute(can, op[p]) /\ can' = OnDispute(can, op[p]))
    BY <1>1 DEF Dispute, Answered, CallFails, OnDispute
  <2>2. Disputes(op[p].kind, op[p])
    BY <1>0, <1>1 DEF Dispute, CallInv
  <2>3. ASSUME CanDispute(can, op[p]), can' = OnDispute(can, op[p])
        PROVE  Settlement!Dispute(p)
    <3>1. /\ can'.reg = op[p].version /\ can'.concluded = can.concluded
          /\ can'.paid = can.paid /\ ~can.concluded /\ can.reg < op[p].version
      BY <1>0, <2>3 DEF OnDispute, CanDispute, Settled, Canisters
    <3> QED
      BY <1>0, <2>2, <3>1
      DEF Settlement!Dispute, AbstractCall, Call0, Disputes, NoVersion, Settlement!NoVersion
  <2> QED
    BY <2>1, <2>3
<1>2. CASE Conclude(p) \/ ConcludeDispute(p)
  <2>1. can' = can \/ (CanConclude(can, op[p]) /\ can' = OnConclude(can, op[p]))
    BY <1>2 DEF Conclude, ConcludeDispute, Answered, CallFails, OnConclude
  <2>2. ASSUME CanConclude(can, op[p]), can' = OnConclude(can, op[p])
        PROVE  Settlement!Conclude(p)
    <3>1. /\ can'.reg = op[p].version /\ can'.concluded /\ can'.paid = can.paid
          /\ ~can.concluded /\ op[p].version \in FinalVersions \cup {can.reg}
      BY <1>0, <2>2 DEF OnConclude, CanConclude, Settled, Canisters
    <3> QED
      BY <1>0, <3>1
      DEF Settlement!Conclude, AbstractCall, Call0, NoVersion, Settlement!NoVersion
  <2> QED
    BY <2>1, <2>2
<1>3. CASE Withdraw(p)
  <2>1. can' = can \/ can' = [can EXCEPT !.paid = @ \cup {p}]
    BY <1>3 DEF Withdraw, Answered, CallFails, OnWithdraw
  <2>2. op[p].kind = "Withdraw" /\ can.concluded /\ can.reg = op[p].version
    BY <1>0, <1>3 DEF Withdraw, CallInv, EnsuredByCall, SuccessMeansOwnVersion
  <2>3. ASSUME can' = [can EXCEPT !.paid = @ \cup {p}]
        PROVE  Settlement!Pay(p)
    <3>1. /\ can'.reg = can.reg /\ can'.concluded = can.concluded
          /\ can'.paid = can.paid \cup {p}
      BY <1>0, <2>3 DEF Canisters
    <3> QED
      BY <1>0, <2>2, <3>1 DEF Settlement!Pay, AbstractCall, Call0
  <2> QED
    BY <2>1, <2>3
<1>4. CASE \/ QueryAndMatchEvents(p) \/ QueryState(p) \/ QueryConcluded(p)
           \/ ReceiveEvent(p) \/ ContextDone(p) \/ ReceivePanicErr(p)
           \/ TimeoutElapsed(p) \/ Poll(p) \/ RunDone(p)
  BY <1>4 DEF QueryAndMatchEvents, QueryState, QueryConcluded, Sees, QueryAnswered, QueryFails,
              ReceiveEvent, ContextDone, ReceivePanicErr, TimeoutElapsed, Poll, RunDone
<1> QED
  BY <1>1, <1>2, <1>3, <1>4 DEF Step

(* ... and its moves answer the caller as promised.                        *)
LEMMA AnswerStep ==
    ASSUME Fulfilment', NEW p \in Participants, pc[p] # "idle", op[p].kind \in Kinds,
           LocalMove(p), UNCHANGED op
    PROVE  Settlement!Answer(p)
<1>1. \A q \in Participants \ {p} : Call0(q)' = Call0(q)
  BY DEF LocalMove, Call0, AnswerOf
<1>2. AbstractCall[p].answer = "pending"
  BY DEF AbstractCall, Call0, AnswerOf, Kinds
<1>3. ASSUME NEW a, AnswerOf(p)' = a
      PROVE  AbstractCall' = [AbstractCall EXCEPT ![p].answer = a]
  BY <1>1, <1>3 DEF AbstractCall, Call0
<1>4. CASE pc'[p] # "idle"
  <2>1. Call0(p)' = Call0(p)
    BY <1>4 DEF Call0, AnswerOf, Kinds
  <2> QED
    BY <1>1, <2>1 DEF Settlement!Answer, AbstractCall, Call0
<1>5. CASE pc'[p] = "idle" /\ res'[p] = "nil"
  <2>1. AnswerOf(p)' = "success"
    BY <1>5 DEF AnswerOf, Kinds
  <2>2. Settlement!Fulfilled(p)'
    BY <1>5 DEF Fulfilment
  <2> QED
    BY <1>3, <2>1, <2>2 DEF Settlement!Answer, AbstractCall, Call0
<1>6. CASE pc'[p] = "idle" /\ res'[p] # "nil"
  <2>1. AnswerOf(p)' = "failure"
    BY <1>6 DEF AnswerOf, Kinds
  <2> QED
    BY <1>3, <2>1 DEF Settlement!Answer, AbstractCall, Call0
<1> QED
  BY <1>4, <1>5, <1>6

LEMMA BeginRefines ==
    ASSUME IInv, NEW p \in Participants, Reject(p) \/ Begin(p)
    PROVE  Settlement!Begin(p)
<1>0. TypeOK /\ LocalTypeOK
  BY DEF IInv, TypeOK, LocalTypeOK
<1>1. PICK kind \in Kinds, req \in Requests : Call(p, kind, req)
           /\ (\/ Return(p, "ErrAdjudicatorReqIncompatible")
               \/ Return(p, "ErrNonceOutOfRange")
               \/ GotoWithoutSub(p, "dispute")
               \/ GotoWithSub(p, "conclude")
               \/ GotoWithoutSub(p, "queryState"))
  BY DEF Reject, checkRegisterFails, Begin
<1>2. UNCHANGED can /\ LocalMove(p) /\ pc[p] = "idle"
  BY <1>0, <1>1, ControlMoves, LocationsAndResults DEF Call
<1>3. ~Settlement!Pending(p)
  BY <1>2 DEF Settlement!Pending, AnswerOf
<1>4. op'[p].kind = kind /\ op'[p].version = req.version /\ req.version \in Versions
  BY <1>0, <1>1, AdjudicatorAssumption DEF Call, TypeOK, AllRequests
<1>5. PICK a \in {"pending", "failure"} : AnswerOf(p)' = a
  <2>1. pc'[p] # "idle" \/ res'[p] # "nil"
    BY <1>0, <1>1, GotoMoves DEF Return, TypeOK
  <2> QED
    BY <1>4, <2>1 DEF AnswerOf, Kinds
<1>6. \A q \in Participants \ {p} : Call0(q)' = Call0(q)
  <2>1. \A q \in Participants \ {p} : op'[q] = op[q]
    BY <1>0, <1>1 DEF Call, TypeOK
  <2> QED
    BY <1>2, <2>1 DEF LocalMove, Call0, AnswerOf
<1>7. AbstractCall' =
        [AbstractCall EXCEPT ![p] = [kind |-> kind, version |-> req.version, answer |-> a]]
  BY <1>4, <1>5, <1>6 DEF AbstractCall, Call0
<1> QED
  BY <1>2, <1>3, <1>4, <1>7
  DEF Settlement!Begin, Settlement!ledger, AbstractCall, Call0, Kinds

LEMMA NextRefines ==
    IInv /\ SuccessMeansOwnVersion /\ KindInv /\ Fulfilment' /\ [Next]_vars
        => [Settlement!Next]_(Settlement!vars)
<1> SUFFICES ASSUME IInv, SuccessMeansOwnVersion, KindInv, Fulfilment', [Next]_vars
             PROVE  Settlement!Next \/ UNCHANGED Settlement!vars
  OBVIOUS
<1>1. ASSUME NEW p \in Participants, Step(p) \/ TimeoutElapsed(p)
      PROVE  Settlement!Proceed(p)
  <2>1. pc[p] # "idle" /\ op[p].kind \in Kinds
    BY <1>1 DEF KindInv, Step, Dispute, Conclude, QueryAndMatchEvents, QueryState,
                ConcludeDispute, QueryConcluded, Withdraw, ReceiveEvent, Waiting,
                ContextDone, ReceivePanicErr, TimeoutElapsed
  <2>2. Settlement!Pending(p)
    BY <2>1 DEF Settlement!Pending, AnswerOf, Kinds
  <2>3. LocalMove(p) /\ UNCHANGED op
    BY <1>1, StepMoves DEF IInv, Unrelated
  <2>4. Settlement!Answer(p)
    BY <2>1, <2>3, AnswerStep
  <2> QED
    BY <1>1, <2>2, <2>4, LedgerStep
    DEF Settlement!Proceed, Settlement!ledger, LedgerSame, Outcome
<1>2. ASSUME UNCHANGED <<pc, res, op>>, LedgerSame
      PROVE  UNCHANGED Settlement!vars
  <2>1. \A p \in Participants : Call0(p)' = Call0(p)
    BY <1>2 DEF Call0, AnswerOf
  <2> QED
    BY <1>2, <2>1 DEF Settlement!vars, LedgerSame, Outcome, Call0
<1>3. ASSUME NEW p \in Participants, Poll(p) \/ RunDone(p) \/ Cancel(p)
      PROVE  UNCHANGED Settlement!vars
  <2>1. UNCHANGED <<pc, res, op, can>>
    BY <1>3 DEF Poll, RunDone, Cancel, Unrelated, Sees, QueryAnswered, QueryFails
  <2> QED
    BY <1>2, <2>1 DEF LedgerSame, Outcome
<1>4. CASE Expire
  <2>1. UNCHANGED <<pc, res, op>> /\ can \in Canisters
    BY <1>4 DEF Expire, IInv, TypeOK
  <2> QED
    BY <1>2, <1>4, <2>1 DEF Expire, OnExpire, Canisters, LedgerSame, Outcome
<1>5. CASE UNCHANGED vars
  BY <1>2, <1>5 DEF vars, LedgerSame, Outcome
<1> QED
  BY <1>1, <1>3, <1>4, <1>5, BeginRefines DEF Next, Settlement!Next

(* Everything the adjudicators, their subscriptions and the canister do    *)
(* together is a behaviour of ChannelSettlement.                           *)
THEOREM Refinement == Spec => ImplementsSettlement
<1>1. Init => KindInv
  BY DEF Init, KindInv
<1>2. Spec => [](IInv /\ SuccessMeansOwnVersion /\ KindInv)
  BY <1>1, KindStep, Inductive, OwnVersionIsConcluded, PTL DEF Spec
<1>3. Spec => []Fulfilment
  BY <1>2, FulfilmentHolds, PTL
<1> QED
  BY <1>2, <1>3, InitRefines, NextRefines, PTL
  DEF Spec, ImplementsSettlement, Settlement!Spec
=============================================================================
