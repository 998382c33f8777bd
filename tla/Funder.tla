------------------------------- MODULE Funder -------------------------------
(***************************************************************************)
(* channel/funder.go: Fund, called by the participants of one channel,     *)
(* with the calls of connector/services.go it makes.                       *)
(*                                                                         *)
(* Fund transfers ICP to the Perun canister, tells the canister of the     *)
(* transfer, deposits it into the channel, and polls for its own Funded    *)
(* event.  The two canister calls in the middle run under connMutex, a     *)
(* variable of the package: all funders of one process share it.  A nil    *)
(* dereference terminates the process and every funder in it.              *)
(***************************************************************************)
EXTENDS FundingCanister, FiniteSets, Functions

CONSTANTS
    Processes,      \* the processes that run funders
    ProcessOf,      \* ProcessOf[p]: the one that runs p's funder
    Nobody,         \* the holder of a free mutex
    InitialBalance, \* InitialBalance[p]: p's tokens on the ICP ledger
    MaxIters,       \* DefaultMaxIters: polls for the Funded event
    Deadlines,      \* the participants whose contexts have a deadline
    MaxLag,         \* bound: events that a replica answering query_events misses
    MaxFaults,      \* bound: RPCs that fail, whose answer is unreadable or old
    MaxCrashes,     \* bound: processes killed from outside
    MaxCalls        \* bound: Fund calls of each participant

ASSUME FunderAssumption ==
    /\ ProcessOf \in [Funders -> Processes]
    /\ Nobody \notin Funders
    /\ InitialBalance \in [Funders -> Nat]
    /\ MaxIters \in Nat \ {0}
    /\ Deadlines \subseteq Funders
    /\ MaxLag \in Nat /\ MaxFaults \in Nat /\ MaxCrashes \in Nat /\ MaxCalls \in Nat

VARIABLES
    bank,       \* the ICP ledger and the Perun canister
    pc,         \* pc[p]: where p's Fund call is, "idle" between calls
    res,        \* res[p]: how the last call ended
    block,      \* block[p]: the block number of the call's transfer
    iters,      \* iters[p]: the loop counter of QueryFundingState
    ctxDone,    \* ctxDone[p]: the context of the call is done
    connMutex,  \* connMutex[q]: the funder that holds q's mutex, or Nobody
    calls,      \* calls[p]: number of calls so far
    faults,     \* number of such RPCs so far
    crashes     \* number of processes killed so far

vars == <<bank, pc, res, block, iters, ctxDone, connMutex, calls, faults, crashes>>

InCriticalSection == {"notify", "deposit"}
Locations == {"idle", "transfer", "lockForNotify", "lockForDeposit", "poll"}
                \cup InCriticalSection
Results == {"none", "nil", "ErrFundingReqIncompatible", "ErrNotify",
            "ErrDeposit", "ErrParse", "FundingTimeoutError", "panic", "killed"}

Init ==
    /\ bank = OpenBank(InitialBalance)
    /\ pc = [p \in Funders |-> "idle"]
    /\ res = [p \in Funders |-> "none"]
    /\ block = [p \in Funders |-> 0]
    /\ iters = [p \in Funders |-> 0]
    /\ ctxDone = [p \in Funders |-> FALSE]
    /\ connMutex = [q \in Processes |-> Nobody]
    /\ calls = [p \in Funders |-> 0]
    /\ faults = 0 /\ crashes = 0
-----------------------------------------------------------------------------
Goto(p, l) == pc' = [pc EXCEPT ![p] = l] /\ UNCHANGED res

Return(p, r) == pc' = [pc EXCEPT ![p] = "idle"] /\ res' = [res EXCEPT ![p] = r]

(* connMutex.Lock, and the deferred Unlock.                                *)
Lock(p) ==
    /\ connMutex[ProcessOf[p]] = Nobody
    /\ connMutex' = [connMutex EXCEPT ![ProcessOf[p]] = p]

Unlock(p) == connMutex' = [connMutex EXCEPT ![ProcessOf[p]] = Nobody]

(* The process ends and is started anew: its memory is lost.               *)
ProcessEnds(q, r) ==
    LET victims == {p \in Funders : ProcessOf[p] = q /\ pc[p] # "idle"} IN
    /\ pc' = [p \in Funders |-> IF p \in victims THEN "idle" ELSE pc[p]]
    /\ res' = [p \in Funders |-> IF p \in victims THEN r ELSE res[p]]
    /\ connMutex' = [connMutex EXCEPT ![q] = Nobody]

Answered(b) == bank' = b /\ UNCHANGED faults

(* The call fails for the caller, executed or not.                         *)
Fails(b) == faults < MaxFaults /\ faults' = faults + 1 /\ bank' \in {bank, b}

(* It fails unexecuted: a failed query, or an answer that says no.         *)
FailsUnexecuted == faults < MaxFaults /\ faults' = faults + 1 /\ UNCHANGED bank
-----------------------------------------------------------------------------
(* NewDepositReqFromPerun and BuildTransfer: a request whose agreement is  *)
(* not the state's balances, or is out of MakeBalance's range, is rejected *)
(* before any RPC.                                                         *)
Fund(p) ==
    /\ pc[p] = "idle" /\ calls[p] < MaxCalls
    /\ calls' = [calls EXCEPT ![p] = @ + 1]
    /\ ctxDone' = [ctxDone EXCEPT ![p] = FALSE]
    /\ Goto(p, "transfer") \/ Return(p, "ErrFundingReqIncompatible")
    /\ UNCHANGED <<bank, block, iters, connMutex, faults, crashes>>

(* Mutant: a transfer that fails is sent again within the call, as the     *)
(* ledger saw it or not.                                                   *)
TransferToPerun_Retrying(p) ==
    /\ pc[p] = "transfer"
    /\ \/ /\ CanTransfer(bank, p)
          /\ Answered(OnTransfer(bank, p))
          /\ block' = [block EXCEPT ![p] = Len(bank.blocks) + 1]
          /\ Goto(p, "lockForNotify")
          /\ UNCHANGED connMutex
       \/ /\ CanTransfer(bank, p) /\ Fails(OnTransfer(bank, p))
          /\ UNCHANGED <<pc, res, block, connMutex>>
       \/ /\ ~CanTransfer(bank, p) /\ Answered(bank)
          /\ ProcessEnds(ProcessOf[p], "panic")
          /\ UNCHANGED block
    /\ UNCHANGED <<iters, ctxDone, calls, crashes>>

(* TransferToPerun reads blockNum.Ok before it looks at err: TransferIC    *)
(* returns a nil result with every error.                                  *)
TransferToPerun(p) ==
    /\ pc[p] = "transfer"
    /\ \/ /\ CanTransfer(bank, p)
          /\ Answered(OnTransfer(bank, p))
          /\ block' = [block EXCEPT ![p] = Len(bank.blocks) + 1]
          /\ Goto(p, "lockForNotify")
          /\ UNCHANGED connMutex
       \/ /\ \/ ~CanTransfer(bank, p) /\ Answered(bank)
             \/ CanTransfer(bank, p) /\ Fails(OnTransfer(bank, p))
          /\ ProcessEnds(ProcessOf[p], "panic")
          /\ UNCHANGED block
    /\ UNCHANGED <<iters, ctxDone, calls, crashes>>

LockForNotify(p) ==
    /\ pc[p] = "lockForNotify"
    /\ Lock(p)
    /\ Goto(p, "notify")
    /\ UNCHANGED <<bank, block, iters, ctxDone, calls, faults, crashes>>

(* Mutant: a failed notification returns without the deferred Unlock.      *)
NotifyTransferToPerun_KeepingLock(p) ==
    /\ pc[p] = "notify"
    /\ \/ Answered(OnNotify(bank, block[p])) /\ Goto(p, "lockForDeposit") /\ Unlock(p)
       \/ /\ Fails(OnNotify(bank, block[p]))
          /\ Return(p, "ErrNotify")
          /\ UNCHANGED connMutex
       \/ FailsUnexecuted /\ ProcessEnds(ProcessOf[p], "panic")
    /\ UNCHANGED <<block, iters, ctxDone, calls, crashes>>

(* The canister answers with the amount; with no amount (null) if it could *)
(* not read the block, which the code dereferences; or the call fails.     *)
NotifyTransferToPerun(p) ==
    /\ pc[p] = "notify"
    /\ \/ Answered(OnNotify(bank, block[p])) /\ Goto(p, "lockForDeposit") /\ Unlock(p)
       \/ Fails(OnNotify(bank, block[p])) /\ Return(p, "ErrNotify") /\ Unlock(p)
       \/ FailsUnexecuted /\ ProcessEnds(ProcessOf[p], "panic")
    /\ UNCHANGED <<block, iters, ctxDone, calls, crashes>>

LockForDeposit(p) ==
    /\ pc[p] = "lockForDeposit"
    /\ Lock(p)
    /\ Goto(p, "deposit")
    /\ UNCHANGED <<bank, block, iters, ctxDone, calls, faults, crashes>>

(* Mutant: a failed deposit returns without the deferred Unlock.           *)
DepositToPerunChannel_KeepingLock(p) ==
    /\ pc[p] = "deposit"
    /\ \/ /\ Answered(OnDeposit(bank, p)) \/ FailsUnexecuted
          /\ Goto(p, "poll")
          /\ iters' = [iters EXCEPT ![p] = 0]
          /\ Unlock(p)
       \/ /\ Fails(OnDeposit(bank, p))
          /\ Return(p, "ErrDeposit")
          /\ UNCHANGED <<iters, connMutex>>
    /\ UNCHANGED <<block, ctxDone, calls, crashes>>

(* Mutant: the loop counter of the last call is kept.                      *)
DepositToPerunChannel_KeepingIters(p) ==
    /\ pc[p] = "deposit"
    /\ \/ (Answered(OnDeposit(bank, p)) \/ FailsUnexecuted) /\ Goto(p, "poll")
       \/ Fails(OnDeposit(bank, p)) /\ Return(p, "ErrDeposit")
    /\ Unlock(p)
    /\ UNCHANGED <<block, iters, ctxDone, calls, crashes>>

(* The canister's answer is not looked at: a refusal is taken for success. *)
DepositToPerunChannel(p) ==
    /\ pc[p] = "deposit"
    /\ \/ /\ Answered(OnDeposit(bank, p)) \/ FailsUnexecuted
          /\ Goto(p, "poll")
          /\ iters' = [iters EXCEPT ![p] = 0]
       \/ Fails(OnDeposit(bank, p)) /\ Return(p, "ErrDeposit") /\ UNCHANGED iters
    /\ Unlock(p)
    /\ UNCHANGED <<block, ctxDone, calls, crashes>>
-----------------------------------------------------------------------------
(* QueryFundingState.                                                      *)

VisibleLogs ==
    {SubSeq(bank.log, 1, k) : k \in {j \in 0..Len(bank.log) : Len(bank.log) - j <= MaxLag}}

(* The sum of the totals of the events at these indices reaches the amount. *)
AddTotal(ev, sum) == sum + ev.total

SumReaches(amount, log, indices) ==
    FoldFunctionOnSet(AddTotal, 0, log, indices) >= amount

(* Mutant: the events of all participants count.                           *)
EvaluateFundedEvents_OfAnybody(log, p) == SumReaches(Amount[p], log, DOMAIN log)

EvaluateFundedEvents(log, p) ==
    SumReaches(Amount[p], log, {i \in DOMAIN log : log[i].who = p})

(* An answer that misses events is counted as a fault.                     *)
Sees(log) == IF log = bank.log THEN Answered(bank) ELSE FailsUnexecuted

(* Mutant: the loop makes one turn too many.                               *)
NextTurn_OneMore(p) ==
    /\ iters' = [iters EXCEPT ![p] = @ + 1]
    /\ IF iters[p] + 1 <= MaxIters THEN UNCHANGED <<pc, res>>
                                   ELSE Return(p, "FundingTimeoutError")

(* The turn found no funding; the last one ends the loop.                  *)
NextTurn(p) ==
    /\ iters' = [iters EXCEPT ![p] = @ + 1]
    /\ IF iters[p] + 1 < MaxIters THEN UNCHANGED <<pc, res>>
                                  ELSE Return(p, "FundingTimeoutError")

(* parseEvents fails: on matches of the three patterns that are not equal  *)
(* in number, and on a number that 64 bits do not hold.  Which text the    *)
(* canister answers with is not in the code: any answer may be one that    *)
(* cannot be parsed, and is counted as a fault.  The loop is left at once. *)
Unparsable(p) == FailsUnexecuted /\ Return(p, "ErrParse") /\ UNCHANGED iters

(* Mutant: a failed query ends the loop.                                   *)
QueryFundingState_GivingUp(p) ==
    /\ pc[p] = "poll"
    /\ \/ \E log \in VisibleLogs :
             /\ Sees(log)
             /\ IF EvaluateFundedEvents(log, p)
                THEN Return(p, "nil") /\ UNCHANGED iters
                ELSE NextTurn(p)
       \/ FailsUnexecuted /\ Return(p, "FundingTimeoutError") /\ UNCHANGED iters
       \/ Unparsable(p)
    /\ UNCHANGED <<block, ctxDone, connMutex, calls, crashes>>

QueryFundingState(p) ==
    /\ pc[p] = "poll"
    /\ \/ \E log \in VisibleLogs :
             /\ Sees(log)
             /\ IF EvaluateFundedEvents(log, p)
                THEN Return(p, "nil") /\ UNCHANGED iters
                ELSE NextTurn(p)
       \/ FailsUnexecuted /\ NextTurn(p)
       \/ Unparsable(p)
    /\ UNCHANGED <<block, ctxDone, connMutex, calls, crashes>>

ContextDone(p) ==
    /\ pc[p] = "poll" /\ ctxDone[p]
    /\ Return(p, "FundingTimeoutError")
    /\ UNCHANGED <<bank, block, iters, ctxDone, connMutex, calls, faults, crashes>>
-----------------------------------------------------------------------------
(* The environment: a deadline passes; a process is killed and restarted.  *)

Cancel(p) ==
    /\ p \in Deadlines /\ pc[p] # "idle" /\ ~ctxDone[p]
    /\ ctxDone' = [ctxDone EXCEPT ![p] = TRUE]
    /\ UNCHANGED <<bank, pc, res, block, iters, connMutex, calls, faults, crashes>>

Kill(q) ==
    /\ crashes < MaxCrashes /\ crashes' = crashes + 1
    /\ \E p \in Funders : ProcessOf[p] = q /\ pc[p] # "idle"
    /\ ProcessEnds(q, "killed")
    /\ UNCHANGED <<bank, block, iters, ctxDone, calls, faults>>
-----------------------------------------------------------------------------
Step(p) ==
    \/ TransferToPerun(p)
    \/ LockForNotify(p) \/ NotifyTransferToPerun(p)
    \/ LockForDeposit(p) \/ DepositToPerunChannel(p)
    \/ QueryFundingState(p) \/ ContextDone(p)

Next ==
    \/ \E p \in Funders : Fund(p) \/ Step(p) \/ Cancel(p)
    \/ \E q \in Processes : Kill(q)

Spec == Init /\ [][Next]_vars

(* A call keeps running, also past a mutex that is free again and again:   *)
(* sync.Mutex hands itself over to a waiter that has waited for 1 ms.      *)
Fairness ==
    \A p \in Funders :
        WF_vars(Step(p)) /\ SF_vars(LockForNotify(p)) /\ SF_vars(LockForDeposit(p))

FairSpec == Spec /\ Fairness
-----------------------------------------------------------------------------
TypeOK ==
    /\ bank \in Banks
    /\ pc \in [Funders -> Locations]
    /\ res \in [Funders -> Results]
    /\ block \in [Funders -> Nat]
    /\ iters \in [Funders -> 0..MaxIters]
    /\ ctxDone \in [Funders -> BOOLEAN]
    /\ connMutex \in [Processes -> Funders \cup {Nobody}]
    /\ calls \in [Funders -> Nat]
    /\ faults \in Nat /\ crashes \in Nat

(* The mutex is held by the funder that waits for the canister, and by     *)
(* nobody else: no error path, panic or crash leaves it locked             *)
(* (services.go, the deferred Unlocks).                                    *)
MutexHeldAtCanister ==
    \A q \in Processes : \A p \in Funders :
        connMutex[q] = p <=> ProcessOf[p] = q /\ pc[p] \in InCriticalSection

(* A Fund that returns nil leaves its participant with at least the agreed *)
(* amount in the channel, although it sums up cumulative totals, ignores   *)
(* the canister's answer to deposit, and may be the retry of a call that   *)
(* failed or crashed half-way (funder.go, QueryFundingState).              *)
FundedIsHeld ==
    \A p \in Funders : res[p] = "nil" => bank.holdings[p] >= Amount[p]

(* Every Fund ends: no funder waits for the mutex or polls forever         *)
(* (services.go, connMutex; funder.go, maxIters).                          *)
EveryFundReturns ==
    \A p \in Funders : pc[p] # "idle" ~> pc[p] = "idle"

(* A deposited funding is noticed although queries fail or are answered by *)
(* a lagging replica, as long as that happens less often than              *)
(* QueryFundingState asks; only a deadline, the end of the process or an   *)
(* answer that cannot be parsed is an excuse: unlike a failed query, that  *)
(* ends Fund with an error on a channel that is funded (funder.go,         *)
(* polling; funder_events.go, parseEvents).                                *)
DepositIsNoticed ==
    \A p \in Funders :
        pc[p] = "poll" /\ bank.holdings[p] >= Amount[p]
            ~> pc[p] = "idle" /\ (res[p] \in {"nil", "ErrParse", "panic", "killed"} \/ ctxDone[p])

(* "failed to execute IC transfer during channel opening": the error of a  *)
(* transfer is returned to the caller of Fund (funder.go, Deposit).        *)
TransferErrorIsReturned == \A p \in Funders : res[p] # "panic"
-----------------------------------------------------------------------------
(* The funder implements ChannelFunding.                                   *)

(* Blocks that the canister has not been told of.                          *)
Unnotified(b, p) == {n \in DOMAIN b.blocks \ b.notified : b.blocks[n].from = p}

Underway(b) ==
    [p \in Funders |-> b.credit[p] + Cardinality(Unnotified(b, p)) * Transferred(p)]

CallOf(p) ==
    IF pc[p] = "transfer" THEN "begun"
    ELSE IF pc[p] # "idle" THEN "paid"
    ELSE IF res[p] \in {"none", "nil"} THEN res[p] ELSE "error"

Funding == INSTANCE ChannelFunding WITH
    Price    <- [p \in Funders |-> Transferred(p)],
    wallet   <- bank.balance,
    underway <- Underway(bank),
    held     <- bank.holdings,
    call     <- [p \in Funders |-> CallOf(p)]

(* Whatever fails, crashes or runs side by side: no token is lost or       *)
(* counted twice between ledger, canister and channel, a call pays once,   *)
(* a retry pays again, and only a call that paid and whose participant     *)
(* holds the amount returns nil (funder.go; services.go).                  *)
ImplementsFunding == Funding!Spec
-----------------------------------------------------------------------------
(* Why: an inductive invariant.                                            *)

(* Credits come from whole transfers, and so do the holdings of whoever    *)
(* has an event: no credit is ever split between two deposits.             *)
WholeTransfers(b) ==
    /\ b.notified \subseteq DOMAIN b.blocks
    /\ \A p \in Funders : b.credit[p] % Transferred(p) = 0
    /\ \A n \in DOMAIN b.blocks : b.blocks[n].amount = Transferred(b.blocks[n].from)
    /\ \A p \in Funders : b.credit[p] = 0 \/ b.credit[p] >= Transferred(p)
    /\ \A i \in DOMAIN b.log : b.holdings[b.log[i].who] >= Transferred(b.log[i].who)

(* FundedIsHeld is not inductive: a sum of events that reaches the amount  *)
(* has a summand, and WholeTransfers says what one event proves.  A funder *)
(* that polls has a turn left (services.go, funder.go).                    *)
IInv ==
    /\ TypeOK /\ MutexHeldAtCanister /\ WholeTransfers(bank) /\ FundedIsHeld
    /\ \A p \in Funders : pc[p] = "poll" => iters[p] < MaxIters
=============================================================================
