--------------------------- MODULE ChannelFunding ---------------------------
(***************************************************************************)
(* What the funder promises its callers, without RPCs, mutexes, replicas   *)
(* or processes: where the participants' money is, and which answers calls *)
(* of Fund may get.                                                        *)
(***************************************************************************)
EXTENDS Integers

CONSTANTS
    Funders,
    Price,          \* Price[p]: what a transfer of p brings in
    Fee,            \* what the ledger takes for it
    Amount,         \* Amount[p]: what p has to hold
    InitialBalance

VARIABLES
    wallet,    \* wallet[p]: p's money outside the channel
    underway,  \* underway[p]: transferred and not deposited yet
    held,      \* held[p]: deposited into the channel
    call       \* call[p]: p's current call, or how its last one ended

money == <<wallet, underway, held>>
vars == <<wallet, underway, held, call>>

Init ==
    /\ wallet = InitialBalance
    /\ underway = [p \in Funders |-> 0]
    /\ held = [p \in Funders |-> 0]
    /\ call = [p \in Funders |-> "none"]

Running == {p \in Funders : call[p] \in {"begun", "paid"}}

Fail(S) == call' = [p \in Funders |-> IF p \in S THEN "error" ELSE call[p]]

Begin(p) ==
    /\ p \notin Running
    /\ \E c \in {"begun", "error"} : call' = [call EXCEPT ![p] = c]
    /\ UNCHANGED money

(* A call pays once.  It may fail by what it has paid, and take others     *)
(* down with it.                                                           *)
Pay(p) ==
    /\ call[p] = "begun"
    /\ wallet[p] >= Price[p] + Fee
    /\ wallet' = [wallet EXCEPT ![p] = @ - (Price[p] + Fee)]
    /\ underway' = [underway EXCEPT ![p] = @ + Price[p]]
    /\ UNCHANGED held
    /\ \/ call' = [call EXCEPT ![p] = "paid"]
       \/ \E S \in SUBSET Running : p \in S /\ Fail(S)

(* Whole transfers arrive, of this call or of earlier ones.                *)
Arrive(p) ==
    /\ call[p] = "paid"
    /\ \E x \in 1..underway[p] :
          /\ x % Price[p] = 0
          /\ underway' = [underway EXCEPT ![p] = @ - x]
          /\ held' = [held EXCEPT ![p] = @ + x]
    /\ UNCHANGED wallet
    /\ UNCHANGED call \/ Fail({p})

(* Only a call that has paid succeeds, and only with the amount held.      *)
Succeed(p) ==
    /\ call[p] = "paid"
    /\ held[p] >= Amount[p]
    /\ call' = [call EXCEPT ![p] = "nil"]
    /\ UNCHANGED money

Abort == (\E S \in SUBSET Running : Fail(S)) /\ UNCHANGED money

Next ==
    \/ \E p \in Funders : Begin(p) \/ Pay(p) \/ Arrive(p) \/ Succeed(p)
    \/ Abort

Spec == Init /\ [][Next]_vars
=============================================================================
