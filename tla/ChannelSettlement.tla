-------------------------- MODULE ChannelSettlement --------------------------
(***************************************************************************)
(* What the adjudicator promises its callers, without RPCs, subscriptions, *)
(* queries or timeouts: the on-chain life of one channel and the answers   *)
(* that calls of Register and Withdraw may get.                            *)
(***************************************************************************)
EXTENDS Integers

CONSTANTS Participants, Versions, FinalVersions

VARIABLES
    registered,  \* the registered version, or NoVersion
    outcome,     \* the concluded version, or NoVersion
    paid,        \* the participants that have withdrawn
    call         \* call[p]: p's current or last call, and its answer

NoVersion == -1

ledger == <<registered, outcome, paid>>
vars == <<registered, outcome, paid, call>>

Answers == {"none", "pending", "success", "failure"}
NoCall == [kind |-> "none", version |-> 0, answer |-> "none"]

Init ==
    /\ registered = NoVersion
    /\ outcome = NoVersion
    /\ paid = {}
    /\ call = [p \in Participants |-> NoCall]

Pending(p) == call[p].answer = "pending"

Begin(p) ==
    /\ ~Pending(p)
    /\ \E kind \in {"Register", "Withdraw"}, v \in Versions, a \in {"pending", "failure"} :
          call' = [call EXCEPT ![p] = [kind |-> kind, version |-> v, answer |-> a]]
    /\ UNCHANGED ledger

(* Only a newer version replaces the registered one, and none does once    *)
(* the outcome is fixed.                                                   *)
Dispute(p) ==
    /\ call[p].kind = "Register" /\ call[p].version \notin FinalVersions
    /\ outcome = NoVersion /\ registered < call[p].version
    /\ registered' = call[p].version
    /\ UNCHANGED <<outcome, paid>>

(* The outcome is a final version or the registered one, and is fixed once.*)
Conclude(p) ==
    /\ outcome = NoVersion
    /\ call[p].version \in FinalVersions \cup {registered}
    /\ outcome' = call[p].version
    /\ registered' = call[p].version
    /\ UNCHANGED paid

(* A participant is paid once the outcome is the one it asked for.         *)
Pay(p) ==
    /\ call[p].kind = "Withdraw" /\ outcome = call[p].version
    /\ paid' = paid \cup {p}
    /\ UNCHANGED <<registered, outcome>>

(* What a successful answer says.                                          *)
Fulfilled(p) ==
    IF call[p].kind = "Register" /\ call[p].version \notin FinalVersions
    THEN registered >= call[p].version
    ELSE /\ outcome = call[p].version
         /\ call[p].kind = "Withdraw" => p \in paid

Answer(p) ==
    \/ UNCHANGED call
    \/ call' = [call EXCEPT ![p].answer = "failure"]
    \/ call' = [call EXCEPT ![p].answer = "success"] /\ Fulfilled(p)'

Proceed(p) ==
    /\ Pending(p)
    /\ Dispute(p) \/ Conclude(p) \/ Pay(p) \/ UNCHANGED ledger
    /\ Answer(p)

Next == \E p \in Participants : Begin(p) \/ Proceed(p)

Spec == Init /\ [][Next]_vars
=============================================================================
