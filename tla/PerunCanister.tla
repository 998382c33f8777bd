---------------------------- MODULE PerunCanister ----------------------------
(***************************************************************************)
(* The Perun canister as the Go backend uses it, for ONE payment channel.  *)
(* The canister's source is not part of the repository (userdata/ holds a  *)
(* binary and its Candid interface), so these operators are external: they *)
(* say what the callers in channel/adjudicator.go rely on.                 *)
(*                                                                         *)
(* The canister is a value, not a variable: a handler maps the canister    *)
(* before an update call to the canister after it.  An update call is      *)
(* atomic, because a canister executes one message at a time.              *)
(***************************************************************************)
EXTENDS Integers, Sequences, FiniteSets

CONSTANTS
    Participants,   \* the parties of the channel
    MaxVersion,     \* bound: the highest version the parties have signed
    FinalVersions   \* the versions whose signed state has IsFinal set

Versions == 0..MaxVersion

(* A final state is the last one the parties sign.                         *)
ASSUME ChannelAssumption ==
    /\ MaxVersion \in Nat
    /\ FinalVersions \subseteq Versions
    /\ \A f \in FinalVersions, v \in Versions : v <= f

NoVersion == -1

EventTypes == {"Disputed", "Concluded"}
Events == [type : EventTypes, version : Versions]

(* reg        version of the registered state, or NoVersion                *)
(* expired    the challenge duration of reg has elapsed                    *)
(* concluded  the outcome is fixed by a conclude call                      *)
(* log        the adjudicator events of the channel, oldest first          *)
(* paid       the participants whose withdrawal was paid out               *)
Canisters == [reg       : Versions \cup {NoVersion},
              expired   : BOOLEAN,
              concluded : BOOLEAN,
              log       : Seq(Events),
              paid      : SUBSET Participants]

EmptyCanister == [reg |-> NoVersion, expired |-> FALSE, concluded |-> FALSE,
                  log |-> <<>>, paid |-> {}]

Event(t, v) == [type |-> t, version |-> v]
Logged(c, t, v) == \E i \in DOMAIN c.log : c.log[i] = Event(t, v)

(* No state can be registered any more.                                    *)
Settled(c) == c.concluded \/ c.expired

-----------------------------------------------------------------------------
(* dispute: registers a signed state newer than the registered one.        *)
CanDispute(c, req) ==
    /\ req.signed
    /\ ~Settled(c)
    /\ c.reg < req.version

OnDispute(c, req) ==
    IF CanDispute(c, req)
    THEN [c EXCEPT !.reg = req.version,
                   !.log = Append(@, Event("Disputed", req.version))]
    ELSE c

(* conclude: a signed final state at once, the registered state once its   *)
(* challenge duration is over.                                             *)
CanConclude(c, req) ==
    /\ req.signed
    /\ \/ req.version \in FinalVersions /\ ~Settled(c)
       \/ c.expired /\ ~c.concluded /\ req.version = c.reg

OnConclude(c, req) ==
    IF CanConclude(c, req)
    THEN [c EXCEPT !.reg = req.version,
                   !.concluded = TRUE,
                   !.log = Append(@, Event("Concluded", req.version))]
    ELSE c

(* withdraw: pays a participant of a settled channel, once.                *)
CanWithdraw(c, p) == Settled(c) /\ p \notin c.paid

OnWithdraw(c, p) ==
    IF CanWithdraw(c, p) THEN [c EXCEPT !.paid = @ \cup {p}] ELSE c

(* The challenge duration of the registered state elapses.                 *)
CanExpire(c) == c.reg # NoVersion /\ ~Settled(c)
OnExpire(c) == [c EXCEPT !.expired = TRUE]
-----------------------------------------------------------------------------
Registered(log) == IF log = <<>> THEN NoVersion ELSE log[Len(log)].version

(* The log of a canister determines what it has registered, no version of  *)
(* the log is newer, and only the concluded version was concluded.         *)
LogConsistent(c) ==
    /\ c.reg = Registered(c.log)
    /\ \A i \in DOMAIN c.log :
          c.log[i].type = "Concluded" => c.concluded /\ c.log[i].version = c.reg
    /\ \A i \in DOMAIN c.log : c.log[i].version <= c.reg
    /\ c.concluded => c.reg # NoVersion
=============================================================================
