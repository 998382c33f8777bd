-------------------------- MODULE AdjudicatorEvents --------------------------
(***************************************************************************)
(* What the Go backend gets to see of a channel's events: the answers of   *)
(* query_events (connector/icperun/icperun.go) and what the parser makes   *)
(* of one (connector/adjudicator_eventsub.go, connector/utils.go).         *)
(***************************************************************************)
EXTENDS PerunCanister

CONSTANT MaxLag   \* bound: events that a replica answering query_events misses

(* QueryEvents is a query in the sense of the Internet Computer: a single  *)
(* replica answers it, which may not have executed the latest messages     *)
(* yet, so it shows a prefix of the event log.  QueryState is no query     *)
(* but a replicated call (Agent.QueryState): its answer is up to date.     *)
VisibleLogs(c) ==
    {SubSeq(c.log, 1, k) : k \in {j \in 0..Len(c.log) : Len(c.log) - j <= MaxLag}}

(* parseAdjEvents keeps, of the events of one type, the one with the       *)
(* highest version.                                                        *)
Newest(log, t) ==
    {log[i] : i \in {j \in DOMAIN log :
        /\ log[j].type = t
        /\ \A k \in DOMAIN log : log[k].type = t => log[k].version <= log[j].version}}

AsSeq(S) == IF S = {} THEN <<>> ELSE <<CHOOSE e \in S : TRUE>>

(* Mutant: disputes first.                                                 *)
parseEventsAll_DisputesFirst(log) ==
    AsSeq(Newest(log, "Disputed")) \o AsSeq(Newest(log, "Concluded"))

(* parseEventsAll: conclusions first.                                      *)
parseEventsAll(log) == AsSeq(Newest(log, "Concluded")) \o AsSeq(Newest(log, "Disputed"))
=============================================================================
