---------------------------- MODULE EventParsing ----------------------------
(***************************************************************************)
(* The parser of connector/adjudicator_eventsub.go and utils.go on the     *)
(* text that query_events answers with, for one channel whose states have  *)
(* two balances of a constant sum.                                         *)
(*                                                                         *)
(* Of an event's text this keeps what the patterns tell apart: its type,   *)
(* its version, and its balances as the canister prints them, in groups of *)
(* digits with "_" between them.  A group stands for three digits.  Every  *)
(* other field always matches its pattern.                                 *)
(***************************************************************************)
EXTENDS AdjudicatorEvents

CONSTANTS
    GroupBase,  \* 10^3: a group of digits is in 0 .. GroupBase - 1
    Total,      \* what the parties have in the channel
    Splits      \* what the first of them may have of it

ASSUME ParsingAssumption ==
    GroupBase \in Nat \ {0, 1} /\ Total \in Nat /\ Splits \subseteq 0..Total

Allocations == {<<b, Total - b>> : b \in Splits}

VARIABLES
    ch,     \* the canister's state of the channel
    alloc   \* alloc[v]: the balances of the parties' state of version v

-----------------------------------------------------------------------------
(* The canister prints an event.                                           *)

(* The first of three groups stands for all that lead: no pattern tells    *)
(* three groups from more.                                                 *)
Groups(n) ==
    IF n < GroupBase THEN <<n>>
    ELSE IF n < GroupBase * GroupBase THEN <<n \div GroupBase, n % GroupBase>>
    ELSE <<n \div (GroupBase * GroupBase), (n \div GroupBase) % GroupBase, n % GroupBase>>

Text(log) ==
    [i \in DOMAIN log |->
        [type     |-> log[i].type,
         version  |-> log[i].version,
         balances |-> [p \in 1..2 |-> Groups(alloc[log[i].version][p])]]]
-----------------------------------------------------------------------------
(* FindAllStringSubmatch lists the matches of a pattern in the order of    *)
(* the text.  Here the list is the set of the events that match: it has    *)
(* an event at the number of those up to it.                               *)
IndexOf(matches, i) == Cardinality({j \in matches : j <= i})
At(matches, idx) == CHOOSE i \in matches : IndexOf(matches, i) = idx

(* Mutant: two groups or more.                                             *)
AllocPattern_AnyGroups(e) == \A p \in 1..2 : Len(e.balances[p]) >= 2

(* AllocStart(\d+_\d+), (\d+_\d+)AllocEnd                                  *)
AllocPattern(e) == \A p \in 1..2 : Len(e.balances[p]) = 2

(* The separator is removed and the digits read as one number.             *)
parseAllocations(balances) ==
    [p \in 1..2 |-> balances[p][1] * GroupBase + balances[p][2]]

(* The first index of the highest version above 0; 0 (-1 in Go) if none is *)
(* above 0.                                                                *)
findMaxVersionIndex(text, es) ==
    IF \A i \in es : text[i].version = 0 THEN 0
    ELSE IndexOf(es, CHOOSE i \in es :
             /\ \A j \in es : text[j].version <= text[i].version
             /\ \A j \in es : j < i => text[j].version < text[i].version)

Nothing == [panics |-> FALSE, events |-> <<>>]
Panic == [panics |-> TRUE, events |-> <<>>]
Parsed(e) == [panics |-> FALSE, events |-> <<e>>]

(* Mutant: the balances of the first event.                                *)
parseAdjEvents_FirstAlloc(text, t) ==
    LET es     == {i \in DOMAIN text : text[i].type = t}
        allocs == {i \in es : AllocPattern(text[i])}
        idx    == IF Cardinality(es) = 1 THEN 1 ELSE findMaxVersionIndex(text, es)
    IN  IF es = {} \/ allocs = {} THEN Nothing
        ELSE IF idx \notin 1..Cardinality(allocs) THEN Panic
        ELSE Parsed([type    |-> t,
                     version |-> text[At(es, idx)].version,
                     alloc   |-> parseAllocations(text[At(allocs, 1)].balances)])

(* parseAdjEvents, with parseEventsConcluded or parseEventsDisputed around *)
(* it.  The matches of the patterns are lists of their own: the index of   *)
(* the event in one is used in all, and is out of range if events whose    *)
(* balances do not match have made the list of allocations too short.      *)
parseAdjEvents(text, t) ==
    LET es     == {i \in DOMAIN text : text[i].type = t}
        allocs == {i \in es : AllocPattern(text[i])}
        idx    == IF Cardinality(es) = 1 THEN 1 ELSE findMaxVersionIndex(text, es)
    IN  IF es = {} \/ allocs = {} THEN Nothing
        ELSE IF idx \notin 1..Cardinality(allocs) THEN Panic
        ELSE Parsed([type    |-> t,
                     version |-> text[At(es, idx)].version,
                     alloc   |-> parseAllocations(text[At(allocs, idx)].balances)])

parseEvents(text) ==
    LET conc == parseAdjEvents(text, "Concluded")
        disp == parseAdjEvents(text, "Disputed")
    IN  IF conc.panics \/ disp.panics THEN Panic
        ELSE [panics |-> FALSE, events |-> conc.events \o disp.events]
-----------------------------------------------------------------------------
(* The logs that a channel's canister can have.                            *)

EvInit ==
    /\ ch = EmptyCanister
    /\ alloc \in [Versions -> Allocations]

Request(v) == [version |-> v, signed |-> TRUE]

Dispute(v) ==
    /\ CanDispute(ch, Request(v))
    /\ ch' = OnDispute(ch, Request(v))
    /\ UNCHANGED alloc

Conclude(v) ==
    /\ CanConclude(ch, Request(v))
    /\ ch' = OnConclude(ch, Request(v))
    /\ UNCHANGED alloc

Expire == CanExpire(ch) /\ ch' = OnExpire(ch) /\ UNCHANGED alloc

EvNext ==
    \/ \E v \in Versions : Dispute(v) \/ Conclude(v)
    \/ Expire
-----------------------------------------------------------------------------
(* A balance of two groups: from 1_000 to 999_999.                         *)
Readable(e) == \A p \in 1..2 : alloc[e.version][p] \in GroupBase .. GroupBase * GroupBase - 1

OfType(log, t) == {i \in DOMAIN log : log[i].type = t}
ReadableOf(log, t) == {i \in OfType(log, t) : Readable(log[i])}

WithAlloc(e) == [type |-> e.type, version |-> e.version, alloc |-> alloc[e.version]]

(* When all balances of a log have two groups, the parser gives what       *)
(* AdjudicatorEvents says, the newest event of each type, the conclusion   *)
(* first, each with the balances of its own version and of no other        *)
(* (adjudicator_eventsub.go, parseEventsAll; utils.go, parseAdjEvents).    *)
ReadableLogsAreRead ==
    \A log \in VisibleLogs(ch) :
        (\A i \in DOMAIN log : Readable(log[i])) =>
            LET es == parseEventsAll(log) IN
            parseEvents(Text(log)) =
                [panics |-> FALSE, events |-> [i \in DOMAIN es |-> WithAlloc(es[i])]]

(* What becomes of other balances: the events of a type are not seen when  *)
(* none of them has two groups in both its balances, and the parser panics *)
(* on an index out of range when some of them do and some do not           *)
(* (utils.go:35-63, adjudicator_eventsub.go:46 and 67).                    *)
OtherBalancesHideEvents ==
    \A log \in VisibleLogs(ch), t \in EventTypes :
        LET out == parseAdjEvents(Text(log), t) IN
        /\ ReadableOf(log, t) = {} => out = Nothing
        /\ out.panics <=> ReadableOf(log, t) \notin {{}, OfType(log, t)}
=============================================================================
