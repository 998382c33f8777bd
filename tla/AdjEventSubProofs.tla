-------------------------- MODULE AdjEventSubProofs --------------------------
(* Theorems about AdjEventSub, for any parties, versions, callers and      *)
(* bounds.                                                                 *)
EXTENDS AdjEventSub, PerunCanisterProofs

(* The parser's facts about the events of the subscription.                *)
LEMMA ParsedOfSub ==
    ASSUME TypeOK, LogConsistent(can), SeenIsLogged
    PROVE  /\ parsed \in Seq(Events) /\ Len(parsed) <= 2
           /\ \A i, j \in DOMAIN parsed : parsed[i] = parsed[j] => i = j
           /\ \A i \in DOMAIN parsed : parsed[i] \in Newest(seen, parsed[i].type)
           /\ \A i \in DOMAIN parsed, k \in DOMAIN seen :
                 parsed[i].type = "Disputed" /\ seen[k].type = "Concluded"
                    => \E j \in 1..i : parsed[j] = seen[k]
<1>1. seen \in Seq(Events) /\ can \in Canisters
  BY DEF TypeOK
<1>2. \A i \in DOMAIN seen : seen[i] \in Events
  BY <1>1
<1>3. \A i \in DOMAIN seen : seen[i].type = "Concluded" => seen[i].version = can.reg
  <2>1. ASSUME NEW i \in DOMAIN seen, seen[i].type = "Concluded"
        PROVE  seen[i].version = can.reg
    <3>1. PICK k \in DOMAIN can.log : can.log[k] = Event("Concluded", seen[i].version)
      BY <2>1 DEF SeenIsLogged, Logged
    <3>2. can.log[k].type = "Concluded" /\ can.log[k].version = seen[i].version
      BY <3>1 DEF Event
    <3> QED
      BY <3>2 DEF LogConsistent
  <2> QED
    BY <2>1
<1>4. \A i, j \in DOMAIN seen :
          seen[i].type = "Concluded" /\ seen[j].type = "Concluded" => seen[i] = seen[j]
  BY <1>2, <1>3 DEF Events
<1> QED
  BY <1>1, <1>4, ParsedFacts DEF parsed

LEMMA NothingParsed == parseEventsAll(<<>>) = <<>>
<1>1. \A t : Newest(<<>>, t) = {}
  BY DEF Newest
<1> QED
  BY <1>1 DEF parseEventsAll, AsSeq

(* Before a poll has found an event, there is none anywhere.               *)
LEMMA NothingYet ==
    ASSUME IInv, run \in {"polling", "report"}
    PROVE  seen = <<>> /\ found = <<>> /\ events = <<>> /\ AllTaken = {}
<1>1. seen = <<>> /\ parsed = <<>>
  BY NothingParsed DEF IInv, RunInv, parsed
<1>2. /\ Consumed \in Nat /\ Consumed = 0 - Len(events) - Len(found)
      /\ events \in Seq(Events) /\ found \in Seq(Events)
  BY <1>1 DEF IInv, Fifo, Consumed, TypeOK
<1>3. Consumed = 0 /\ Len(events) = 0 /\ Len(found) = 0
  BY <1>2
<1>4. AllTaken = {}
  BY <1>3 DEF IInv, Fifo
<1> QED
  BY <1>1, <1>2, <1>3, <1>4

(***************************************************************************)
(* Type correctness.                                                       *)
(***************************************************************************)

LEMMA GoroutineTypes == IInv /\ Run => TypeOK'
<1> SUFFICES ASSUME IInv, Run PROVE TypeOK'
  OBVIOUS
<1>0. TypeOK /\ RunInv
  BY DEF IInv
<1>1. CASE Poll
  <2>1. /\ UNCHANGED <<can, events, eventsClosed, ctxDone, closed, pc, ev, got>>
        /\ panicErr' = panicErr /\ run' \in {"send", "report"}
        /\ faults' \in 0..MaxFaults
    BY <1>0, <1>1, SubscriptionAssumption DEF Poll, channel, callers, TypeOK
  <2>2. found' \in Seq(Events) /\ seen' \in Seq(Events)
    <3>1. CASE UNCHANGED <<found, seen>>
      BY <1>0, <3>1 DEF TypeOK
    <3>2. CASE \E log \in VisibleLogs(can) : found' = parseEventsAll(log) /\ seen' = log
      <4>1. PICK log \in VisibleLogs(can) : found' = parseEventsAll(log) /\ seen' = log
        BY <3>2
      <4>2. can \in Canisters
        BY <1>0 DEF TypeOK
      <4> QED
        BY <4>1, <4>2, VisibleIsLogged, ParsedIsLogged
    <3> QED
      BY <1>1, <3>1, <3>2 DEF Poll
  <2> QED
    BY <1>0, <2>1, <2>2 DEF TypeOK
<1>2. CASE Report
  BY <1>0, <1>2 DEF Report, TypeOK, channel, callers
<1>3. CASE Send
  <2>1. found # <<>> /\ found \in Seq(Events) /\ events \in Seq(Events)
    BY <1>0, <1>3 DEF Send, TypeOK, RunInv
  <2>2. /\ events' = Append(events, Head(found)) /\ found' = Tail(found)
        /\ Len(events) < DefaultBufferSize
    BY <1>3 DEF Send
  <2>3. /\ events' \in Seq(Events) /\ found' \in Seq(Events)
        /\ Len(events') <= DefaultBufferSize
    BY <2>1, <2>2 DEF DefaultBufferSize
  <2> QED
    BY <1>0, <1>3, <2>3 DEF Send, TypeOK, callers
<1>4. CASE RunDone
  BY <1>0, <1>4 DEF RunDone, TypeOK, callers
<1> QED
  BY <1>1, <1>2, <1>3, <1>4 DEF Run

LEMMA CallerTypes ==
    ASSUME TypeOK, NEW c \in Callers, NextCalled(c) \/ NextStep(c)
    PROVE  TypeOK'
<1>1. CASE NextCalled(c)
  BY <1>1 DEF NextCalled, TypeOK, goroutine, channel
<1>2. CASE NextReceives(c)
  <2>1. events # <<>> /\ events \in Seq(Events)
    BY <1>2 DEF NextReceives, TypeOK
  <2>2. /\ {Head(events)} \in SUBSET Events /\ Tail(events) \in Seq(Events)
        /\ Len(Tail(events)) = Len(events) - 1 /\ Len(events) \in Nat
    BY <2>1
  <2>3. events' \in Seq(Events) /\ Len(events') <= DefaultBufferSize
    BY <1>2, <2>2 DEF NextReceives, TypeOK, DefaultBufferSize
  <2> QED
    BY <1>2, <2>2, <2>3 DEF NextReceives, TypeOK, goroutine
<1>3. CASE NextReturnsEvent(c)
  BY <1>3 DEF NextReturnsEvent, TypeOK, goroutine, channel
<1>4. CASE NextReturnsNil(c)
  BY <1>4 DEF NextReturnsNil, TypeOK, goroutine, channel
<1> QED
  BY <1>1, <1>2, <1>3, <1>4 DEF NextStep

LEMMA CanMoves ==
    ASSUME TypeOK, LogConsistent(can), Party \/ Expire
    PROVE  Evolves(can, can') /\ LogConsistent(can)'
<1>1. Consistent(can)
  BY DEF TypeOK, Consistent
<1>2. \A req \in SignedRequests : req.version \in Versions
  BY DEF SignedRequests
<1>3. Evolves(can, can') /\ Consistent(can')
  BY <1>1, <1>2, OnDisputeEvolves, OnConcludeEvolves, OnExpireEvolves DEF Party, Expire
<1> QED
  BY <1>3 DEF Consistent, LogConsistent, Registered

LEMMA TypeStep == IInv /\ [Next]_vars => TypeOK'
<1> SUFFICES ASSUME IInv, [Next]_vars PROVE TypeOK'
  OBVIOUS
<1>0. TypeOK /\ LogConsistent(can)
  BY DEF IInv
<1>1. CASE Run
  BY <1>1, GoroutineTypes
<1>2. CASE Close \/ Cancel \/ UNCHANGED vars
  BY <1>0, <1>2 DEF Close, Cancel, TypeOK, vars, goroutine, channel, callers
<1>3. CASE Party \/ Expire
  <2>1. can' \in Canisters
    BY <1>0, <1>3, CanMoves DEF Evolves
  <2> QED
    BY <1>0, <1>3, <2>1 DEF Party, Expire, TypeOK, goroutine, channel, callers
<1>4. ASSUME NEW c \in Callers, NextCalled(c) \/ NextStep(c)
      PROVE  TypeOK'
  BY <1>0, <1>4, CallerTypes
<1> QED
  BY <1>1, <1>2, <1>3, <1>4 DEF Next

(***************************************************************************)
(* The log: what the poll saw stays logged.                                *)
(***************************************************************************)

LEMMA LogStep == IInv /\ [Next]_vars => LogConsistent(can)' /\ SeenIsLogged'
<1> SUFFICES ASSUME IInv, [Next]_vars
             PROVE  LogConsistent(can)' /\ SeenIsLogged'
  OBVIOUS
<1>0. /\ TypeOK /\ LogConsistent(can) /\ SeenIsLogged
      /\ can \in Canisters /\ seen \in Seq(Events)
  BY DEF IInv, TypeOK
<1>1. CASE UNCHANGED <<can, seen>>
  BY <1>0, <1>1 DEF SeenIsLogged, LogConsistent, Registered
<1>2. CASE Poll /\ ~UNCHANGED seen
  <2>1. PICK log \in VisibleLogs(can) : seen' = log /\ can' = can
    BY <1>2 DEF Poll
  <2>2. \A i \in DOMAIN log : Logged(can, log[i].type, log[i].version)
    BY <1>0, <2>1, VisibleIsLogged
  <2> QED
    BY <1>0, <2>1, <2>2 DEF SeenIsLogged, LogConsistent, Registered, Logged
<1>3. CASE Party \/ Expire
  <2>1. Evolves(can, can') /\ LogConsistent(can)'
    BY <1>0, <1>3, CanMoves
  <2>2. seen' = seen
    BY <1>3 DEF Party, Expire, goroutine
  <2>3. \A i \in DOMAIN seen : seen[i].type \in EventTypes /\ seen[i].version \in Versions
    <3>1. \A i \in DOMAIN seen : seen[i] \in Events
      BY <1>0
    <3> QED
      BY <3>1 DEF Events
  <2>4. \A i \in DOMAIN seen : Logged(can', seen[i].type, seen[i].version)
    BY <1>0, <2>1, <2>3 DEF Evolves, SeenIsLogged
  <2> QED
    BY <2>1, <2>2, <2>4 DEF SeenIsLogged, Logged
<1>4. UNCHANGED <<can, seen>> \/ (Poll /\ ~UNCHANGED seen) \/ (Party \/ Expire)
  <2>1. ASSUME NEW c \in Callers, NextCalled(c) \/ NextStep(c)
        PROVE  UNCHANGED <<can, seen>>
    BY <2>1 DEF NextCalled, NextStep, NextReceives, NextReturnsEvent, NextReturnsNil, goroutine
  <2>2. CASE Run
    BY <2>2 DEF Run, Poll, Report, Send, RunDone
  <2>3. CASE Close \/ Cancel \/ UNCHANGED vars
    BY <2>3 DEF Close, Cancel, vars, goroutine
  <2> QED
    BY <2>1, <2>2, <2>3 DEF Next
<1> QED
  BY <1>1, <1>2, <1>3, <1>4

(***************************************************************************)
(* The way of an event: found, buffered, taken.                            *)
(***************************************************************************)

LEMMA FifoKept ==
    ASSUME IInv, UNCHANGED <<seen, found, events>>, AllTaken' = AllTaken
    PROVE  Fifo'
<1>1. parsed' = parsed
  BY DEF parsed
<1>2. Consumed' = Consumed
  BY <1>1 DEF Consumed
<1> QED
  BY <1>1, <1>2 DEF IInv, Fifo

LEMMA PollFifo ==
    ASSUME IInv, Poll
    PROVE  Fifo'
<1>1. /\ UNCHANGED <<events, ev, got>>
      /\ AllTaken' = AllTaken
  BY DEF Poll, channel, callers, AllTaken, Taken
<1>2. seen = <<>> /\ found = <<>> /\ events = <<>> /\ AllTaken = {}
  BY NothingYet DEF Poll
<1>3. CASE UNCHANGED <<seen, found>>
  BY <1>1, <1>3, FifoKept
<1>4. CASE found' = parseEventsAll(seen')
  <2>1. found' = parsed' /\ parsed' \in Seq(Events)
    BY <1>4, TypeStep DEF parsed, TypeOK, Next, Run
  <2>2. Consumed' = 0 /\ events' = <<>>
    BY <1>1, <1>2, <2>1 DEF Consumed
  <2>3. AllTaken' = {parsed'[i] : i \in 1..Consumed'}
    BY <1>1, <1>2, <2>2
  <2> QED
    BY <2>1, <2>2, <2>3 DEF Fifo
<1> QED
  BY <1>3, <1>4 DEF Poll

LEMMA SendFifo ==
    ASSUME IInv, Send
    PROVE  Fifo'
<1>0. /\ events \in Seq(Events) /\ found \in Seq(Events) /\ found # <<>>
      /\ Fifo /\ TypeOK /\ LogConsistent(can) /\ SeenIsLogged
  BY DEF IInv, TypeOK, RunInv, Send
<1>1. events' = Append(events, Head(found)) /\ found' = Tail(found)
  BY DEF Send
<1>2. /\ parsed' = parsed /\ AllTaken' = AllTaken
      /\ parsed \in Seq(Events)
  BY <1>0, ParsedOfSub DEF Send, callers, parsed, AllTaken, Taken
<1>3. /\ Len(events') = Len(events) + 1 /\ Len(found') = Len(found) - 1
      /\ Len(events) \in Nat /\ Len(found) \in Nat \ {0}
      /\ DOMAIN events' = 1..(Len(events) + 1) /\ DOMAIN found' = 1..(Len(found) - 1)
      /\ \A i \in DOMAIN events : i \in DOMAIN events' /\ events'[i] = events[i]
      /\ events'[Len(events) + 1] = found[1]
      /\ \A i \in DOMAIN found' : found'[i] = found[i + 1] /\ i + 1 \in DOMAIN found
      /\ DOMAIN events = 1..Len(events) /\ 1 \in DOMAIN found
  BY <1>0, <1>1
<1>4. Consumed' = Consumed /\ Consumed \in Nat
  BY <1>0, <1>2, <1>3 DEF Consumed, Fifo
<1>5. \A i \in DOMAIN events' : events'[i] = parsed[Consumed + i]
  <2>1. events'[Len(events) + 1] = parsed[Consumed + Len(events) + 1]
    BY <1>0, <1>3 DEF Fifo
  <2>2. Consumed + Len(events) + 1 = Consumed + (Len(events) + 1)
    BY <1>3, <1>4
  <2>3. \A i \in DOMAIN events' : i \in DOMAIN events \/ i = Len(events) + 1
    BY <1>3
  <2>4. \A i \in DOMAIN events : events'[i] = parsed[Consumed + i]
    BY <1>0, <1>3 DEF Fifo
  <2> QED
    BY <2>1, <2>2, <2>3, <2>4
<1>6. \A i \in DOMAIN found' : found'[i] = parsed[Consumed + Len(events') + i]
  <2>1. ASSUME NEW i \in DOMAIN found'
        PROVE  found'[i] = parsed[Consumed + Len(events') + i]
    <3>1. found'[i] = found[i + 1] /\ i + 1 \in DOMAIN found
      BY <1>3, <2>1
    <3>2. found[i + 1] = parsed[Consumed + Len(events) + (i + 1)]
      BY <1>0, <3>1 DEF Fifo
    <3>3. Consumed + Len(events) + (i + 1) = Consumed + Len(events') + i
      BY <1>3, <1>4, <2>1
    <3> QED
      BY <3>1, <3>2, <3>3
  <2> QED
    BY <2>1
<1> QED
  BY <1>0, <1>2, <1>4, <1>5, <1>6 DEF Fifo

LEMMA ReceiveFifo ==
    ASSUME IInv, NEW c \in Callers, NextReceives(c)
    PROVE  Fifo' /\ Head(events) \notin AllTaken /\ ev[c] = {}
<1>0. /\ events \in Seq(Events) /\ found \in Seq(Events) /\ events # <<>>
      /\ Fifo /\ TypeOK /\ LogConsistent(can) /\ SeenIsLogged
      /\ ev \in [Callers -> SUBSET Events] /\ ev[c] = {}
  BY DEF IInv, TypeOK, CallerInv, NextReceives
<1>1. /\ events' = Tail(events) /\ UNCHANGED <<seen, found, got>>
      /\ ev' = [ev EXCEPT ![c] = {Head(events)}]
  BY DEF NextReceives, goroutine
<1>2. /\ parsed' = parsed /\ parsed \in Seq(Events)
      /\ \A i, j \in DOMAIN parsed : parsed[i] = parsed[j] => i = j
  BY <1>0, <1>1, ParsedOfSub DEF parsed
<1>3. /\ Len(events') = Len(events) - 1 /\ Len(events) \in Nat \ {0}
      /\ \A i \in DOMAIN events' : events'[i] = events[i + 1] /\ i + 1 \in DOMAIN events
      /\ DOMAIN events' \subseteq Nat /\ DOMAIN found \subseteq Nat /\ Len(found) \in Nat
      /\ 1 \in DOMAIN events /\ Head(events) = events[1]
  BY <1>0, <1>1
<1>4. /\ Consumed' = Consumed + 1 /\ Consumed \in Nat
      /\ Consumed + 1 <= Len(parsed)
  BY <1>0, <1>1, <1>2, <1>3 DEF Consumed, Fifo
<1>5. Head(events) = parsed[Consumed + 1]
  BY <1>0, <1>3 DEF Fifo
<1>6. AllTaken = {parsed[i] : i \in 1..Consumed}
  BY <1>0 DEF Fifo
<1>7. Head(events) \notin AllTaken
  <2>1. \A i \in 1..Consumed : i \in DOMAIN parsed /\ i # Consumed + 1
    BY <1>2, <1>4
  <2>2. Consumed + 1 \in DOMAIN parsed
    BY <1>2, <1>4
  <2> QED
    BY <1>2, <1>5, <1>6, <2>1, <2>2
<1>8. AllTaken' = {parsed[i] : i \in 1..Consumed'}
  <2>1. Taken(c)' = Taken(c) \cup {Head(events)}
    BY <1>0, <1>1 DEF Taken
  <2>2. \A d \in Callers \ {c} : Taken(d)' = Taken(d)
    BY <1>0, <1>1 DEF Taken
  <2>3. AllTaken' = AllTaken \cup {Head(events)}
    BY <2>1, <2>2 DEF AllTaken
  <2>4. 1..(Consumed + 1) = (1..Consumed) \cup {Consumed + 1}
    BY <1>4
  <2> QED
    BY <1>4, <1>5, <1>6, <2>3, <2>4
<1>9. \A i \in DOMAIN events' : events'[i] = parsed[Consumed' + i]
  <2>1. ASSUME NEW i \in DOMAIN events'
        PROVE  events'[i] = parsed[Consumed' + i]
    <3>1. events'[i] = parsed[Consumed + (i + 1)]
      BY <1>0, <1>3 DEF Fifo
    <3>2. Consumed + (i + 1) = Consumed' + i
      BY <1>3, <1>4
    <3> QED
      BY <3>1, <3>2
  <2> QED
    BY <2>1
<1>10. \A i \in DOMAIN found' : found'[i] = parsed[Consumed' + Len(events') + i]
  <2>1. Consumed' + Len(events') = Consumed + Len(events)
    BY <1>3, <1>4
  <2> QED
    BY <1>0, <1>1, <2>1 DEF Fifo
<1> QED
  BY <1>0, <1>2, <1>4, <1>7, <1>8, <1>9, <1>10 DEF Fifo

LEMMA FifoStep == IInv /\ [Next]_vars => Fifo'
<1> SUFFICES ASSUME IInv, [Next]_vars PROVE Fifo'
  OBVIOUS
<1>1. CASE UNCHANGED <<seen, found, events, ev, got>>
  <2>1. AllTaken' = AllTaken
    BY <1>1 DEF AllTaken, Taken
  <2> QED
    BY <1>1, <2>1, FifoKept
<1>2. CASE Poll \/ Send
  BY <1>2, PollFifo, SendFifo
<1>3. ASSUME NEW c \in Callers, NextReceives(c)
      PROVE  Fifo'
  BY <1>3, ReceiveFifo
<1>4. ASSUME NEW c \in Callers, NextReturnsEvent(c)
      PROVE  Fifo'
  <2>1. /\ got \in [Callers -> SUBSET Events] /\ ev \in [Callers -> SUBSET Events]
        /\ UNCHANGED <<seen, found, events>>
        /\ got' = [got EXCEPT ![c] = @ \cup ev[c]] /\ ev' = [ev EXCEPT ![c] = {}]
    BY <1>4 DEF IInv, TypeOK, NextReturnsEvent, goroutine, channel
  <2>2. \A d \in Callers : Taken(d)' = Taken(d)
    BY <2>1 DEF Taken
  <2>3. AllTaken' = AllTaken
    BY <2>2 DEF AllTaken
  <2> QED
    BY <2>1, <2>3, FifoKept
<1>5. \/ UNCHANGED <<seen, found, events, ev, got>>
      \/ Poll \/ Send
      \/ \E c \in Callers : NextReceives(c) \/ NextReturnsEvent(c)
  BY DEF Next, Run, NextStep, NextCalled, NextReturnsNil, Report, RunDone, Close, Cancel,
         Party, Expire, vars, goroutine, channel, callers
<1> QED
  BY <1>1, <1>2, <1>3, <1>4, <1>5

LEMMA RunStep == IInv /\ [Next]_vars => RunInv'
<1> SUFFICES ASSUME IInv, [Next]_vars PROVE RunInv'
  OBVIOUS
<1>0. RunInv
  BY DEF IInv
<1>1. CASE UNCHANGED <<run, found, seen>>
  BY <1>0, <1>1 DEF RunInv
<1>2. CASE Run
  BY <1>0, <1>2 DEF RunInv, Run, Poll, Report, Send, RunDone
<1>3. UNCHANGED <<run, found, seen>> \/ Run
  BY DEF Next, NextStep, NextReceives, NextReturnsEvent, NextCalled, NextReturnsNil,
         Close, Cancel, Party, Expire, vars, goroutine
<1> QED
  BY <1>1, <1>2, <1>3

(***************************************************************************)
(* The callers.                                                            *)
(***************************************************************************)

(* What CallerInv says of one caller.                                      *)
Served(c) ==
    /\ got[c] # {} => closed /\ pc[c] = "idle"
    /\ IF pc[c] = "event" THEN \E e \in Events : ev[c] = {e} ELSE ev[c] = {}

LEMMA CallerStep == IInv /\ [Next]_vars => CallerInv'
<1> SUFFICES ASSUME IInv, [Next]_vars PROVE CallerInv'
  OBVIOUS
<1>0. /\ got \in [Callers -> SUBSET Events] /\ ev \in [Callers -> SUBSET Events]
      /\ pc \in [Callers -> {"idle", "select", "event"}]
      /\ \A c \in Callers : Served(c)
      /\ \A c, d \in Callers : c # d => Taken(c) \cap Taken(d) = {}
  BY DEF IInv, TypeOK, CallerInv, Served
<1>1. SUFFICES /\ \A c \in Callers : Served(c)'
               /\ \A c, d \in Callers : c # d => Taken(c)' \cap Taken(d)' = {}
  BY DEF CallerInv, Served, Taken
<1>2. CASE UNCHANGED callers /\ (closed => closed')
  BY <1>0, <1>2 DEF callers, Served, Taken
<1>3. ASSUME NEW c \in Callers, NextCalled(c) \/ NextReturnsNil(c) \/ NextReturnsEvent(c)
      PROVE  /\ \A d \in Callers : Served(d)'
             /\ \A b, d \in Callers : b # d => Taken(b)' \cap Taken(d)' = {}
  <2>1. /\ \A d \in Callers : Taken(d)' = Taken(d)
        /\ \A d \in Callers \ {c} : pc'[d] = pc[d] /\ ev'[d] = ev[d] /\ got'[d] = got[d]
        /\ closed => closed'
    BY <1>0, <1>3 DEF NextCalled, NextReturnsNil, NextReturnsEvent, Taken
  <2>2. \A d \in Callers \ {c} : Served(d)'
    BY <1>0, <2>1 DEF Served
  <2>3. Served(c)'
    BY <1>0, <1>3 DEF NextCalled, NextReturnsNil, NextReturnsEvent, Served
  <2> QED
    BY <1>0, <2>1, <2>2, <2>3
<1>4. ASSUME NEW c \in Callers, NextReceives(c)
      PROVE  /\ \A d \in Callers : Served(d)'
             /\ \A b, d \in Callers : b # d => Taken(b)' \cap Taken(d)' = {}
  <2>1. Head(events) \notin AllTaken /\ ev[c] = {}
    BY <1>4, ReceiveFifo
  <2>2. Head(events) \in Events
    <3>1. events \in Seq(Events) /\ events # <<>>
      BY <1>4 DEF IInv, TypeOK, NextReceives
    <3> QED
      BY <3>1
  <2>3. /\ \A d \in Callers \ {c} : pc'[d] = pc[d] /\ ev'[d] = ev[d]
        /\ pc'[c] = "event" /\ ev'[c] = {Head(events)} /\ pc[c] = "select"
        /\ got' = got /\ closed' = closed
    BY <1>0, <1>4 DEF NextReceives
  <2>4. Taken(c)' = Taken(c) \cup {Head(events)}
    BY <2>1, <2>3 DEF Taken
  <2>5. \A d \in Callers \ {c} : Taken(d)' = Taken(d) /\ Head(events) \notin Taken(d)
    BY <2>1, <2>3 DEF Taken, AllTaken
  <2>6. \A d \in Callers : Served(d)'
    BY <1>0, <2>2, <2>3 DEF Served
  <2> QED
    BY <1>0, <2>4, <2>5, <2>6
<1>5. \/ UNCHANGED callers /\ (closed => closed')
      \/ \E c \in Callers :
            NextCalled(c) \/ NextReturnsNil(c) \/ NextReturnsEvent(c) \/ NextReceives(c)
  BY DEF Next, Run, NextStep, Poll, Send, Report, RunDone, Close, Cancel, Party, Expire, vars
<1> QED
  BY <1>2, <1>3, <1>4, <1>5

(***************************************************************************)
(* The invariant, and what follows from it.                                *)
(***************************************************************************)

LEMMA InitIInv == Init => IInv
<1> SUFFICES ASSUME Init PROVE IInv
  OBVIOUS
<1>1. EmptyCanister \in Canisters /\ LogConsistent(EmptyCanister)
  BY DEF EmptyCanister, Canisters, LogConsistent, Registered
<1>2. <<>> \in Seq(Events) /\ Len(<<>>) = 0
  OBVIOUS
<1>3. TypeOK
  <2>1. /\ pc \in [Callers -> {"idle", "select", "event"}]
        /\ ev \in [Callers -> SUBSET Events] /\ got \in [Callers -> SUBSET Events]
    BY DEF Init
  <2>2. faults \in 0..MaxFaults
    BY SubscriptionAssumption DEF Init
  <2>3. events \in Seq(Events) /\ Len(events) <= DefaultBufferSize
    BY <1>2 DEF Init, DefaultBufferSize
  <2> QED
    BY <1>1, <1>2, <2>1, <2>2, <2>3 DEF Init, TypeOK
<1>4. Consumed = 0 /\ parsed = <<>>
  BY <1>2, NothingParsed DEF Init, Consumed, parsed
<1>5. AllTaken = {}
  BY DEF Init, AllTaken, Taken
<1>6. Fifo
  BY <1>2, <1>4, <1>5 DEF Init, Fifo
<1> QED
  BY <1>1, <1>3, <1>6 DEF IInv, Init, RunInv, CallerInv, Taken, SeenIsLogged

LEMMA NextIInv == IInv /\ [Next]_vars => IInv'
BY TypeStep, LogStep, FifoStep, RunStep, CallerStep DEF IInv

(* What run, its channels and the callers know of each other is inductive  *)
(* (subscribe.go).                                                         *)
THEOREM Inductive == Spec => []IInv
BY InitIInv, NextIInv, PTL DEF Spec

(* Type correctness (subscribe.go).                                        *)
THEOREM TypeCorrect == Spec => []TypeOK
<1>1. IInv => TypeOK
  BY DEF IInv
<1> QED
  BY <1>1, Inductive, PTL

(* run returns before it could receive from the channel it sends to        *)
(* (subscribe.go, run).                                                    *)
THEOREM OwnEventsStay == Spec => []OwnEventsNotTaken
<1>1. IInv => OwnEventsNotTaken
  BY NothingYet DEF OwnEventsNotTaken
<1> QED
  BY <1>1, Inductive, PTL

(* Two events fit into the buffer, so a send never waits (subscribe.go,    *)
(* DefaultBufferSize).                                                     *)
THEOREM SendsFit == Spec => []SendNeverBlocks
<1>1. ASSUME IInv PROVE SendNeverBlocks
  <2>1. Consumed \in Nat /\ Len(parsed) <= 2 /\ parsed \in Seq(Events)
    BY <1>1, ParsedOfSub DEF IInv, Fifo
  <2>2. /\ events \in Seq(Events) /\ found \in Seq(Events)
        /\ Len(events) \in Nat /\ Len(found) \in Nat
    BY <1>1 DEF IInv, TypeOK
  <2>3. Len(events) <= 2
    BY <2>1, <2>2 DEF Consumed
  <2> QED
    BY <2>2, <2>3 DEF SendNeverBlocks, DefaultBufferSize
<1> QED
  BY <1>1, Inductive, PTL

LEMMA NewestHold ==
    ASSUME IInv
    PROVE  NewestAndConclusionFirst
<1>0. /\ Consumed \in Nat /\ AllTaken = {parsed[i] : i \in 1..Consumed}
      /\ parsed \in Seq(Events) /\ events \in Seq(Events) /\ found \in Seq(Events)
  BY ParsedOfSub DEF IInv, Fifo, TypeOK
<1>1. \A i \in 1..Consumed : i \in DOMAIN parsed /\ 1..i \subseteq 1..Consumed
  <2>1. Len(events) \in Nat /\ Len(found) \in Nat /\ Len(parsed) \in Nat
    BY <1>0
  <2>2. Consumed <= Len(parsed)
    BY <1>0, <2>1 DEF Consumed
  <2> QED
    BY <1>0, <2>1, <2>2
<1>2. ASSUME NEW e \in AllTaken
      PROVE  e \in Newest(seen, e.type)
  <2>1. PICK i \in 1..Consumed : e = parsed[i]
    BY <1>0
  <2> QED
    BY <1>1, <2>1, ParsedOfSub DEF IInv
<1>3. ASSUME NEW e \in AllTaken, e.type = "Disputed",
             NEW k \in DOMAIN seen, seen[k].type = "Concluded"
      PROVE  seen[k] \in AllTaken
  <2>1. PICK i \in 1..Consumed : e = parsed[i]
    BY <1>0
  <2>2. PICK j \in 1..i : parsed[j] = seen[k]
    BY <1>1, <1>3, <2>1, ParsedOfSub DEF IInv
  <2> QED
    BY <1>0, <1>1, <2>2
<1> QED
  BY <1>2, <1>3 DEF NewestAndConclusionFirst, Newest

(* The order of parseEventsAll is the order of the callers: a dispute does *)
(* not hide a conclusion (adjudicator_eventsub.go, parseEventsAll).        *)
THEOREM NewestAreDelivered == Spec => []NewestAndConclusionFirst
BY NewestHold, Inductive, PTL

(***************************************************************************)
(* AdjEventSub implements AdjudicatorSubscription.                         *)
(***************************************************************************)

waiting == {c \in Callers : pc[c] # "idle"}

LEMMA PartyRefines == IInv /\ (Party \/ Expire) => [Promise!Next]_Promise!vars
<1> SUFFICES ASSUME IInv, Party \/ Expire PROVE [Promise!Next]_Promise!vars
  OBVIOUS
<1>1. UNCHANGED <<pc, got, closed>>
  BY DEF Party, Expire, callers
<1>2. UNCHANGED waiting
  BY <1>1 DEF waiting
<1>3. CASE UNCHANGED can.log
  BY <1>1, <1>2, <1>3 DEF Promise!vars, waiting
<1>4. CASE \E e \in Events : can'.log = Append(can.log, e)
  BY <1>1, <1>2, <1>4 DEF Promise!Next, Promise!Record, waiting
<1>5. can \in Canisters
  BY DEF IInv, TypeOK
<1>6. CASE Expire
  BY <1>3, <1>5, <1>6 DEF Expire, OnExpire, Canisters
<1>7. CASE Party
  <2>1. PICK req \in SignedRequests :
            \/ CanDispute(can, req) /\ can' = OnDispute(can, req)
            \/ CanConclude(can, req) /\ can' = OnConclude(can, req)
    BY <1>7 DEF Party
  <2>2. /\ Event("Disputed", req.version) \in Events
        /\ Event("Concluded", req.version) \in Events
    BY <2>1 DEF SignedRequests, Event, Events, EventTypes
  <2>3. \/ can'.log = Append(can.log, Event("Disputed", req.version))
        \/ can'.log = Append(can.log, Event("Concluded", req.version))
    BY <1>5, <2>1 DEF OnDispute, OnConclude, Canisters
  <2> QED
    BY <1>4, <2>2, <2>3
<1> QED
  BY <1>6, <1>7

LEMMA CallerRefines ==
    ASSUME IInv, NEW c \in Callers, NextCalled(c) \/ NextStep(c)
    PROVE  [Promise!Next]_Promise!vars
<1>0. /\ pc \in [Callers -> {"idle", "select", "event"}]
      /\ got \in [Callers -> SUBSET Events] /\ ev \in [Callers -> SUBSET Events]
      /\ can \in Canisters
  BY DEF IInv, TypeOK
<1>1. CASE NextCalled(c)
  <2>1. waiting' = waiting \cup {c} /\ ~closed /\ UNCHANGED <<can, got, closed>>
    BY <1>0, <1>1 DEF NextCalled, waiting
  <2> QED
    BY <2>1 DEF Promise!Next, Promise!Call, waiting
<1>2. CASE NextReceives(c)
  <2>1. waiting' = waiting /\ UNCHANGED <<can, got, closed>>
    BY <1>0, <1>2 DEF NextReceives, waiting
  <2> QED
    BY <2>1 DEF Promise!vars, waiting
<1>3. CASE NextReturnsNil(c)
  <2>1. c \in waiting /\ waiting' = waiting \ {c} /\ UNCHANGED <<can, got, closed>>
    BY <1>0, <1>3 DEF NextReturnsNil, waiting
  <2> QED
    BY <2>1 DEF Promise!Next, Promise!ReturnNil, waiting
<1>4. CASE NextReturnsEvent(c)
  <2>1. /\ c \in waiting /\ waiting' = waiting \ {c}
        /\ closed' = TRUE /\ can' = can
        /\ pc[c] = "event" /\ got' = [got EXCEPT ![c] = @ \cup ev[c]]
    BY <1>0, <1>4 DEF NextReturnsEvent, waiting
  <2>2. PICK e \in Events : ev[c] = {e}
    BY <2>1 DEF IInv, CallerInv
  <2>3. got[c] = {} /\ got' = [got EXCEPT ![c] = {e}]
    BY <1>0, <2>1, <2>2 DEF IInv, CallerInv
  <2>4. \A d \in Callers : e \notin got[d]
    BY <2>2, <2>3 DEF IInv, CallerInv, Taken
  <2>5. \E i \in DOMAIN can.log : can.log[i] = e
    <3>1. e \in AllTaken
      BY <2>2 DEF AllTaken, Taken
    <3>2. NewestAndConclusionFirst
      BY NewestHold
    <3>3. PICK k \in DOMAIN seen : seen[k] = e
      BY <3>1, <3>2 DEF NewestAndConclusionFirst
    <3>4. Logged(can, e.type, e.version)
      BY <3>3 DEF IInv, SeenIsLogged
    <3>5. Event(e.type, e.version) = e
      BY <2>2 DEF Event, Events
    <3> QED
      BY <3>4, <3>5 DEF Logged
  <2>6. PICK i \in DOMAIN can.log : can.log[i] = e
    BY <2>5
  <2>7. \E k \in DOMAIN can.log : /\ \A d \in Callers : can.log[k] \notin got[d]
                                  /\ got' = [got EXCEPT ![c] = {can.log[k]}]
    BY <2>3, <2>4, <2>6
  <2>8. Promise!ReturnEvent(c)
    BY <2>1, <2>3, <2>7 DEF Promise!ReturnEvent, waiting
  <2> QED
    BY <2>8 DEF Promise!Next
<1> QED
  BY <1>1, <1>2, <1>3, <1>4 DEF NextStep

LEMMA NextRefines == IInv /\ [Next]_vars => [Promise!Next]_Promise!vars
<1> SUFFICES ASSUME IInv, [Next]_vars PROVE [Promise!Next]_Promise!vars
  OBVIOUS
<1>1. CASE UNCHANGED <<can, pc, got, closed>>
  BY <1>1 DEF Promise!vars
<1>2. CASE Close
  BY <1>2 DEF Close, callers, Promise!Next, Promise!Close
<1>3. CASE Party \/ Expire
  BY <1>3, PartyRefines
<1>4. ASSUME NEW c \in Callers, NextCalled(c) \/ NextStep(c)
      PROVE  [Promise!Next]_Promise!vars
  BY <1>4, CallerRefines
<1>5. CASE Run \/ Cancel \/ UNCHANGED vars
  BY <1>1, <1>5 DEF Run, Poll, Report, Send, RunDone, Cancel, vars, callers
<1> QED
  BY <1>2, <1>3, <1>4, <1>5 DEF Next

(* Polling, buffering and closing stay within what AdjudicatorSubscription *)
(* promises the callers of Next (subscribe.go).                            *)
THEOREM Refinement == Spec => ImplementsSubscription
<1>1. Init => Promise!Init
  BY DEF Init, Promise!Init, EmptyCanister
<1> QED
  BY <1>1, NextRefines, Inductive, PTL DEF Spec, ImplementsSubscription, Promise!Spec

(***************************************************************************)
(* No event is lost.                                                       *)
(***************************************************************************)

Buffered == {events[i] : i \in DOMAIN events}
Unsent == {found[i] : i \in DOMAIN found}

(* Every event that the poll selected is with a caller, in the channel, or *)
(* still to be sent, and with one of them only.                            *)
EventsAccounted ==
    /\ {parsed[i] : i \in DOMAIN parsed} = AllTaken \cup Buffered \cup Unsent
    /\ AllTaken \cap (Buffered \cup Unsent) = {} /\ Buffered \cap Unsent = {}
    /\ run = "returned" => Unsent = {}

LEMMA Accounting ==
    ASSUME IInv
    PROVE  EventsAccounted
<1> DEFINE n == Consumed
           a == Len(events)
           b == Len(found)
           P == parsed
<1>1. /\ P \in Seq(Events) /\ events \in Seq(Events) /\ found \in Seq(Events)
      /\ \A i, j \in DOMAIN P : P[i] = P[j] => i = j
      /\ run = "send" <=> found # <<>>
  BY ParsedOfSub DEF IInv, TypeOK, RunInv
<1>2. /\ n \in Nat /\ a \in Nat /\ b \in Nat /\ Len(P) \in Nat /\ Len(P) = n + a + b
      /\ DOMAIN events = 1..a /\ DOMAIN found = 1..b /\ DOMAIN P = 1..Len(P)
  <2>1. n \in Nat /\ n = Len(P) - a - b
    BY DEF IInv, Fifo, Consumed
  <2>2. /\ a \in Nat /\ b \in Nat /\ Len(P) \in Nat
        /\ DOMAIN events = 1..a /\ DOMAIN found = 1..b /\ DOMAIN P = 1..Len(P)
    BY <1>1
  <2> HIDE DEF n, a, b, P
  <2> QED
    BY <2>1, <2>2
<1>3. /\ \A i \in 1..a : events[i] = P[n + i]
      /\ \A i \in 1..b : found[i] = P[n + a + i]
      /\ AllTaken = {P[i] : i \in 1..n}
  BY <1>2 DEF IInv, Fifo
<1>4. Buffered = {P[i] : i \in n + 1 .. n + a}
  <2>1. ASSUME NEW i \in 1..a
        PROVE  n + i \in n + 1 .. n + a /\ events[i] = P[n + i]
    BY <1>2, <1>3
  <2>2. ASSUME NEW j \in n + 1 .. n + a
        PROVE  j - n \in 1..a /\ events[j - n] = P[j]
    <3>1. j - n \in 1..a /\ n + (j - n) = j
      <4> HIDE DEF n, a, b, P
      <4> QED
        BY <1>2
    <3>2. events[j - n] = P[n + (j - n)]
      BY <1>3, <3>1
    <3> QED
      BY <3>1, <3>2
  <2>3. Buffered = {events[i] : i \in 1..a}
    BY <1>2 DEF Buffered
  <2> HIDE DEF n, a, b, P
  <2>4. \A e \in Buffered : \E j \in n + 1 .. n + a : e = P[j]
    BY <2>1, <2>3
  <2>5. \A j \in n + 1 .. n + a : P[j] \in Buffered
    BY <2>2, <2>3
  <2> QED
    BY <2>4, <2>5
<1>5. Unsent = {P[i] : i \in n + a + 1 .. n + a + b}
  <2>1. ASSUME NEW i \in 1..b
        PROVE  n + a + i \in n + a + 1 .. n + a + b /\ found[i] = P[n + a + i]
    BY <1>2, <1>3
  <2>2. ASSUME NEW j \in n + a + 1 .. n + a + b
        PROVE  j - (n + a) \in 1..b /\ found[j - (n + a)] = P[j]
    <3>1. j - (n + a) \in 1..b /\ n + a + (j - (n + a)) = j
      <4> HIDE DEF n, a, b, P
      <4> QED
        BY <1>2
    <3>2. found[j - (n + a)] = P[n + a + (j - (n + a))]
      BY <1>3, <3>1
    <3> QED
      BY <3>1, <3>2
  <2>3. Unsent = {found[i] : i \in 1..b}
    BY <1>2 DEF Unsent
  <2> HIDE DEF n, a, b, P
  <2>4. \A e \in Unsent : \E j \in n + a + 1 .. n + a + b : e = P[j]
    BY <2>1, <2>3
  <2>5. \A j \in n + a + 1 .. n + a + b : P[j] \in Unsent
    BY <2>2, <2>3
  <2> QED
    BY <2>4, <2>5
<1>6. Unsent = {} \/ run # "returned"
  <2>1. run = "returned" => found = <<>>
    BY <1>1
  <2> QED
    BY <2>1 DEF Unsent
<1>7. {P[i] : i \in DOMAIN P} = AllTaken \cup Buffered \cup Unsent
  <2>1. DOMAIN P = 1..n \cup n + 1 .. n + a \cup n + a + 1 .. n + a + b
    <3> HIDE DEF n, a, b, P
    <3> QED
      BY <1>2
  <2> HIDE DEF n, a, b, P
  <2> QED
    BY <1>3, <1>4, <1>5, <2>1
<1>8. \A I, J \in SUBSET DOMAIN P : I \cap J = {}
          => {P[i] : i \in I} \cap {P[j] : j \in J} = {}
  <2> HIDE DEF P
  <2> QED
    BY <1>1
<1>9. /\ AllTaken \cap Buffered = {} /\ AllTaken \cap Unsent = {}
      /\ Buffered \cap Unsent = {}
  <2> DEFINE I == 1..n
             J == n + 1 .. n + a
             K == n + a + 1 .. n + a + b
  <2>1. /\ I \in SUBSET DOMAIN P /\ J \in SUBSET DOMAIN P /\ K \in SUBSET DOMAIN P
        /\ I \cap J = {} /\ I \cap K = {} /\ J \cap K = {}
    <3> HIDE DEF n, a, b, P
    <3> QED
      BY <1>2
  <2>2. AllTaken = {P[i] : i \in I} /\ Buffered = {P[i] : i \in J} /\ Unsent = {P[i] : i \in K}
    BY <1>3, <1>4, <1>5
  <2> HIDE DEF I, J, K, P
  <2> QED
    BY <1>8, <2>1, <2>2
<1> QED
  BY <1>6, <1>7, <1>9 DEF EventsAccounted

(* No event that the poll selected is lost between the goroutine and the   *)
(* callers or delivered twice, whoever calls Next, closes, or gives up in  *)
(* between, and the goroutine does not return before it has sent them all  *)
(* (subscribe.go, run and Next).                                           *)
THEOREM NoEventIsLost == Spec => []EventsAccounted
BY Accounting, Inductive, PTL
=============================================================================
