------------------------- MODULE PerunCanisterProofs -------------------------
(* Lemmas about the canister, its event log and the event parser, for any  *)
(* participants and versions, and answers however stale.                   *)
EXTENDS AdjudicatorEvents, TLAPS

(* What no message to the canister undoes.                                 *)
Evolves(c, d) ==
    /\ d \in Canisters
    /\ c.concluded => d.concluded /\ d.reg = c.reg
    /\ c.paid \subseteq d.paid
    /\ \A t \in EventTypes, v \in Versions : Logged(c, t, v) => Logged(d, t, v)

Consistent(c) == c \in Canisters /\ LogConsistent(c)

LEMMA AppendLogged ==
    ASSUME NEW c \in Canisters, NEW d, NEW e \in Events,
           d.log = Append(c.log, e)
    PROVE  /\ Logged(d, e.type, e.version)
           /\ \A t \in EventTypes, v \in Versions : Logged(c, t, v) => Logged(d, t, v)
<1>1. c.log \in Seq(Events)
  BY DEF Canisters
<1>2. /\ Len(c.log) + 1 \in DOMAIN d.log /\ d.log[Len(c.log) + 1] = e
      /\ \A i \in DOMAIN c.log : i \in DOMAIN d.log /\ d.log[i] = c.log[i]
  BY <1>1
<1>3. Event(e.type, e.version) = e
  BY DEF Event, Events
<1> QED
  BY <1>2, <1>3 DEF Logged

LEMMA EvolvesReflexive ==
    ASSUME NEW c \in Canisters
    PROVE  Evolves(c, c)
BY DEF Evolves

(* dispute registers and logs the version; nothing else changes the log    *)
(* under a concluded channel.                                              *)
LEMMA OnDisputeEvolves ==
    ASSUME NEW c, Consistent(c), NEW r, r.version \in Versions
    PROVE  /\ Evolves(c, OnDispute(c, r)) /\ Consistent(OnDispute(c, r))
           /\ CanDispute(c, r) => Logged(OnDispute(c, r), "Disputed", r.version)
<1> DEFINE d == OnDispute(c, r)
           e == Event("Disputed", r.version)
<1>1. CASE ~CanDispute(c, r)
  BY <1>1, EvolvesReflexive DEF OnDispute, Consistent
<1>2. CASE CanDispute(c, r)
  <2>1. c \in Canisters /\ LogConsistent(c)
    BY DEF Consistent
  <2>2. e \in Events /\ e.type = "Disputed" /\ e.version = r.version /\ r.version \in Versions
    BY DEF Events, Event, EventTypes
  <2>3. /\ d.reg = r.version /\ d.log = Append(c.log, e)
        /\ d.concluded = c.concluded /\ d.paid = c.paid /\ ~c.concluded
    BY <1>2, <2>1 DEF OnDispute, CanDispute, Settled, Canisters
  <2>4. d \in Canisters
    <3>1. Append(c.log, e) \in Seq(Events)
      BY <2>1, <2>2 DEF Canisters
    <3>2. d = [c EXCEPT !.reg = r.version, !.log = Append(c.log, e)]
      BY <1>2 DEF OnDispute
    <3> QED
      BY <2>1, <2>2, <3>1, <3>2 DEF Canisters
  <2>5. Logged(d, "Disputed", r.version)
    BY <2>1, <2>2, <2>3, AppendLogged
  <2>6. Evolves(c, d)
    BY <2>1, <2>2, <2>3, <2>4, AppendLogged DEF Evolves
  <2>7. LogConsistent(d)
    <3>1. c.log \in Seq(Events)
      BY <2>1 DEF Canisters
    <3>2. d.reg = Registered(d.log)
      BY <2>2, <2>3, <3>1 DEF Registered
    <3>3. \A i \in DOMAIN c.log : c.log[i].type # "Concluded"
      BY <2>1, <2>3 DEF LogConsistent
    <3>4. \A i \in DOMAIN d.log : d.log[i].type # "Concluded"
      BY <2>2, <2>3, <3>1, <3>3
    <3>5. c.reg <= r.version /\ c.reg \in Int /\ r.version \in Int
      BY <1>2, <2>1, <2>2, ChannelAssumption DEF CanDispute, Canisters, Versions, NoVersion
    <3>6. \A i \in DOMAIN c.log : c.log[i].version <= c.reg /\ c.log[i].version \in Int
      <4>1. \A i \in DOMAIN c.log : c.log[i] \in Events
        BY <3>1
      <4> QED
        BY <2>1, <4>1 DEF LogConsistent, Events, Versions
    <3>7. \A i \in DOMAIN d.log : (i \in DOMAIN c.log /\ d.log[i] = c.log[i]) \/ d.log[i] = e
      BY <2>3, <3>1
    <3>8. \A i \in DOMAIN d.log : d.log[i].version <= d.reg
      BY <2>2, <2>3, <3>5, <3>6, <3>7
    <3> QED
      BY <2>3, <3>2, <3>4, <3>8 DEF LogConsistent
  <2> QED
    BY <2>4, <2>5, <2>6, <2>7 DEF Consistent
<1> QED
  BY <1>1, <1>2

(* conclude fixes its version as the outcome, and only once.               *)
LEMMA OnConcludeEvolves ==
    ASSUME NEW c, Consistent(c), NEW r, r.version \in Versions
    PROVE  /\ Evolves(c, OnConclude(c, r)) /\ Consistent(OnConclude(c, r))
           /\ CanConclude(c, r) => /\ OnConclude(c, r).concluded
                                   /\ OnConclude(c, r).reg = r.version
<1> DEFINE d == OnConclude(c, r)
           e == Event("Concluded", r.version)
<1>1. CASE ~CanConclude(c, r)
  BY <1>1, EvolvesReflexive DEF OnConclude, Consistent
<1>2. CASE CanConclude(c, r)
  <2>1. c \in Canisters /\ LogConsistent(c)
    BY DEF Consistent
  <2>2. e \in Events /\ e.type = "Concluded" /\ e.version = r.version /\ r.version \in Versions
    BY DEF Events, Event, EventTypes
  <2>3. /\ d.reg = r.version /\ d.log = Append(c.log, e)
        /\ d.concluded /\ d.paid = c.paid /\ ~c.concluded
    BY <1>2, <2>1 DEF OnConclude, CanConclude, Settled, Canisters
  <2>4. d \in Canisters
    <3>1. Append(c.log, e) \in Seq(Events)
      BY <2>1, <2>2 DEF Canisters
    <3>2. d = [c EXCEPT !.reg = r.version, !.concluded = TRUE, !.log = Append(c.log, e)]
      BY <1>2 DEF OnConclude
    <3> QED
      BY <2>1, <2>2, <3>1, <3>2 DEF Canisters
  <2>5. Evolves(c, d)
    BY <2>1, <2>2, <2>3, <2>4, AppendLogged DEF Evolves
  <2>6. LogConsistent(d)
    <3>1. c.log \in Seq(Events)
      BY <2>1 DEF Canisters
    <3>2. d.reg = Registered(d.log)
      BY <2>2, <2>3, <3>1 DEF Registered
    <3>3. \A i \in DOMAIN c.log : c.log[i].type # "Concluded"
      BY <2>1, <2>3 DEF LogConsistent
    <3>4. \A i \in DOMAIN d.log : d.log[i].type = "Concluded" => d.log[i] = e
      BY <2>2, <2>3, <3>1, <3>3
    <3>5. c.reg <= r.version /\ c.reg \in Int /\ r.version \in Int
      <4>1. c.reg \in Versions \cup {NoVersion} /\ MaxVersion \in Nat
        BY <2>1, ChannelAssumption DEF Canisters
      <4>2. r.version \in FinalVersions \/ r.version = c.reg
        BY <1>2 DEF CanConclude
      <4>3. r.version \in FinalVersions => \A v \in Versions : v <= r.version
        BY ChannelAssumption
      <4> QED
        BY <2>2, <4>1, <4>2, <4>3 DEF Versions, NoVersion
    <3>6. \A i \in DOMAIN c.log : c.log[i].version <= c.reg /\ c.log[i].version \in Int
      <4>1. \A i \in DOMAIN c.log : c.log[i] \in Events
        BY <3>1
      <4> QED
        BY <2>1, <4>1 DEF LogConsistent, Events, Versions
    <3>7. \A i \in DOMAIN d.log : (i \in DOMAIN c.log /\ d.log[i] = c.log[i]) \/ d.log[i] = e
      BY <2>3, <3>1
    <3>8. \A i \in DOMAIN d.log : d.log[i].version <= d.reg
      BY <2>2, <2>3, <3>5, <3>6, <3>7
    <3>9. \A i \in DOMAIN d.log :
              d.log[i].type = "Concluded" => d.concluded /\ d.log[i].version = d.reg
      BY <2>2, <2>3, <3>4
    <3>10. d.reg # NoVersion
      BY <2>2, <2>3 DEF Versions, NoVersion
    <3> QED
      BY <3>2, <3>8, <3>9, <3>10 DEF LogConsistent
  <2> QED
    BY <2>3, <2>4, <2>5, <2>6 DEF Consistent
<1> QED
  BY <1>1, <1>2

LEMMA OnWithdrawEvolves ==
    ASSUME NEW c, Consistent(c), NEW p \in Participants
    PROVE  /\ Evolves(c, OnWithdraw(c, p)) /\ Consistent(OnWithdraw(c, p))
           /\ CanWithdraw(c, p) => p \in OnWithdraw(c, p).paid
BY DEF Evolves, OnWithdraw, CanWithdraw, Consistent, LogConsistent, Canisters, Logged

LEMMA OnExpireEvolves ==
    ASSUME NEW c, Consistent(c)
    PROVE  Evolves(c, OnExpire(c)) /\ Consistent(OnExpire(c))
BY DEF Evolves, OnExpire, Consistent, LogConsistent, Canisters, Logged

(* What a replica shows was logged.                                        *)
LEMMA VisibleIsLogged ==
    ASSUME NEW c \in Canisters, NEW log \in VisibleLogs(c)
    PROVE  /\ log \in Seq(Events)
           /\ \A i \in DOMAIN log : Logged(c, log[i].type, log[i].version)
<1>1. c.log \in Seq(Events)
  BY DEF Canisters
<1>2. PICK k \in 0..Len(c.log) : log = SubSeq(c.log, 1, k)
  BY DEF VisibleLogs
<1>3. /\ log \in Seq(Events) /\ Len(log) = k
      /\ \A i \in DOMAIN log : i \in DOMAIN c.log /\ log[i] = c.log[i]
  BY <1>1, <1>2
<1>4. \A e \in Events : Event(e.type, e.version) = e
  BY DEF Event, Events
<1>5. \A i \in DOMAIN log : log[i] \in Events
  BY <1>3
<1> QED
  BY <1>3, <1>4, <1>5 DEF Logged

(* The parser makes up no event.                                           *)
LEMMA ParsedIsLogged ==
    ASSUME NEW c \in Canisters, NEW log \in VisibleLogs(c)
    PROVE  /\ parseEventsAll(log) \in Seq(Events)
           /\ \A i \in DOMAIN parseEventsAll(log) :
                 Logged(c, parseEventsAll(log)[i].type, parseEventsAll(log)[i].version)
<1> DEFINE C == AsSeq(Newest(log, "Concluded"))
           D == AsSeq(Newest(log, "Disputed"))
           E == {e \in Events : Logged(c, e.type, e.version)}
<1>1. \A t : Newest(log, t) \subseteq E
  <2>1. \A i \in DOMAIN log : log[i] \in E
    <3>1. /\ log \in Seq(Events)
          /\ \A i \in DOMAIN log : Logged(c, log[i].type, log[i].version)
      BY VisibleIsLogged
    <3>2. \A i \in DOMAIN log : log[i] \in Events
      BY <3>1
    <3> QED
      BY <3>1, <3>2
  <2> HIDE DEF E
  <2> QED
    BY <2>1 DEF Newest
<1>2. \A S : S \subseteq E => AsSeq(S) \in Seq(E)
  <2> HIDE DEF E
  <2>1. \A S : S # {} => (CHOOSE e \in S : TRUE) \in S
    OBVIOUS
  <2>2. \A e \in E : <<e>> \in Seq(E)
    OBVIOUS
  <2>3. <<>> \in Seq(E)
    OBVIOUS
  <2> QED
    BY <2>1, <2>2, <2>3 DEF AsSeq
<1>3. C \in Seq(E) /\ D \in Seq(E)
  BY <1>1, <1>2
<1> HIDE DEF C, D
<1>4. C \o D \in Seq(E)
  BY <1>3
<1>5. Seq(E) \subseteq Seq(Events)
  OBVIOUS
<1>6. \A s \in Seq(E) : \A i \in DOMAIN s : Logged(c, s[i].type, s[i].version)
  OBVIOUS
<1>7. parseEventsAll(log) = C \o D
  BY DEF parseEventsAll, C, D
<1> QED
  BY <1>4, <1>5, <1>6, <1>7

(* One conclusion at most, before one dispute at most, each the newest.    *)
LEMMA ParsedFacts ==
    ASSUME NEW log \in Seq(Events), NEW P, P = parseEventsAll(log),
           \A i, j \in DOMAIN log :
              log[i].type = "Concluded" /\ log[j].type = "Concluded" => log[i] = log[j]
    PROVE  /\ P \in Seq(Events) /\ Len(P) <= 2
           /\ \A i, j \in DOMAIN P : P[i] = P[j] => i = j
           /\ \A i \in DOMAIN P : P[i] \in Newest(log, P[i].type)
           /\ \A i \in DOMAIN P, k \in DOMAIN log :
                 P[i].type = "Disputed" /\ log[k].type = "Concluded"
                    => \E j \in 1..i : P[j] = log[k]
<1> DEFINE C == Newest(log, "Concluded")
           D == Newest(log, "Disputed")
<1>1. \A i \in DOMAIN log : log[i] \in Events
  OBVIOUS
<1>2. /\ \A e \in C : e \in Events /\ e.type = "Concluded"
      /\ \A e \in D : e \in Events /\ e.type = "Disputed"
  BY <1>1 DEF Newest
<1>3. \A k \in DOMAIN log : log[k].type = "Concluded" => C = {log[k]}
  <2>1. ASSUME NEW k \in DOMAIN log, log[k].type = "Concluded"
        PROVE  C = {log[k]}
    <3>1. \A j \in DOMAIN log : log[j].type = "Concluded" => log[j].version <= log[k].version
      BY <1>1, <2>1 DEF Events, Versions
    <3>2. log[k] \in C
      BY <2>1, <3>1 DEF Newest
    <3>3. \A e \in C : e = log[k]
      BY <2>1 DEF Newest
    <3> QED
      BY <3>2, <3>3
  <2> QED
    BY <2>1
<1>4. P = AsSeq(C) \o AsSeq(D)
  BY DEF parseEventsAll
<1> DEFINE c == CHOOSE e \in C : TRUE
           d == CHOOSE e \in D : TRUE
<1>5. /\ C # {} => c \in C
      /\ D # {} => d \in D
  OBVIOUS
<1>6. /\ AsSeq(C) = IF C = {} THEN <<>> ELSE <<c>>
      /\ AsSeq(D) = IF D = {} THEN <<>> ELSE <<d>>
  BY DEF AsSeq
<1>7. \A k \in DOMAIN log : log[k].type = "Concluded" => C # {} /\ c = log[k]
  BY <1>3, <1>5
<1> HIDE DEF c, d
<1>8. CASE C = {} /\ D = {}
  <2>1. P = <<>>
    BY <1>4, <1>6, <1>8
  <2> QED
    BY <2>1
<1>9. CASE C # {} /\ D = {}
  <2> HIDE DEF C, D
  <2>1. c \in C /\ AsSeq(C) = <<c>> /\ AsSeq(D) = <<>>
    BY <1>5, <1>6, <1>9
  <2>2. c \in Events /\ c.type = "Concluded"
    BY <1>2, <2>1
  <2>3. c \in Newest(log, c.type)
    BY <2>1, <2>2 DEF C
  <2>4. /\ P \in Seq(Events) /\ DOMAIN P = 1..1 /\ Len(P) = 1 /\ P[1] = c
    BY <1>4, <2>1, <2>2
  <2> QED
    BY <2>2, <2>3, <2>4
<1>10. CASE C = {} /\ D # {}
  <2> HIDE DEF C, D
  <2>1. d \in D /\ AsSeq(C) = <<>> /\ AsSeq(D) = <<d>>
    BY <1>5, <1>6, <1>10
  <2>2. d \in Events /\ d.type = "Disputed"
    BY <1>2, <2>1
  <2>3. d \in Newest(log, d.type)
    BY <2>1, <2>2 DEF D
  <2>4. /\ P \in Seq(Events) /\ DOMAIN P = 1..1 /\ Len(P) = 1 /\ P[1] = d
    BY <1>4, <2>1, <2>2
  <2> QED
    BY <1>7, <1>10, <2>2, <2>3, <2>4
<1>11. CASE C # {} /\ D # {}
  <2> HIDE DEF C, D
  <2>1. c \in C /\ d \in D /\ AsSeq(C) = <<c>> /\ AsSeq(D) = <<d>>
    BY <1>5, <1>6, <1>11
  <2>2. /\ c \in Events /\ c.type = "Concluded"
        /\ d \in Events /\ d.type = "Disputed"
    BY <1>2, <2>1
  <2>3. c \in Newest(log, c.type) /\ d \in Newest(log, d.type)
    BY <2>1, <2>2 DEF C, D
  <2>4. /\ P \in Seq(Events) /\ DOMAIN P = 1..2 /\ Len(P) = 2
        /\ P[1] = c /\ P[2] = d
    BY <1>4, <2>1, <2>2
  <2>5. c # d
    BY <2>2
  <2>6. \A k \in DOMAIN log : log[k].type = "Concluded" => P[1] = log[k]
    BY <1>7, <2>4
  <2>7. \A i \in DOMAIN P : P[i] = c \/ P[i] = d
    BY <2>4
  <2>8. \A i \in DOMAIN P : 1 \in 1..i
    BY <2>4
  <2> QED
    BY <2>2, <2>3, <2>4, <2>5, <2>6, <2>7, <2>8
<1> QED
  BY <1>8, <1>9, <1>10, <1>11
=============================================================================
