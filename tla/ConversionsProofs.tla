--------------------------- MODULE ConversionsProofs ---------------------------
(* Proofs about MCConversions: about EventParsing for any channel, versions, *)
(* answers however stale, and balances, about Encoding for any base, field   *)
(* lengths, parameters and states.                                           *)
EXTENDS MCConversions, PerunCanisterProofs, FiniteSetTheorems, FunctionTheorems,
        SequenceTheorems, WellFoundedInduction, TLAPS

-----------------------------------------------------------------------------
(* The logs that EvNext makes.                                             *)

(* The events of a type are logged in the order of their versions.         *)
VersionsGrow(log) ==
    \A i, j \in DOMAIN log :
        i < j /\ log[i].type = log[j].type => log[i].version < log[j].version

(* The parser may therefore take the newest event of a type for the last   *)
(* one, and never sees a version twice (utils.go, findMaxVersionIndex).    *)
EvIInv ==
    /\ ch \in Canisters /\ LogConsistent(ch)
    /\ VersionsGrow(ch.log)
    /\ alloc \in [Versions -> Allocations]

-----------------------------------------------------------------------------
(* The list of the matches of a pattern.                                   *)

(* An event's index in the list determines the event.                      *)
LEMMA IndexUnique ==
    ASSUME NEW S, IsFiniteSet(S), S \subseteq Int, NEW i \in S
    PROVE  /\ IndexOf(S, i) \in 1..Cardinality(S)
           /\ At(S, IndexOf(S, i)) = i
<1> DEFINE Upto(j) == {k \in S : k <= j}
<1>1. \A j \in S : IsFiniteSet(Upto(j)) /\ Cardinality(Upto(j)) \in 1..Cardinality(S)
  <2> SUFFICES ASSUME NEW j \in S
               PROVE  IsFiniteSet(Upto(j)) /\ Cardinality(Upto(j)) \in 1..Cardinality(S)
    OBVIOUS
  <2>1. Upto(j) \in SUBSET S /\ Upto(j) # {}
    OBVIOUS
  <2>2. IsFiniteSet(Upto(j)) /\ Cardinality(Upto(j)) <= Cardinality(S)
    BY <2>1, FS_Subset
  <2>3. Cardinality(Upto(j)) # 0
    BY <2>1, <2>2, FS_EmptySet
  <2>4. Cardinality(Upto(j)) \in Nat /\ Cardinality(S) \in Nat
    BY <2>2, FS_CardinalityType
  <2> HIDE DEF Upto
  <2> QED
    BY <2>2, <2>3, <2>4
<1>2. \A j, k \in S : j < k => Cardinality(Upto(j)) # Cardinality(Upto(k))
  <2> SUFFICES ASSUME NEW j \in S, NEW k \in S, j < k
               PROVE  Cardinality(Upto(j)) # Cardinality(Upto(k))
    OBVIOUS
  <2>1. k \in Upto(k) /\ k \notin Upto(j) /\ \A x \in Upto(j) : x \in Upto(k)
    OBVIOUS
  <2> HIDE DEF Upto
  <2> QED
    BY <1>1, <2>1, FS_Subset
<1>3. \A j, k \in S : Cardinality(Upto(j)) = Cardinality(Upto(k)) => j = k
  <2> HIDE DEF Upto
  <2> QED
    BY <1>2
<1>4. \A j : IndexOf(S, j) = Cardinality(Upto(j))
  BY DEF IndexOf
<1> HIDE DEF Upto
<1> QED
  BY <1>1, <1>3, <1>4 DEF At

(* The last match is at the length of the list.                            *)
LEMMA LastIndex ==
    ASSUME NEW S, NEW i \in S, \A j \in S : j <= i
    PROVE  IndexOf(S, i) = Cardinality(S)
<1>1. {j \in S : j <= i} = S
  OBVIOUS
<1> QED
  BY <1>1 DEF IndexOf

(* A finite list has a last match.                                         *)
LEMMA LastExists ==
    ASSUME NEW S, IsFiniteSet(S), S \subseteq Int, S # {}
    PROVE  \E m \in S : \A j \in S : j <= m
<1> DEFINE n == Cardinality(S)
           f == [i \in S |-> IndexOf(S, i)]
<1>1. n \in Nat /\ n # 0
  BY FS_CardinalityType, FS_EmptySet
<1>2. f \in [S -> 1..n] /\ \A i \in S : At(S, f[i]) = i
  BY IndexUnique
<1>3. f \in Injection(S, 1..n)
  <2> HIDE DEF f
  <2> QED
    BY <1>2, Fun_IsInj
<1>4. IsFiniteSet(1..n) /\ Cardinality(1..n) = n
  BY <1>1, FS_Interval
<1>5. f \in Surjection(S, 1..n)
  BY <1>3, <1>4, FS_Injection
<1>6. PICK m \in S : f[m] = n
  <2> HIDE DEF f
  <2> QED
    BY <1>1, <1>5 DEF Surjection
<1>7. {j \in S : j <= m} = S
  <2>1. Cardinality({j \in S : j <= m}) = Cardinality(S)
    BY <1>6 DEF IndexOf
  <2>2. {j \in S : j <= m} \in SUBSET S
    OBVIOUS
  <2> QED
    BY <2>1, <2>2, FS_Subset
<1> QED
  BY <1>7

-----------------------------------------------------------------------------
(* Balances as text.                                                       *)

LEMMA TwoGroups ==
    ASSUME NEW n \in Nat
    PROVE  /\ Len(Groups(n)) = 2 <=> n \in GroupBase .. GroupBase * GroupBase - 1
           /\ Len(Groups(n)) = 2 => Groups(n)[1] * GroupBase + Groups(n)[2] = n
<1> DEFINE square == GroupBase * GroupBase
<1>1. GroupBase \in Nat /\ GroupBase > 1 /\ square \in Nat /\ square >= GroupBase
  BY ParsingAssumption
<1>2. (n \div GroupBase) * GroupBase + (n % GroupBase) = n
  BY <1>1
<1> HIDE DEF square
<1>3. Groups(n) = IF n < GroupBase THEN <<n>>
                  ELSE IF n < square THEN <<n \div GroupBase, n % GroupBase>>
                  ELSE <<n \div square, (n \div GroupBase) % GroupBase, n % GroupBase>>
  BY DEF Groups, square
<1>4. Len(Groups(n)) = 2 <=> n \in GroupBase .. square - 1
  BY <1>1, <1>3
<1>5. Len(Groups(n)) = 2 => Groups(n) = <<n \div GroupBase, n % GroupBase>>
  BY <1>1, <1>3
<1>6. Len(Groups(n)) = 2 => Groups(n)[1] * GroupBase + Groups(n)[2] = n
  BY <1>2, <1>5
<1> QED
  BY <1>4, <1>6 DEF square

(* The balances of an event are read exactly if they are Readable, and as  *)
(* what they are.                                                          *)
LEMMA BalancesAsText ==
    ASSUME alloc \in [Versions -> Allocations],
           NEW log \in Seq(Events), NEW i \in DOMAIN log
    PROVE  /\ DOMAIN Text(log) = DOMAIN log
           /\ Text(log)[i].type = log[i].type
           /\ Text(log)[i].version = log[i].version
           /\ AllocPattern(Text(log)[i]) <=> Readable(log[i])
           /\ Readable(log[i]) =>
                 parseAllocations(Text(log)[i].balances) = alloc[log[i].version]
<1> DEFINE bal == alloc[log[i].version]
<1>1. log[i].version \in Versions
  <2>1. log[i] \in Events
    OBVIOUS
  <2> QED
    BY <2>1 DEF Events
<1>2. PICK b \in 0..Total : bal = <<b, Total - b>>
  BY <1>1, ParsingAssumption DEF Allocations
<1>3. \A p \in 1..2 : bal[p] \in Nat
  BY <1>2, ParsingAssumption
<1>4. /\ DOMAIN Text(log) = DOMAIN log
      /\ Text(log)[i] = [type |-> log[i].type, version |-> log[i].version,
                         balances |-> [p \in 1..2 |-> Groups(bal[p])]]
  BY DEF Text
<1> HIDE DEF bal
<1>5. AllocPattern(Text(log)[i]) <=> \A p \in 1..2 : Len(Groups(bal[p])) = 2
  BY <1>4 DEF AllocPattern
<1>6. Readable(log[i]) <=> \A p \in 1..2 : Len(Groups(bal[p])) = 2
  BY <1>3, TwoGroups DEF Readable, bal
<1>7. ASSUME Readable(log[i])
      PROVE  parseAllocations(Text(log)[i].balances) = bal
  <2>1. \A p \in 1..2 : Groups(bal[p])[1] * GroupBase + Groups(bal[p])[2] = bal[p]
    BY <1>3, <1>6, <1>7, TwoGroups
  <2>2. parseAllocations(Text(log)[i].balances)
          = [p \in 1..2 |-> Groups(bal[p])[1] * GroupBase + Groups(bal[p])[2]]
    BY <1>4 DEF parseAllocations
  <2>3. parseAllocations(Text(log)[i].balances) = [p \in 1..2 |-> bal[p]]
    BY <2>1, <2>2, Zenon
  <2>4. bal = [p \in 1..2 |-> bal[p]]
    BY <1>2
  <2> QED
    BY <2>3, <2>4
<1> QED
  BY <1>4, <1>5, <1>6, <1>7 DEF bal
-----------------------------------------------------------------------------
(* One type of event.                                                      *)

OfTypeLast(log, t, m) == m \in OfType(log, t) /\ \A j \in OfType(log, t) : j <= m

LEMMA OfTypeFinite ==
    ASSUME NEW log \in Seq(Events), NEW t
    PROVE  /\ IsFiniteSet(OfType(log, t)) /\ OfType(log, t) \subseteq Int
           /\ OfType(log, t) # {} => \E m : OfTypeLast(log, t, m)
<1>1. OfType(log, t) \in SUBSET (1..Len(log)) /\ Len(log) \in Nat
  BY DEF OfType
<1>2. IsFiniteSet(OfType(log, t))
  <2>1. IsFiniteSet(1..Len(log))
    BY <1>1, FS_Interval
  <2> QED
    BY <1>1, <2>1, FS_Subset
<1>3. OfType(log, t) \subseteq Int
  BY <1>1
<1> QED
  BY <1>2, <1>3, LastExists DEF OfTypeLast

(* The last event of a type is its newest, and no other is as new.         *)
LEMMA LastIsNewest ==
    ASSUME NEW log \in Seq(Events), VersionsGrow(log), NEW t, NEW m, OfTypeLast(log, t, m)
    PROVE  /\ \A j \in OfType(log, t) : log[j].version \in Nat
           /\ \A j \in OfType(log, t) : j = m \/ (j < m /\ log[j].version < log[m].version)
           /\ Newest(log, t) = {log[m]}
<1>1. \A j \in OfType(log, t) : j \in DOMAIN log /\ j \in Int /\ log[j].type = t
                                /\ log[j].version \in Nat
  <2>1. \A j \in DOMAIN log : log[j] \in Events /\ j \in Int
    OBVIOUS
  <2> QED
    BY <2>1, ChannelAssumption DEF OfType, Events, Versions
<1>2. m \in OfType(log, t) /\ \A j \in OfType(log, t) : j <= m
  BY DEF OfTypeLast
<1>3. \A j \in OfType(log, t) : j = m \/ (j < m /\ log[j].version < log[m].version)
  BY <1>1, <1>2 DEF VersionsGrow
<1>4. \A j \in DOMAIN log : log[j].type = t => j \in OfType(log, t)
  BY DEF OfType
<1>5. log[m] \in Newest(log, t)
  BY <1>1, <1>2, <1>3, <1>4 DEF Newest
<1>6. \A e \in Newest(log, t) : e = log[m]
  <2> SUFFICES ASSUME NEW j \in DOMAIN log, log[j].type = t, j # m,
                      log[m].version <= log[j].version
               PROVE  FALSE
    BY <1>1, <1>2 DEF Newest
  <2> QED
    BY <1>1, <1>2, <1>3, <1>4
<1> QED
  BY <1>1, <1>2, <1>3, <1>5, <1>6

(* What the parser makes of the events of a type.                          *)
LEMMA OneType ==
    ASSUME alloc \in [Versions -> Allocations],
           NEW log \in Seq(Events), VersionsGrow(log),
           NEW t, NEW m, OfTypeLast(log, t, m),
           NEW out, out = parseAdjEvents(Text(log), t)
    PROVE  /\ ReadableOf(log, t) = {} => out = Nothing
           /\ ReadableOf(log, t) = OfType(log, t) => out = Parsed(WithAlloc(log[m]))
           /\ ReadableOf(log, t) \notin {{}, OfType(log, t)} => out = Panic
<1> DEFINE text == Text(log)
           es == OfType(log, t)
           allocs == ReadableOf(log, t)
           newest(i) == /\ \A j \in es : text[j].version <= text[i].version
                        /\ \A j \in es : j < i => text[j].version < text[i].version
           idx == IF Cardinality(es) = 1 THEN 1 ELSE findMaxVersionIndex(text, es)
<1>1. /\ IsFiniteSet(es) /\ es \subseteq Int /\ m \in es
      /\ \A j \in es : j <= m
  BY OfTypeFinite DEF OfTypeLast
<1>2. /\ {i \in DOMAIN text : text[i].type = t} = es
      /\ {i \in es : AllocPattern(text[i])} = allocs
      /\ \A i \in es : text[i].version = log[i].version
  <2>1. /\ DOMAIN text = DOMAIN log
        /\ \A i \in DOMAIN log : /\ text[i].type = log[i].type
                                 /\ text[i].version = log[i].version
                                 /\ AllocPattern(text[i]) <=> Readable(log[i])
    <3>1. DOMAIN text = DOMAIN log
      BY DEF Text
    <3> QED
      BY <3>1, BalancesAsText
  <2> HIDE DEF text
  <2> QED
    BY <2>1, Zenon DEF OfType, ReadableOf
<1>3. /\ \A j \in es : text[j].version \in Nat
      /\ \A j \in es : j = m \/ (j < m /\ text[j].version < text[m].version)
  <2>1. /\ \A j \in es : log[j].version \in Nat
        /\ \A j \in es : j = m \/ (j < m /\ log[j].version < log[m].version)
    BY LastIsNewest
  <2> HIDE DEF text, es
  <2> QED
    BY <1>1, <1>2, <2>1
<1>4. Cardinality(es) \in Nat \ {0}
  BY <1>1, FS_CardinalityType, FS_EmptySet
<1>5. idx = Cardinality(es)
  <2>1. CASE Cardinality(es) = 1
    BY <2>1
  <2>2. CASE Cardinality(es) # 1
    <3>1. PICK j \in es : j # m
      <4>1. es # {m}
        BY <2>2, FS_Singleton
      <4> HIDE DEF es
      <4> QED
        BY <1>1, <4>1
    <3>2. text[m].version # 0
      <4> HIDE DEF text, es
      <4> QED
        BY <1>1, <1>3, <3>1
    <3>3. newest(m) /\ \A i \in es : newest(i) => i = m
      <4> HIDE DEF text, es
      <4>1. newest(m)
        <5>1. ASSUME NEW k \in es
              PROVE  /\ text[k].version <= text[m].version
                     /\ k < m => text[k].version < text[m].version
          <6>1. /\ text[k].version \in Nat /\ text[m].version \in Nat
                /\ k = m \/ (k < m /\ text[k].version < text[m].version)
            BY <1>1, <1>3
          <6>2. k \in Int /\ m \in Int
            BY <1>1
          <6> QED
            BY <6>1, <6>2
        <5> QED
          BY <5>1, Zenon
      <4>2. ASSUME NEW i \in es, newest(i), i # m
            PROVE  FALSE
        <5>1. text[i].version < text[m].version
          BY <1>3, <4>2, Zenon
        <5>2. text[m].version <= text[i].version
          BY <1>1, <4>2, Zenon
        <5>3. text[i].version \in Nat /\ text[m].version \in Nat
          BY <1>1, <1>3, <4>2
        <5> DEFINE x == text[i].version
                   y == text[m].version
        <5>4. x \in Nat /\ y \in Nat /\ x < y /\ y <= x
          BY <5>1, <5>2, <5>3
        <5> HIDE DEF x, y
        <5> QED
          BY <5>4
      <4> QED
        BY <4>1, <4>2
    <3>4. (CHOOSE i \in es : newest(i)) = m
      <4> HIDE DEF newest, es
      <4> QED
        BY <1>1, <3>3
    <3>5. findMaxVersionIndex(text, es) = IndexOf(es, m)
      <4> HIDE DEF text, es
      <4> QED
        BY <1>1, <3>2, <3>4 DEF findMaxVersionIndex
    <3> HIDE DEF text, es
    <3> QED
      BY <1>1, <2>2, <3>5, LastIndex
  <2> HIDE DEF idx
  <2> QED
    BY <2>1, <2>2
<1>6. out = IF es = {} \/ allocs = {} THEN Nothing
            ELSE IF idx \notin 1..Cardinality(allocs) THEN Panic
            ELSE Parsed([type    |-> t,
                         version |-> text[At(es, idx)].version,
                         alloc   |-> parseAllocations(text[At(allocs, idx)].balances)])
  BY <1>2, Zenon DEF parseAdjEvents
<1>7. es # {}
  BY <1>1
<1> HIDE DEF idx, es, allocs
<1>8. ASSUME allocs = es
      PROVE  out = Parsed(WithAlloc(log[m]))
  <2>1. At(es, idx) = m
    BY <1>1, <1>5, IndexUnique, LastIndex
  <2>2. out = Parsed([type |-> t, version |-> text[m].version,
                      alloc |-> parseAllocations(text[m].balances)])
    BY <1>4, <1>5, <1>6, <1>7, <1>8, <2>1
  <2>3. /\ m \in DOMAIN log /\ log[m].type = t /\ Readable(log[m])
    BY <1>1, <1>8 DEF es, allocs, OfType, ReadableOf
  <2> QED
    BY <2>2, <2>3, BalancesAsText DEF WithAlloc
<1>9. ASSUME allocs \notin {{}, es}
      PROVE  out = Panic
  <2>1. allocs \in SUBSET es
    BY DEF allocs, es, ReadableOf
  <2>2. Cardinality(allocs) < Cardinality(es)
    <3>1. Cardinality(allocs) <= Cardinality(es) /\ Cardinality(es) # Cardinality(allocs)
          /\ Cardinality(allocs) \in Nat
      BY <1>1, <1>9, <2>1, FS_Subset, FS_CardinalityType
    <3> QED
      BY <1>4, <3>1
  <2>3. Cardinality(allocs) \in Nat
    BY <1>1, <2>1, FS_Subset, FS_CardinalityType
  <2>4. idx \notin 1..Cardinality(allocs)
    BY <1>4, <1>5, <2>2, <2>3
  <2> QED
    BY <1>6, <1>7, <1>9, <2>4
<1> QED
  BY <1>6, <1>8, <1>9 DEF es, allocs
-----------------------------------------------------------------------------
(* The logs of a channel.                                                  *)

(* An event newer than those of its type keeps their order.                *)
LEMMA AppendGrows ==
    ASSUME NEW log \in Seq(Events), VersionsGrow(log), NEW e \in Events,
           \A i \in DOMAIN log : log[i].type = e.type => log[i].version < e.version
    PROVE  VersionsGrow(Append(log, e))
<1> DEFINE n == Len(log) + 1
           new == Append(log, e)
<1>1. /\ n \in Nat /\ DOMAIN log = 1..n - 1 /\ DOMAIN new = 1..n
      /\ new[n] = e /\ \A i \in DOMAIN log : new[i] = log[i]
  OBVIOUS
<1> HIDE DEF n, new
<1> SUFFICES ASSUME NEW i \in DOMAIN new, NEW j \in DOMAIN new,
                    i < j, new[i].type = new[j].type
             PROVE  new[i].version < new[j].version
  BY DEF VersionsGrow, new
<1>2. i \in DOMAIN log
  BY <1>1
<1>3. CASE j = n
  BY <1>1, <1>2, <1>3
<1>4. CASE j # n
  <2>1. j \in DOMAIN log
    BY <1>1, <1>4
  <2> QED
    BY <1>1, <1>2, <2>1 DEF VersionsGrow
<1> QED
  BY <1>3, <1>4

LEMMA VisibleLogsGrow ==
    ASSUME NEW c \in Canisters, VersionsGrow(c.log), NEW log \in VisibleLogs(c)
    PROVE  log \in Seq(Events) /\ VersionsGrow(log)
<1>1. c.log \in Seq(Events)
  BY DEF Canisters
<1>2. PICK k \in 0..Len(c.log) : log = SubSeq(c.log, 1, k)
  BY DEF VisibleLogs
<1>3. /\ log \in Seq(Events) /\ Len(log) = k
      /\ \A i \in DOMAIN log : i \in DOMAIN c.log /\ log[i] = c.log[i]
  BY <1>1, <1>2
<1> QED
  BY <1>3 DEF VersionsGrow

(* Each step keeps the order of the events.                                *)
LEMMA EvInitIInv == EvInit => EvIInv
<1> SUFFICES ASSUME EvInit PROVE EvIInv
  OBVIOUS
<1>1. ch \in Canisters
  BY DEF EvInit, EmptyCanister, Canisters, NoVersion
<1>2. LogConsistent(ch) /\ VersionsGrow(ch.log)
  BY DEF EvInit, EmptyCanister, LogConsistent, Registered, VersionsGrow, NoVersion
<1> QED
  BY <1>1, <1>2 DEF EvInit, EvIInv

LEMMA DisputeIInv ==
    ASSUME EvIInv, NEW v \in Versions, Dispute(v)
    PROVE  EvIInv'
<1> DEFINE e == Event("Disputed", v)
<1>1. Consistent(ch) /\ Request(v).version = v
  BY DEF EvIInv, Consistent, Request
<1>2. Consistent(ch') /\ alloc' = alloc
  BY <1>1, OnDisputeEvolves DEF Dispute
<1>3. ch'.log = Append(ch.log, e) /\ ch.reg < v
  BY <1>1 DEF Dispute, OnDispute, CanDispute, Consistent, Canisters
<1>4. VersionsGrow(ch'.log)
  <2>1. ch.log \in Seq(Events) /\ e \in Events /\ e.version = v
    BY <1>1 DEF Consistent, Canisters, Event, Events, EventTypes
  <2>2. \A i \in DOMAIN ch.log : ch.log[i].version < v
    <3>1. \A i \in DOMAIN ch.log : ch.log[i].version <= ch.reg /\ ch.log[i].version \in Int
      <4>1. \A i \in DOMAIN ch.log : ch.log[i] \in Events
        BY <2>1
      <4> QED
        BY <1>1, <4>1 DEF Consistent, LogConsistent, Events, Versions
    <3>2. ch.reg \in Int /\ v \in Int
      BY <1>1 DEF Consistent, Canisters, Versions, NoVersion
    <3> QED
      BY <1>3, <3>1, <3>2
  <2> HIDE DEF e
  <2> QED
    BY <1>3, <2>1, <2>2, AppendGrows DEF EvIInv
<1> QED
  BY <1>2, <1>4 DEF EvIInv, Consistent

LEMMA ConcludeIInv ==
    ASSUME EvIInv, NEW v \in Versions, Conclude(v)
    PROVE  EvIInv'
<1> DEFINE e == Event("Concluded", v)
<1>1. Consistent(ch) /\ Request(v).version = v
  BY DEF EvIInv, Consistent, Request
<1>2. Consistent(ch') /\ alloc' = alloc
  BY <1>1, OnConcludeEvolves DEF Conclude
<1>3. ch'.log = Append(ch.log, e) /\ ~ch.concluded
  BY <1>1 DEF Conclude, OnConclude, CanConclude, Settled, Consistent, Canisters
<1>4. VersionsGrow(ch'.log)
  <2>1. ch.log \in Seq(Events) /\ e \in Events /\ e.type = "Concluded"
    BY <1>1 DEF Consistent, Canisters, Event, Events, EventTypes
  <2>2. \A i \in DOMAIN ch.log : ch.log[i].type # "Concluded"
    BY <1>1, <1>3 DEF Consistent, LogConsistent
  <2> HIDE DEF e
  <2> QED
    BY <1>3, <2>1, <2>2, AppendGrows DEF EvIInv
<1> QED
  BY <1>2, <1>4 DEF EvIInv, Consistent

LEMMA ExpireIInv ==
    ASSUME EvIInv, Expire
    PROVE  EvIInv'
<1>1. Consistent(ch)
  BY DEF EvIInv, Consistent
<1>2. Consistent(ch') /\ alloc' = alloc /\ ch'.log = ch.log
  BY <1>1, OnExpireEvolves DEF Expire, OnExpire, Consistent, Canisters
<1> QED
  BY <1>2 DEF EvIInv, Consistent

(* Of every channel: its events are logged consistently, and those of a    *)
(* type in the order of their versions (utils.go, findMaxVersionIndex).    *)
LEMMA LogsGrow == Spec => []EvIInv
<1>1. Init => EvIInv
  BY EvInitIInv DEF Init
<1>2. EvIInv /\ [Next]_vars => EvIInv'
  <2> SUFFICES ASSUME EvIInv, [Next]_vars PROVE EvIInv'
    OBVIOUS
  <2>1. CASE Log
    BY <2>1, DisputeIInv, ConcludeIInv, ExpireIInv DEF Log, EvNext
  <2>2. CASE Encode
    BY <2>2 DEF Encode, EvIInv
  <2>3. CASE UNCHANGED vars
    BY <2>3 DEF vars, EvIInv
  <2> QED
    BY <2>1, <2>2, <2>3 DEF Next
<1> QED
  BY <1>1, <1>2, PTL DEF Spec
-----------------------------------------------------------------------------
(* What the parser reads.                                                  *)

(* Lists of one event, one after the other.                                *)
LEMMA ConcatEmpty ==
    /\ <<>> \o <<>> = <<>>
    /\ \A a : <<a>> \o <<>> = <<a>> /\ <<>> \o <<a>> = <<a>>
<1>1. <<>> \o <<>> = <<>>
  OBVIOUS
<1>2. \A a : <<a>> \o <<>> = <<a>>
  OBVIOUS
<1>3. \A a : <<>> \o <<a>> = <<a>>
  OBVIOUS
<1> QED
  BY <1>1, <1>2, <1>3

LEMMA ConcatOne ==
    ASSUME NEW a, NEW b
    PROVE  <<a>> \o <<b>> = <<a, b>>
<1> DEFINE S == {a, b}
           s == <<a>>
           t == <<b>>
           u == <<a, b>>
<1>1. /\ s \in Seq(S) /\ t \in Seq(S) /\ u \in Seq(S)
      /\ Len(s) = 1 /\ Len(t) = 1 /\ Len(u) = 2
      /\ s[1] = a /\ t[1] = b /\ u[1] = a /\ u[2] = b
  OBVIOUS
<1> HIDE DEF S, s, t, u
<1>2. /\ s \o t \in Seq(S) /\ Len(s \o t) = 2
      /\ \A i \in 1..2 : (s \o t)[i] = u[i]
  BY <1>1, ConcatProperties
<1>3. s \o t = u
  BY <1>1, <1>2, SeqEqual
<1> QED
  BY <1>3 DEF s, t, u

LEMMA ReadableLogs == EvIInv => ReadableLogsAreRead
<1> SUFFICES ASSUME EvIInv, NEW log \in VisibleLogs(ch),
                    \A i \in DOMAIN log : Readable(log[i])
             PROVE  LET es == parseEventsAll(log) IN
                    parseEvents(Text(log)) =
                      [panics |-> FALSE, events |-> [i \in DOMAIN es |-> WithAlloc(es[i])]]
  BY DEF ReadableLogsAreRead
<1> DEFINE read(t) == parseAdjEvents(Text(log), t)
           last(t) == CHOOSE m : OfTypeLast(log, t, m)
<1>1. log \in Seq(Events) /\ VersionsGrow(log) /\ alloc \in [Versions -> Allocations]
  BY VisibleLogsGrow DEF EvIInv
<1>2. \A t : ReadableOf(log, t) = OfType(log, t)
  BY DEF ReadableOf, OfType
<1>3. ASSUME NEW t, OfType(log, t) = {}
      PROVE  read(t) = Nothing /\ AsSeq(Newest(log, t)) = <<>>
  <2>1. {i \in DOMAIN Text(log) : Text(log)[i].type = t} = {}
    <3>1. DOMAIN Text(log) = DOMAIN log
      BY DEF Text
    <3>2. \A i \in DOMAIN log : Text(log)[i].type = log[i].type
      BY <1>1, BalancesAsText
    <3> QED
      BY <1>3, <3>1, <3>2 DEF OfType
  <2>2. read(t) = Nothing
    BY <2>1 DEF parseAdjEvents
  <2>3. Newest(log, t) = {}
    BY <1>3 DEF Newest, OfType
  <2> QED
    BY <2>2, <2>3 DEF AsSeq
<1>4. ASSUME NEW t, OfType(log, t) # {}
      PROVE  /\ read(t) = Parsed(WithAlloc(log[last(t)]))
             /\ AsSeq(Newest(log, t)) = <<log[last(t)]>>
  <2>1. OfTypeLast(log, t, last(t))
    BY <1>1, <1>4, OfTypeFinite
  <2> HIDE DEF last
  <2>2. read(t) = Parsed(WithAlloc(log[last(t)]))
    BY <1>1, <1>2, <2>1, OneType
  <2>3. Newest(log, t) = {log[last(t)]}
    BY <1>1, <2>1, LastIsNewest
  <2> QED
    BY <2>2, <2>3 DEF AsSeq
<1>5. parseEvents(Text(log)) =
        IF read("Concluded").panics \/ read("Disputed").panics THEN Panic
        ELSE [panics |-> FALSE, events |-> read("Concluded").events \o read("Disputed").events]
  BY DEF parseEvents
<1> HIDE DEF read, last
<1>6. \A t : ~read(t).panics /\ read(t).events = IF OfType(log, t) = {} THEN <<>>
                                                 ELSE <<WithAlloc(log[last(t)])>>
  BY <1>3, <1>4 DEF Nothing, Parsed
<1>7. \A t : AsSeq(Newest(log, t)) = IF OfType(log, t) = {} THEN <<>> ELSE <<log[last(t)]>>
  BY <1>3, <1>4
<1> DEFINE c == log[last("Concluded")]
           d == log[last("Disputed")]
           es == parseEventsAll(log)
           with == [i \in DOMAIN es |-> WithAlloc(es[i])]
<1>8. es = AsSeq(Newest(log, "Concluded")) \o AsSeq(Newest(log, "Disputed"))
  BY DEF parseEventsAll
<1> HIDE DEF es
<1>9. CASE OfType(log, "Concluded") = {} /\ OfType(log, "Disputed") = {}
  <2>1. es = <<>> /\ parseEvents(Text(log)) = [panics |-> FALSE, events |-> <<>>]
    BY <1>5, <1>6, <1>7, <1>8, <1>9, ConcatEmpty
  <2> QED
    BY <2>1 DEF es
<1>10. CASE OfType(log, "Concluded") # {} /\ OfType(log, "Disputed") = {}
  <2>1. /\ es = <<c>>
        /\ parseEvents(Text(log)) = [panics |-> FALSE, events |-> <<WithAlloc(c)>>]
    BY <1>5, <1>6, <1>7, <1>8, <1>10, ConcatEmpty
  <2>2. with = <<WithAlloc(c)>>
    BY <2>1
  <2> QED
    BY <2>1, <2>2 DEF es
<1>11. CASE OfType(log, "Concluded") = {} /\ OfType(log, "Disputed") # {}
  <2>1. /\ es = <<d>>
        /\ parseEvents(Text(log)) = [panics |-> FALSE, events |-> <<WithAlloc(d)>>]
    BY <1>5, <1>6, <1>7, <1>8, <1>11, ConcatEmpty
  <2>2. with = <<WithAlloc(d)>>
    BY <2>1
  <2> QED
    BY <2>1, <2>2 DEF es
<1>12. CASE OfType(log, "Concluded") # {} /\ OfType(log, "Disputed") # {}
  <2>1. /\ es = <<c, d>>
        /\ parseEvents(Text(log)) =
             [panics |-> FALSE, events |-> <<WithAlloc(c), WithAlloc(d)>>]
    BY <1>5, <1>6, <1>7, <1>8, <1>12, ConcatOne
  <2>2. with = <<WithAlloc(c), WithAlloc(d)>>
    BY <2>1
  <2> QED
    BY <2>1, <2>2 DEF es
<1> QED
  BY <1>9, <1>10, <1>11, <1>12

LEMMA OtherBalances == EvIInv => OtherBalancesHideEvents
<1> SUFFICES ASSUME EvIInv, NEW log \in VisibleLogs(ch), NEW t \in EventTypes
             PROVE  LET out == parseAdjEvents(Text(log), t) IN
                    /\ ReadableOf(log, t) = {} => out = Nothing
                    /\ out.panics <=> ReadableOf(log, t) \notin {{}, OfType(log, t)}
  BY DEF OtherBalancesHideEvents
<1> DEFINE out == parseAdjEvents(Text(log), t)
<1>1. log \in Seq(Events) /\ VersionsGrow(log) /\ alloc \in [Versions -> Allocations]
  BY VisibleLogsGrow DEF EvIInv
<1>2. CASE OfType(log, t) = {}
  <2>1. {i \in DOMAIN Text(log) : Text(log)[i].type = t} = {}
    <3>1. DOMAIN Text(log) = DOMAIN log
      BY DEF Text
    <3>2. \A i \in DOMAIN log : Text(log)[i].type = log[i].type
      BY <1>1, BalancesAsText
    <3> QED
      BY <1>2, <3>1, <3>2 DEF OfType
  <2>2. out = Nothing
    BY <2>1 DEF parseAdjEvents
  <2>3. ReadableOf(log, t) = {}
    BY <1>2 DEF ReadableOf
  <2> QED
    BY <2>2, <2>3 DEF Nothing
<1>3. CASE OfType(log, t) # {}
  <2>1. PICK m : OfTypeLast(log, t, m)
    BY <1>1, <1>3, OfTypeFinite
  <2> HIDE DEF out
  <2>2. /\ ReadableOf(log, t) = {} => out = Nothing
        /\ ReadableOf(log, t) = OfType(log, t) => out = Parsed(WithAlloc(log[m]))
        /\ ReadableOf(log, t) \notin {{}, OfType(log, t)} => out = Panic
    BY <1>1, <2>1, OneType DEF out
  <2> QED
    BY <2>2 DEF Nothing, Parsed, Panic, out
<1> QED
  BY <1>2, <1>3

(* Of every channel whose balances are within reach of the patterns, the   *)
(* parser gives the newest event of each type with the balances of its own *)
(* version, for answers however stale (adjudicator_eventsub.go,            *)
(* parseEventsAll; utils.go, parseAdjEvents).                              *)
THEOREM ParserReadsNewest == Spec => []ReadableLogsAreRead
BY LogsGrow, ReadableLogs, PTL

(* Of every channel: when the parser sees nothing of a type, and exactly   *)
(* when it panics (utils.go, parseAdjEvents).                              *)
THEOREM ParserPanicsOnMixedBalances == Spec => []OtherBalancesHideEvents
BY LogsGrow, OtherBalances, PTL
-----------------------------------------------------------------------------
(* Powers of Base.                                                         *)

LEMMA LeastElement ==
    ASSUME NEW T, T \subseteq Nat, T # {}
    PROVE  \E x \in T : \A y \in T : x <= y
<1> DEFINE R == OpToRel(<, Nat)
<1>1. PICK x \in T : \A y \in T : <<y, x>> \notin R
  <2>1. IsWellFoundedOn(R, Nat)
    BY NatLessThanWellFounded
  <2> HIDE DEF R
  <2> QED
    BY <2>1, WFMin
<1>2. \A y \in T : ~(y < x)
  BY <1>1 DEF OpToRel
<1> QED
  BY <1>2

(* The first n powers.                                                     *)
PowersUpTo(n, g) ==
    g \in [0..n -> Nat] /\ g[0] = 1 /\ \A i \in 1..n : g[i] = Base * g[i - 1]

LEMMA PowersExist == \A n \in Nat : \E g : PowersUpTo(n, g)
<1> DEFINE Bad == {n \in Nat : ~\E g : PowersUpTo(n, g)}
<1> SUFFICES ASSUME Bad # {} PROVE FALSE
  OBVIOUS
<1>1. PICK n \in Bad : \A m \in Bad : n <= m
  BY LeastElement
<1>2. n # 0
  <2>1. PowersUpTo(0, [i \in 0..0 |-> 1])
    BY DEF PowersUpTo
  <2> QED
    BY <2>1
<1>3. PICK g : PowersUpTo(n - 1, g)
  BY <1>1, <1>2
<1> DEFINE h == [i \in 0..n |-> IF i < n THEN g[i] ELSE Base * g[n - 1]]
<1>4. PowersUpTo(n, h)
  BY <1>2, <1>3, EncodingAssumption DEF PowersUpTo
<1> QED
  BY <1>4

LEMMA PowersAgree ==
    ASSUME NEW n \in Nat, NEW m \in Nat, NEW g, NEW h, PowersUpTo(n, g), PowersUpTo(m, h)
    PROVE  \A i \in Nat : i <= n /\ i <= m => g[i] = h[i]
<1> DEFINE Bad == {i \in Nat : i <= n /\ i <= m /\ g[i] # h[i]}
<1> SUFFICES ASSUME Bad # {} PROVE FALSE
  OBVIOUS
<1>1. PICK i \in Bad : \A j \in Bad : i <= j
  BY LeastElement
<1>2. i # 0
  BY DEF PowersUpTo
<1>3. g[i - 1] = h[i - 1]
  BY <1>1, <1>2
<1>4. g[i] = Base * g[i - 1] /\ h[i] = Base * h[i - 1]
  BY <1>2 DEF PowersUpTo
<1> QED
  BY <1>3, <1>4

(* Power is the function that its recursive definition describes.          *)
LEMMA PowerDef == Power = [k \in Nat |-> IF k = 0 THEN 1 ELSE Base * Power[k - 1]]
<1> DEFINE first(k) == CHOOSE g : PowersUpTo(k, g)
           f == [k \in Nat |-> first(k)[k]]
<1>1. \A k \in Nat : PowersUpTo(k, first(k))
  BY PowersExist
<1>2. \A k \in Nat : f[k] = IF k = 0 THEN 1 ELSE Base * f[k - 1]
  <2> SUFFICES ASSUME NEW k \in Nat PROVE f[k] = IF k = 0 THEN 1 ELSE Base * f[k - 1]
    OBVIOUS
  <2>1. CASE k = 0
    BY <1>1, <2>1 DEF PowersUpTo
  <2>2. CASE k # 0
    <3>1. k - 1 \in Nat /\ PowersUpTo(k, first(k)) /\ PowersUpTo(k - 1, first(k - 1))
      BY <1>1, <2>2
    <3> HIDE DEF first
    <3>2. first(k)[k] = Base * first(k)[k - 1]
      BY <2>2, <3>1 DEF PowersUpTo
    <3>3. first(k)[k - 1] = first(k - 1)[k - 1]
      BY <3>1, PowersAgree
    <3> QED
      BY <2>2, <3>1, <3>2, <3>3
  <2> QED
    BY <2>1, <2>2
<1>3. f = [k \in Nat |-> IF k = 0 THEN 1 ELSE Base * f[k - 1]]
  <2> HIDE DEF f
  <2>1. f = [k \in Nat |-> f[k]]
    BY DEF f
  <2> QED
    BY <1>2, <2>1
<1> HIDE DEF f
<1>4. \E p : p = [k \in Nat |-> IF k = 0 THEN 1 ELSE Base * p[k - 1]]
  BY <1>3
<1> QED
  BY <1>4 DEF Power

LEMMA PowerLaws ==
    /\ Power[0] = 1
    /\ \A k \in Nat : Power[k + 1] = Base * Power[k]
    /\ \A k \in Nat : Power[k] \in Nat \ {0}
<1>1. Power[0] = 1
  BY PowerDef
<1>2. \A k \in Nat : Power[k + 1] = Base * Power[k]
  <2> SUFFICES ASSUME NEW k \in Nat PROVE Power[k + 1] = Base * Power[k]
    OBVIOUS
  <2>1. k + 1 \in Nat /\ k + 1 # 0 /\ (k + 1) - 1 = k
    OBVIOUS
  <2> QED
    BY <2>1, PowerDef
<1>3. \A k \in Nat : Power[k] \in Nat \ {0}
  <2> DEFINE Bad == {k \in Nat : Power[k] \notin Nat \ {0}}
  <2> SUFFICES ASSUME Bad # {} PROVE FALSE
    OBVIOUS
  <2>1. PICK k \in Bad : \A j \in Bad : k <= j
    BY LeastElement
  <2>2. k # 0
    BY <1>1
  <2>3. k - 1 \in Nat /\ Power[k - 1] \in Nat \ {0}
    BY <2>1, <2>2
  <2>4. Power[k] = Base * Power[k - 1]
    BY <1>2, <2>3
  <2> QED
    BY <2>3, <2>4, EncodingAssumption
<1> QED
  BY <1>1, <1>2, <1>3

LEMMA PowerSum == \A i, k \in Nat : Power[i + k] = Power[i] * Power[k]
<1> SUFFICES ASSUME NEW i \in Nat PROVE \A k \in Nat : Power[i + k] = Power[i] * Power[k]
  OBVIOUS
<1> DEFINE Bad == {k \in Nat : Power[i + k] # Power[i] * Power[k]}
<1> SUFFICES ASSUME Bad # {} PROVE FALSE
  OBVIOUS
<1>1. PICK k \in Bad : \A j \in Bad : k <= j
  BY LeastElement
<1>2. k # 0
  BY PowerLaws
<1> DEFINE j == k - 1
<1>3. j \in Nat /\ Power[i + j] = Power[i] * Power[j] /\ i + j \in Nat
  BY <1>1, <1>2
<1>4. Power[k] = Base * Power[j] /\ Power[i + k] = Base * Power[i + j]
  <2>1. j + 1 = k /\ (i + j) + 1 = i + k
    BY <1>2
  <2> QED
    BY <1>3, <2>1, PowerLaws
<1>5. Power[i] \in Nat /\ Power[j] \in Nat /\ Base \in Nat
  BY <1>3, PowerLaws, EncodingAssumption
<1> HIDE DEF j
<1>6. Power[i + k] = Power[i] * Power[k]
  BY <1>3, <1>4, <1>5
<1> QED
  BY <1>6

LEMMA PowerGrows ==
    /\ \A i, j \in Nat : i < j => Power[i] < Power[j]
    /\ \A n \in Nat : n < Power[n]
<1>1. \A k \in Nat : Power[k] < Power[k + 1]
  <2> SUFFICES ASSUME NEW k \in Nat PROVE Power[k] < Power[k + 1]
    OBVIOUS
  <2>1. Power[k + 1] = Base * Power[k] /\ Power[k] \in Nat \ {0} /\ Base >= 2 /\ Base \in Nat
    BY PowerLaws, EncodingAssumption
  <2> QED
    BY <2>1
<1>2. \A n \in Nat : n < Power[n]
  <2> DEFINE Bad == {n \in Nat : ~(n < Power[n])}
  <2> SUFFICES ASSUME Bad # {} PROVE FALSE
    OBVIOUS
  <2>1. PICK n \in Bad : \A j \in Bad : n <= j
    BY LeastElement
  <2>2. n # 0
    BY PowerLaws
  <2>3. n - 1 \in Nat /\ n - 1 < Power[n - 1] /\ (n - 1) + 1 = n
    BY <2>1, <2>2
  <2>4. Power[n - 1] < Power[n] /\ Power[n - 1] \in Nat /\ Power[n] \in Nat
    BY <1>1, <2>3, PowerLaws
  <2> QED
    BY <2>3, <2>4
<1>3. ASSUME NEW i \in Nat, NEW j \in Nat, i < j
      PROVE  Power[i] < Power[j]
  <2>1. j - i \in Nat /\ i + (j - i) = j /\ j - i >= 1
    BY <1>3
  <2>2. Power[j] = Power[i] * Power[j - i]
    BY <2>1, PowerSum
  <2>3. Power[j - i] > 1 /\ Power[j - i] \in Nat /\ Power[i] \in Nat \ {0}
    BY <1>2, <2>1, PowerLaws
  <2> QED
    BY <2>2, <2>3
<1> QED
  BY <1>2, <1>3
-----------------------------------------------------------------------------
(* Division, and the digits of a number in Base.                           *)

LEMMA DivMod ==
    ASSUME NEW x \in Nat, NEW g \in Nat \ {0}
    PROVE  /\ x \div g \in Nat /\ x % g \in Nat /\ x % g < g
           /\ x = g * (x \div g) + (x % g)
  OBVIOUS

LEMMA DivUnique ==
    ASSUME NEW g \in Nat \ {0}, NEW q \in Nat, NEW r \in Nat, r < g
    PROVE  (g * q + r) \div g = q /\ (g * q + r) % g = r
<1> DEFINE x == g * q + r
<1>1. x \in Nat
  OBVIOUS
<1> HIDE DEF x
<1>2. /\ x \div g \in Nat /\ x % g \in Nat /\ x % g < g
      /\ x = g * (x \div g) + (x % g)
  BY <1>1, DivMod
<1> DEFINE p == x \div g
           s == x % g
<1>3. p \in Nat /\ s \in Nat /\ s < g /\ g * p + s = g * q + r
  BY <1>2 DEF x
<1> HIDE DEF p, s
<1>4. p = q
  <2>1. CASE p < q
    <3>1. g * p + g <= g * q
      <4>1. q = p + 1 + (q - p - 1) /\ q - p - 1 \in Nat
        BY <1>3, <2>1
      <4>2. \A d \in Nat : g * (p + 1 + d) = g * p + g + g * d /\ g * d >= 0
        BY <1>3
      <4> QED BY <4>1, <4>2, <1>3
    <3> QED BY <3>1, <1>3
  <2>2. CASE q < p
    <3>1. g * q + g <= g * p
      <4>1. p = q + 1 + (p - q - 1) /\ p - q - 1 \in Nat
        BY <1>3, <2>2
      <4>2. \A d \in Nat : g * (q + 1 + d) = g * q + g + g * d /\ g * d >= 0
        BY <1>3
      <4> QED BY <4>1, <4>2, <1>3
    <3> QED BY <3>1, <1>3
  <2> QED BY <2>1, <2>2, <1>3
<1>5. s = r
  BY <1>3, <1>4
<1> QED
  BY <1>4, <1>5 DEF p, s, x

LEMMA DivDiv ==
    ASSUME NEW n \in Nat, NEW a \in Nat \ {0}, NEW b \in Nat \ {0}
    PROVE  (n \div a) \div b = n \div (a * b)
<1> DEFINE q == n \div a
           r == n % a
           u == q \div b
           v == q % b
<1>1. q \in Nat /\ r \in Nat /\ r < a /\ n = a * q + r
  BY DivMod
<1>2. u \in Nat /\ v \in Nat /\ v < b /\ q = b * u + v
  <2> HIDE DEF q
  <2> QED BY <1>1, DivMod
<1>3. u = (n \div a) \div b
  OBVIOUS
<1> HIDE DEF q, r, u, v
<1>4. n = (a * b) * u + (a * v + r)
  BY <1>1, <1>2
<1>5. a * v + r \in Nat /\ a * v + r < a * b
  <2>1. b = v + 1 + (b - v - 1) /\ b - v - 1 \in Nat
    BY <1>2
  <2>2. \A d \in Nat : a * (v + 1 + d) = a * v + a + a * d /\ a * d >= 0 /\ a * v \in Nat
    BY <1>2
  <2> QED BY <1>1, <2>1, <2>2
<1>6. a * b \in Nat \ {0}
  OBVIOUS
<1>7. n \div (a * b) = u
  <2> DEFINE g == a * b
             t == a * v + r
  <2>1. n = g * u + t /\ g \in Nat \ {0} /\ t \in Nat /\ t < g
    BY <1>4, <1>5, <1>6
  <2> HIDE DEF g, t
  <2>2. n \div g = u
    BY <1>2, <2>1, DivUnique
  <2> QED BY <2>2 DEF g
<1> QED
  BY <1>3, <1>7

(* The i-th digit of n, from the low end.                                  *)
Digit(n, i) == (n \div Power[i - 1]) % Base

LEMMA DigitType ==
    ASSUME NEW n \in Nat, NEW i \in Nat \ {0}
    PROVE  Digit(n, i) \in Nat /\ Digit(n, i) < Base
<1>1. Power[i - 1] \in Nat \ {0}
  BY PowerLaws
<1>2. n \div Power[i - 1] \in Nat
  BY <1>1, DivMod
<1> QED
  BY <1>2, DivMod, EncodingAssumption DEF Digit

LEMMA NextDigit ==
    ASSUME NEW n \in Nat, NEW j \in Nat
    PROVE  n \div Power[j] = Base * (n \div Power[j + 1]) + Digit(n, j + 1)
<1>1. Power[j] \in Nat \ {0} /\ Power[j + 1] = Power[j] * Base
  BY PowerLaws, EncodingAssumption
<1> DEFINE q == n \div Power[j]
<1>2. q \in Nat
  BY <1>1, DivMod
<1>3. n \div Power[j + 1] = q \div Base
  <2>1. q \div Base = n \div (Power[j] * Base)
    BY <1>1, DivDiv, EncodingAssumption
  <2> QED BY <1>1, <2>1
<1>4. Digit(n, j + 1) = q % Base
  <2>1. (j + 1) - 1 = j
    OBVIOUS
  <2> QED BY <2>1 DEF Digit
<1> HIDE DEF q
<1>5. q = Base * (q \div Base) + (q % Base)
  BY <1>2, DivMod, EncodingAssumption
<1> QED
  BY <1>3, <1>4, <1>5 DEF q

LEMMA DivZero ==
    ASSUME NEW x \in Nat, NEW g \in Nat, x < g
    PROVE  x \div g = 0
<1>1. g * 0 + x = x /\ g # 0
  OBVIOUS
<1>2. (g * 0 + x) \div g = 0
  BY <1>1, DivUnique
<1> QED
  BY <1>1, <1>2

(* As many digits as a number has determine it.                            *)
LEMMA DigitsUnique ==
    ASSUME NEW L \in Nat, NEW m \in Nat, NEW n \in Nat, m < Power[L], n < Power[L],
           \A i \in 1..L : Digit(m, i) = Digit(n, i)
    PROVE  m = n
<1> DEFINE Bad == {k \in 0..L : m \div Power[L - k] # n \div Power[L - k]}
<1>1. Bad = {}
  <2> SUFFICES ASSUME Bad # {} PROVE FALSE
    OBVIOUS
  <2>1. PICK k \in Bad : \A j \in Bad : k <= j
    <3>1. Bad \subseteq Nat
      OBVIOUS
    <3> HIDE DEF Bad
    <3> QED BY <3>1, LeastElement
  <2>2. k # 0
    <3>1. m \div Power[L] = 0 /\ n \div Power[L] = 0 /\ L - 0 = L
      BY PowerLaws, DivZero
    <3> QED BY <3>1
  <2> DEFINE j == L - k
  <2>3. j \in Nat /\ j + 1 \in 1..L /\ k - 1 \in 0..L /\ L - (k - 1) = j + 1
    BY <2>2
  <2>4. m \div Power[j + 1] = n \div Power[j + 1]
    BY <2>1, <2>3
  <2>5. Digit(m, j + 1) = Digit(n, j + 1)
    BY <2>3
  <2> HIDE DEF j
  <2>6. m \div Power[j] = n \div Power[j]
    BY <2>3, <2>4, <2>5, NextDigit
  <2> QED BY <2>6 DEF j
<1>2. m \div Power[0] = n \div Power[0]
  <2>1. L \in 0..L /\ L - L = 0
    OBVIOUS
  <2> QED BY <1>1, <2>1
<1>3. m \div 1 = m /\ n \div 1 = n
  OBVIOUS
<1> QED
  BY <1>2, <1>3, PowerLaws
-----------------------------------------------------------------------------
(* The length of a number in bytes.                                        *)

LEMMA ByteLenType ==
    ASSUME NEW n \in Nat
    PROVE  /\ ByteLen(n) \in Nat
           /\ n < Power[ByteLen(n)]
           /\ ByteLen(n) > 0 => n >= Power[ByteLen(n) - 1]
<1> DEFINE Enough == {k \in Nat : n < Power[k]}
           Fits(k) == n < Power[k] /\ (k > 0 => n >= Power[k - 1])
<1>1. n \in Enough
  BY PowerGrows
<1>2. PICK k \in Enough : \A j \in Enough : k <= j
  BY <1>1, LeastElement
<1>3. k \in 0..n
  BY <1>1, <1>2
<1>4. Fits(k)
  <2>1. ASSUME k > 0 PROVE n >= Power[k - 1]
    <3>1. k - 1 \in Nat /\ k - 1 \notin Enough
      BY <1>2, <2>1
    <3>2. Power[k - 1] \in Nat
      BY <3>1, PowerLaws
    <3> QED
      BY <3>1, <3>2
  <2> QED
    BY <1>2, <2>1
<1> HIDE DEF Fits
<1>5. ByteLen(n) \in 0..n /\ Fits(ByteLen(n))
  <2>1. ByteLen(n) = CHOOSE j \in 0..n : Fits(j)
    BY DEF ByteLen, Fits
  <2> QED
    BY <1>3, <1>4, <2>1
<1> QED
  BY <1>5 DEF Fits

LEMMA ByteLenUnique ==
    ASSUME NEW n \in Nat, NEW k \in Nat, n < Power[k], k > 0 => n >= Power[k - 1]
    PROVE  ByteLen(n) = k
<1> DEFINE l == ByteLen(n)
<1>1. l \in Nat /\ n < Power[l] /\ (l > 0 => n >= Power[l - 1])
  BY ByteLenType
<1> HIDE DEF l
<1>2. ASSUME NEW i \in Nat, NEW j \in Nat, i < j, n < Power[i], n >= Power[j - 1]
      PROVE  FALSE
  <2>1. j - 1 \in Nat /\ i <= j - 1
    BY <1>2
  <2>2. Power[i] <= Power[j - 1] /\ Power[i] \in Nat /\ Power[j - 1] \in Nat
    BY <2>1, PowerGrows, PowerLaws
  <2> QED
    BY <1>2, <2>2
<1>3. l = k
  BY <1>1, <1>2
<1> QED
  BY <1>3 DEF l

(* Only 0 has no bytes.                                                    *)
LEMMA ByteLenZero ==
    ASSUME NEW n \in Nat
    PROVE  ByteLen(n) = 0 <=> n = 0
<1>1. ASSUME n = 0 PROVE ByteLen(n) = 0
  BY <1>1, PowerLaws, ByteLenUnique
<1>2. ASSUME ByteLen(n) = 0 PROVE n = 0
  BY <1>2, ByteLenType, PowerLaws
<1> QED
  BY <1>1, <1>2

(* k bytes fit every number below the k-th power.                          *)
LEMMA ByteLenBound ==
    ASSUME NEW n \in Nat, NEW k \in Nat, n < Power[k]
    PROVE  ByteLen(n) <= k
<1> DEFINE l == ByteLen(n)
<1>1. l \in Nat /\ (l > 0 => n >= Power[l - 1])
  BY ByteLenType
<1> HIDE DEF l
<1>2. ASSUME l > k PROVE FALSE
  <2>1. l - 1 \in Nat /\ k <= l - 1
    BY <1>1, <1>2
  <2> DEFINE i == l - 1
  <2>2. i \in Nat /\ k <= i /\ n >= Power[i]
    BY <1>1, <1>2, <2>1
  <2> HIDE DEF i
  <2>3. Power[k] \in Nat /\ Power[i] \in Nat
    BY <2>2, PowerLaws
  <2>4. CASE k = i
    BY <2>2, <2>3, <2>4
  <2>5. CASE k < i
    <3>1. Power[k] < Power[i]
      BY <2>2, <2>5, PowerGrows
    <3> QED
      BY <2>2, <2>3, <3>1
  <2> QED
    BY <2>2, <2>4, <2>5
<1> QED
  BY <1>1, <1>2 DEF l
-----------------------------------------------------------------------------
(* Factors and summands that are powers of Base.                           *)

LEMMA MulMonotone ==
    ASSUME NEW x \in Nat, NEW y \in Nat, NEW g \in Nat \ {0}
    PROVE  /\ x < y => x * g + g <= y * g
           /\ x <= y => x * g <= y * g
           /\ x * g = y * g => x = y
<1>1. ASSUME NEW u \in Nat, NEW v \in Nat, u < v PROVE u * g + g <= v * g
  <2>1. v = u + 1 + (v - u - 1) /\ v - u - 1 \in Nat
    BY <1>1
  <2>2. \A d \in Nat : (u + 1 + d) * g = u * g + g + d * g /\ d * g >= 0
    OBVIOUS
  <2> QED
    BY <2>1, <2>2
<1>2. \A u \in Nat : u * g \in Nat
  OBVIOUS
<1> QED
  BY <1>1, <1>2

(* Below a factor Power[k] there are zeros, above it the digits of m.      *)
LEMMA ShiftedDigits ==
    ASSUME NEW m \in Nat, NEW k \in Nat, NEW i \in Nat \ {0}
    PROVE  Digit(m * Power[k], i) = IF i <= k THEN 0 ELSE Digit(m, i - k)
<1> DEFINE n == m * Power[k]
<1>0. n \in Nat /\ Power[k] \in Nat \ {0} /\ Power[i - 1] \in Nat \ {0}
  BY PowerLaws
<1>1. CASE i <= k
  <2> DEFINE e == k - i
             q == m * Power[e]
  <2>1. e \in Nat /\ i + e = k /\ (i - 1) + 1 = i /\ i - 1 \in Nat
    BY <1>1
  <2>2. Power[e] \in Nat /\ q \in Nat
    BY <2>1, PowerLaws
  <2>3. Power[k] = (Power[i - 1] * Base) * Power[e]
    <3>1. Power[k] = Power[i] * Power[e] /\ Power[i] = Base * Power[i - 1]
      <4>1. Power[i + e] = Power[i] * Power[e]
        BY <2>1, PowerSum
      <4>2. Power[(i - 1) + 1] = Base * Power[i - 1]
        BY <2>1, PowerLaws
      <4> QED
        BY <2>1, <4>1, <4>2
    <3> QED
      BY <3>1, <1>0, <2>2, EncodingAssumption
  <2>4. n = Power[i - 1] * (Base * q) + 0 /\ Base * q \in Nat
    BY <1>0, <2>2, <2>3, EncodingAssumption
  <2> HIDE DEF q, n
  <2>5. n \div Power[i - 1] = Base * q
    BY <1>0, <2>4, DivUnique
  <2>6. (Base * q + 0) % Base = 0
    BY <2>2, DivUnique, EncodingAssumption
  <2>7. Base * q + 0 = Base * q
    BY <2>4
  <2> QED
    BY <1>1, <2>5, <2>6, <2>7 DEF Digit, n
<1>2. CASE i > k
  <2> DEFINE e == i - 1 - k
  <2>1. e \in Nat /\ k + e = i - 1 /\ (i - k) - 1 = e
    BY <1>2
  <2>2. Power[i - 1] = Power[k] * Power[e] /\ Power[e] \in Nat \ {0}
    BY <2>1, PowerSum, PowerLaws
  <2>3. n = Power[k] * m + 0
    BY <1>0
  <2> HIDE DEF n
  <2>4. n \div Power[k] = m
    BY <1>0, <2>3, DivUnique
  <2>5. n \div Power[i - 1] = m \div Power[e]
    BY <1>0, <2>2, <2>4, DivDiv
  <2> QED
    BY <1>2, <2>1, <2>5 DEF Digit, n
<1> QED
  BY <1>1, <1>2

LEMMA ShiftedByteLen ==
    ASSUME NEW m \in Nat \ {0}, NEW k \in Nat
    PROVE  ByteLen(m * Power[k]) = ByteLen(m) + k
<1> DEFINE l == ByteLen(m)
           n == m * Power[k]
<1>1. l \in Nat /\ l > 0 /\ m < Power[l] /\ m >= Power[l - 1]
  BY ByteLenType, ByteLenZero
<1> HIDE DEF l
<1>2. /\ Power[l + k] = Power[l] * Power[k]
      /\ Power[l + k - 1] = Power[l - 1] * Power[k]
      /\ Power[l] \in Nat /\ Power[l - 1] \in Nat /\ Power[k] \in Nat \ {0}
  <2> DEFINE i == l - 1
             j == l + k - 1
  <2>1. i \in Nat /\ i + k = j
    BY <1>1
  <2> HIDE DEF i, j
  <2>2. Power[l + k] = Power[l] * Power[k]
    BY <1>1, PowerSum
  <2>3. Power[i + k] = Power[i] * Power[k]
    BY <2>1, PowerSum
  <2>4. Power[j] = Power[i] * Power[k]
    BY <2>1, <2>3, Zenon
  <2>5. Power[l] \in Nat /\ Power[i] \in Nat /\ Power[k] \in Nat \ {0}
    BY <1>1, <2>1, PowerLaws
  <2> QED
    BY <2>2, <2>4, <2>5 DEF i, j
<1>3. n < Power[l + k] /\ n >= Power[l + k - 1]
  BY <1>1, <1>2, MulMonotone
<1>4. n \in Nat /\ l + k \in Nat
  BY <1>1, <1>2
<1>5. ByteLen(n) = l + k
  <2> DEFINE t == l + k
  <2> HIDE DEF n
  <2>1. t \in Nat /\ n < Power[t] /\ n >= Power[t - 1] /\ n \in Nat
    <3>1. t - 1 = l + k - 1
      BY <1>1
    <3> QED
      BY <1>3, <1>4, <3>1
  <2> HIDE DEF t
  <2>2. ByteLen(n) = t
    BY <2>1, ByteLenUnique
  <2> QED
    BY <2>2 DEF t
<1> QED
  BY <1>5 DEF l, n

(* A number a with another one, b, on top of its bytes.                    *)
LEMMA JoinedDigits ==
    ASSUME NEW a \in Nat, NEW b \in Nat, NEW l \in Nat, a < Power[l], NEW i \in Nat \ {0}
    PROVE  Digit(a + Power[l] * b, i) = IF i <= l THEN Digit(a, i) ELSE Digit(b, i - l)
<1> DEFINE n == a + Power[l] * b
<1>0. n \in Nat /\ Power[l] \in Nat \ {0} /\ Power[i - 1] \in Nat \ {0} /\ Base \in Nat \ {0}
  <2>1. Power[l] \in Nat \ {0} /\ Power[i - 1] \in Nat \ {0} /\ Base \in Nat \ {0}
    BY PowerLaws, EncodingAssumption
  <2> QED
    BY <2>1
<1>1. CASE i <= l
  <2> DEFINE e == l - i
             p == Power[i - 1]
             q == a \div p
             r == a % p
             d == Power[e] * b
  <2>1. e \in Nat /\ i + e = l /\ (i - 1) + 1 = i /\ i - 1 \in Nat
    BY <1>1
  <2>2. Power[e] \in Nat /\ d \in Nat
    BY <2>1, PowerLaws
  <2>3. Power[l] = (p * Base) * Power[e]
    <3>1. Power[l] = Power[i] * Power[e] /\ Power[i] = Base * Power[i - 1]
      <4>1. Power[i + e] = Power[i] * Power[e]
        BY <2>1, PowerSum
      <4>2. Power[(i - 1) + 1] = Base * Power[i - 1]
        BY <2>1, PowerLaws
      <4> QED
        BY <2>1, <4>1, <4>2
    <3> QED
      BY <3>1, <1>0, <2>2
  <2>4. q \in Nat /\ r \in Nat /\ r < p /\ a = p * q + r /\ p \in Nat \ {0}
    BY <1>0, DivMod
  <2>5. q = a \div p
    OBVIOUS
  <2>6. d = Power[e] * b
    OBVIOUS
  <2>7. n = a + Power[l] * b
    OBVIOUS
  <2> HIDE DEF q, r, d, n, p, e
  <2>8. n = p * (q + Base * d) + r
    <3>1. Power[l] * b = p * (Base * d)
      BY <1>0, <2>2, <2>3, <2>4, <2>6
    <3>2. p * (q + Base * d) = p * q + p * (Base * d) /\ p * (Base * d) \in Nat /\ p * q \in Nat
      BY <1>0, <2>2, <2>4
    <3> QED
      BY <2>4, <2>7, <3>1, <3>2
  <2>9. q + Base * d \in Nat
    BY <1>0, <2>2, <2>4
  <2>10. n \div p = q + Base * d
    BY <2>4, <2>8, <2>9, DivUnique
  <2>11. (q + Base * d) % Base = q % Base
    <3> DEFINE u == q \div Base
               v == q % Base
    <3>1. u \in Nat /\ v \in Nat /\ v < Base /\ q = Base * u + v
      BY <1>0, <2>4, DivMod
    <3>2. v = q % Base
      OBVIOUS
    <3> HIDE DEF u, v
    <3>3. q + Base * d = Base * (u + d) + v /\ u + d \in Nat
      BY <1>0, <2>2, <3>1
    <3>4. (Base * (u + d) + v) % Base = v
      BY <1>0, <3>1, <3>3, DivUnique
    <3> QED
      BY <3>2, <3>3, <3>4
  <2> QED
    BY <1>1, <2>5, <2>10, <2>11 DEF Digit, n, p
<1>2. CASE i > l
  <2> DEFINE e == i - 1 - l
  <2>1. e \in Nat /\ l + e = i - 1 /\ (i - l) - 1 = e
    BY <1>2
  <2>2. Power[i - 1] = Power[l] * Power[e] /\ Power[e] \in Nat \ {0}
    BY <2>1, PowerSum, PowerLaws
  <2>3. n = Power[l] * b + a
    BY <1>0
  <2> HIDE DEF n
  <2>4. n \div Power[l] = b
    BY <1>0, <2>3, DivUnique
  <2>5. n \div Power[i - 1] = b \div Power[e]
    BY <1>0, <2>2, <2>4, DivDiv
  <2> QED
    BY <1>2, <2>1, <2>5 DEF Digit, n
<1> QED
  BY <1>1, <1>2

LEMMA JoinedByteLen ==
    ASSUME NEW a \in Nat, NEW b \in Nat
    PROVE  ByteLen(a + Power[ByteLen(a)] * b) = ByteLen(a) + ByteLen(b)
<1> DEFINE l == ByteLen(a)
           k == ByteLen(b)
           n == a + Power[l] * b
<1>1. l \in Nat /\ a < Power[l] /\ Power[l] \in Nat \ {0}
  BY ByteLenType, PowerLaws
<1>2. k \in Nat /\ b < Power[k] /\ Power[k] \in Nat /\ (k > 0 => b >= Power[k - 1])
  BY ByteLenType, PowerLaws
<1>3. l > 0 => a >= Power[l - 1]
  BY ByteLenType
<1>4. k = 0 => b = 0
  BY ByteLenZero
<1> HIDE DEF l, k
<1>5. n \in Nat
  BY <1>1
<1>6. Power[l + k] = Power[l] * Power[k] /\ l + k \in Nat
  BY <1>1, <1>2, PowerSum
<1>7. n < Power[l + k]
  <2>1. b * Power[l] + Power[l] <= Power[k] * Power[l]
    BY <1>1, <1>2, MulMonotone
  <2>2. b * Power[l] = Power[l] * b /\ Power[k] * Power[l] = Power[l] * Power[k]
    BY <1>1, <1>2
  <2> QED
    BY <1>1, <1>2, <1>6, <2>1, <2>2
<1>8. l + k > 0 => n >= Power[l + k - 1]
  <2>1. CASE k = 0
    <3>1. n = a /\ l + k = l /\ l + k - 1 = l - 1
      BY <1>1, <1>4, <2>1
    <3> HIDE DEF n
    <3> QED
      BY <1>3, <3>1
  <2>2. CASE k > 0
    <3>1. k - 1 \in Nat /\ l + (k - 1) = l + k - 1
      BY <1>1, <1>2, <2>2
    <3>2. Power[l + k - 1] = Power[l] * Power[k - 1] /\ Power[k - 1] \in Nat
      BY <1>1, <3>1, PowerSum, PowerLaws
    <3>3. Power[k - 1] * Power[l] <= b * Power[l]
      BY <1>1, <1>2, <2>2, <3>2, MulMonotone
    <3>4. Power[k - 1] * Power[l] = Power[l] * Power[k - 1] /\ b * Power[l] = Power[l] * b
      BY <1>1, <3>2
    <3>5. Power[l] * b \in Nat /\ Power[l] * Power[k - 1] \in Nat
      BY <1>1, <3>2
    <3> QED
      BY <3>2, <3>3, <3>4, <3>5
  <2> QED
    BY <1>2, <2>1, <2>2
<1> HIDE DEF n
<1>9. ByteLen(n) = l + k
  <2> DEFINE t == l + k
  <2>1. t \in Nat /\ n < Power[t] /\ (t > 0 => n >= Power[t - 1]) /\ n \in Nat
    <3>1. t \in Nat /\ n < Power[t] /\ n \in Nat
      BY <1>5, <1>6, <1>7
    <3>2. t > 0 => n >= Power[t - 1]
      BY <1>1, <1>2, <1>8
    <3> QED
      BY <3>1, <3>2
  <2> HIDE DEF t
  <2>2. ByteLen(n) = t
    BY <2>1, ByteLenUnique
  <2> QED
    BY <2>2 DEF t
<1> QED
  BY <1>9 DEF l, k, n
-----------------------------------------------------------------------------
(* The bytes of numbers.                                                   *)

LEMMA BytesAsDigits ==
    ASSUME NEW n \in Nat
    PROVE  /\ Bytes(n) = [i \in 1..ByteLen(n) |-> Digit(n, ByteLen(n) - i + 1)]
           /\ BigToLittleEndianBytes(n) = [i \in 1..ByteLen(n) |-> Digit(n, i)]
<1> DEFINE l == ByteLen(n)
<1>1. l \in Nat
  BY ByteLenType
<1>2. Bytes(n) = [i \in 1..l |-> (n \div Power[l - i]) % Base]
  BY DEF Bytes
<1> HIDE DEF l
<1>3. \A i \in 1..l : (n \div Power[l - i]) % Base = Digit(n, l - i + 1)
  <2> SUFFICES ASSUME NEW i \in 1..l
               PROVE  (n \div Power[l - i]) % Base = Digit(n, l - i + 1)
    OBVIOUS
  <2>1. (l - i + 1) - 1 = l - i
    BY <1>1
  <2> QED
    BY <2>1 DEF Digit
<1>4. Bytes(n) = [i \in 1..l |-> Digit(n, l - i + 1)]
  BY <1>2, <1>3
<1>5. Len(Bytes(n)) = l
  BY <1>1, <1>4
<1>6. BigToLittleEndianBytes(n) = [i \in 1..l |-> Bytes(n)[(l - i) + 1]]
  BY <1>5 DEF BigToLittleEndianBytes, Reverse
<1>7. \A i \in 1..l : Bytes(n)[(l - i) + 1] = Digit(n, i)
  <2> SUFFICES ASSUME NEW i \in 1..l PROVE Bytes(n)[(l - i) + 1] = Digit(n, i)
    OBVIOUS
  <2>1. (l - i) + 1 \in 1..l /\ l - ((l - i) + 1) + 1 = i
    BY <1>1
  <2> QED
    BY <1>4, <2>1
<1> QED
  BY <1>4, <1>6, <1>7 DEF l

LEMMA LittleEndianType ==
    ASSUME NEW n \in Nat
    PROVE  /\ BigToLittleEndianBytes(n) \in Seq(Nat)
           /\ Len(BigToLittleEndianBytes(n)) = ByteLen(n)
<1>1. \A i \in 1..ByteLen(n) : Digit(n, i) \in Nat
  BY ByteLenType, DigitType
<1>2. BigToLittleEndianBytes(n) = [i \in 1..ByteLen(n) |-> Digit(n, i)] /\ ByteLen(n) \in Nat
  BY BytesAsDigits, ByteLenType
<1>3. BigToLittleEndianBytes(n) \in [1..ByteLen(n) -> Nat]
  BY <1>1, <1>2
<1> QED
  BY <1>2, <1>3

LEMMA LittleEndianUnique ==
    ASSUME NEW m \in Nat, NEW n \in Nat,
           BigToLittleEndianBytes(m) = BigToLittleEndianBytes(n)
    PROVE  m = n
<1>1. ByteLen(m) = ByteLen(n)
  BY LittleEndianType
<1>2. /\ ByteLen(n) \in Nat
      /\ m < Power[ByteLen(n)] /\ n < Power[ByteLen(n)]
  BY <1>1, ByteLenType
<1>3. \A i \in 1..ByteLen(n) : Digit(m, i) = Digit(n, i)
  <2> SUFFICES ASSUME NEW i \in 1..ByteLen(n) PROVE Digit(m, i) = Digit(n, i)
    OBVIOUS
  <2>1. BigToLittleEndianBytes(m)[i] = Digit(m, i) /\ BigToLittleEndianBytes(n)[i] = Digit(n, i)
    BY <1>1, BytesAsDigits
  <2> QED
    BY <2>1
<1> QED
  BY <1>2, <1>3, DigitsUnique

(* One number after the other is one number.                               *)
LEMMA LittleEndianJoined ==
    ASSUME NEW a \in Nat, NEW b \in Nat
    PROVE  BigToLittleEndianBytes(a) \o BigToLittleEndianBytes(b)
             = BigToLittleEndianBytes(a + Power[ByteLen(a)] * b)
<1> DEFINE n == a + Power[ByteLen(a)] * b
           s == BigToLittleEndianBytes(a)
           t == BigToLittleEndianBytes(b)
           u == BigToLittleEndianBytes(n)
           l == ByteLen(a)
           k == ByteLen(b)
<1>1. l \in Nat /\ k \in Nat /\ a < Power[l]
  BY ByteLenType
<1>2. n \in Nat
  <2>1. Power[ByteLen(a)] \in Nat
    BY <1>1, PowerLaws
  <2> QED
    BY <2>1
<1>3. ByteLen(n) = l + k
  BY JoinedByteLen
<1>4. \A i \in Nat \ {0} : Digit(n, i) = IF i <= l THEN Digit(a, i) ELSE Digit(b, i - l)
  BY <1>1, JoinedDigits
<1>5. /\ s \in Seq(Nat) /\ Len(s) = l /\ \A i \in 1..l : s[i] = Digit(a, i)
      /\ t \in Seq(Nat) /\ Len(t) = k /\ \A i \in 1..k : t[i] = Digit(b, i)
  BY LittleEndianType, BytesAsDigits
<1> HIDE DEF n, s, t
<1>6. u \in Seq(Nat) /\ Len(u) = l + k /\ \A i \in 1..l + k : u[i] = Digit(n, i)
  BY <1>2, <1>3, LittleEndianType, BytesAsDigits
<1> HIDE DEF u, l, k
<1>7. /\ s \o t \in Seq(Nat) /\ Len(s \o t) = l + k
      /\ \A i \in 1..l + k : (s \o t)[i] = IF i <= l THEN s[i] ELSE t[i - l]
  BY <1>5, ConcatProperties
<1>8. \A i \in 1..l + k : (s \o t)[i] = u[i]
  <2> SUFFICES ASSUME NEW i \in 1..l + k PROVE (s \o t)[i] = u[i]
    OBVIOUS
  <2>1. i \in Nat \ {0} /\ u[i] = Digit(n, i)
    BY <1>1, <1>6
  <2>2. CASE i <= l
    <3>1. (s \o t)[i] = s[i] /\ i \in 1..l
      BY <1>1, <1>7, <2>1, <2>2
    <3> QED
      BY <1>4, <1>5, <2>1, <2>2, <3>1
  <2>3. CASE ~(i <= l)
    <3>1. i - l \in 1..k
      BY <1>1, <2>3
    <3>2. (s \o t)[i] = t[i - l]
      BY <1>7, <2>3
    <3>3. t[i - l] = Digit(b, i - l)
      BY <1>5, <3>1
    <3> QED
      BY <1>4, <2>1, <2>3, <3>2, <3>3
  <2> QED
    BY <2>2, <2>3
<1>9. s \o t = u
  BY <1>6, <1>7, <1>8, SeqEqual
<1> QED
  BY <1>9 DEF s, t, u, n, l

LEMMA Uint64Unique ==
    ASSUME NEW m \in 0..Power[Uint64Len] - 1, NEW n \in 0..Power[Uint64Len] - 1
    PROVE  /\ Uint64ToBytes(m) \in Seq(Nat) /\ Len(Uint64ToBytes(m)) = Uint64Len
           /\ Uint64ToBytes(m) = Uint64ToBytes(n) => m = n
<1> DEFINE L == Uint64Len
<1>1. L \in Nat /\ Power[L] \in Nat /\ m \in Nat /\ n \in Nat /\ m < Power[L] /\ n < Power[L]
  BY EncodingAssumption, PowerLaws
<1>2. \A x : Uint64ToBytes(x) = [i \in 1..L |-> Digit(x, i)]
  BY DEF Uint64ToBytes, Digit
<1> HIDE DEF L
<1>3. \A i \in 1..L : Digit(m, i) \in Nat
  BY <1>1, DigitType
<1>4. Uint64ToBytes(m) \in Seq(Nat) /\ Len(Uint64ToBytes(m)) = L
  BY <1>1, <1>2, <1>3
<1>5. ASSUME Uint64ToBytes(m) = Uint64ToBytes(n) PROVE m = n
  <2>1. \A i \in 1..L : Digit(m, i) = Digit(n, i)
    BY <1>2, <1>5
  <2> QED
    BY <1>1, <2>1, DigitsUnique
<1> QED
  BY <1>4, <1>5 DEF L
-----------------------------------------------------------------------------
(* Fields of one length are found again.                                   *)

LEMMA CutAt ==
    ASSUME NEW s \in Seq(Nat), NEW t \in Seq(Nat), NEW u \in Seq(Nat), NEW v \in Seq(Nat),
           Len(s) = Len(t), s \o u = t \o v
    PROVE  s = t /\ u = v
<1> DEFINE n == Len(s)
           k == Len(u)
           w == s \o u
<1>1. /\ Len(w) = n + k /\ n \in Nat /\ k \in Nat
      /\ \A i \in 1..n + k : w[i] = IF i <= n THEN s[i] ELSE u[i - n]
  <2>1. n \in Nat /\ k \in Nat
    OBVIOUS
  <2>2. Len(w) = n + k
    BY ConcatProperties
  <2>3. \A i \in 1..n + k : w[i] = IF i <= n THEN s[i] ELSE u[i - n]
    BY ConcatProperties
  <2> QED
    BY <2>1, <2>2, <2>3
<1>2. /\ Len(w) = n + Len(v) /\ Len(v) \in Nat
      /\ \A i \in 1..n + Len(v) : w[i] = IF i <= n THEN t[i] ELSE v[i - n]
  <2>1. w = t \o v /\ Len(t) = n /\ Len(v) \in Nat
    OBVIOUS
  <2> HIDE DEF w, n
  <2> QED
    BY <2>1, ConcatProperties
<1> HIDE DEF w
<1>3. Len(v) = k
  <2> HIDE DEF n, k
  <2> QED
    BY <1>1, <1>2
<1>4. s = t
  <2>1. \A i \in 1..n : s[i] = t[i]
    BY <1>1, <1>2
  <2> QED
    BY <2>1, SeqEqual
<1>5. u = v
  <2>1. \A i \in 1..k : u[i] = v[i]
    <3> SUFFICES ASSUME NEW i \in 1..k PROVE u[i] = v[i]
      OBVIOUS
    <3> HIDE DEF n, k
    <3>1. n + i \in 1..n + k /\ ~(n + i <= n) /\ (n + i) - n = i
      BY <1>1
    <3> QED
      BY <1>1, <1>2, <1>3, <3>1
  <2> QED
    BY <1>3, <2>1, SeqEqual
<1> QED
  BY <1>4, <1>5

LEMMA Concatenated ==
    ASSUME NEW s \in Seq(Nat), NEW t \in Seq(Nat)
    PROVE  s \o t \in Seq(Nat) /\ Len(s \o t) = Len(s) + Len(t)
<1>1. s \o t \in Seq(Nat)
  BY ConcatProperties
<1>2. Len(s \o t) = Len(s) + Len(t)
  BY ConcatProperties
<1> QED
  BY <1>1, <1>2

SameTwo(s, u, t, v) == s \o u = t \o v => s = t /\ u = v

LEMMA TwoFields ==
    ASSUME NEW s \in Seq(Nat), NEW t \in Seq(Nat), NEW u \in Seq(Nat), NEW v \in Seq(Nat),
           Len(s) = Len(t) \/ Len(u) = Len(v)
    PROVE  SameTwo(s, u, t, v)
<1> SUFFICES ASSUME s \o u = t \o v PROVE s = t /\ u = v
  BY DEF SameTwo
<1>1. Len(s \o u) = Len(s) + Len(u) /\ Len(t \o v) = Len(t) + Len(v)
  BY Concatenated
<1>2. Len(s) \in Nat /\ Len(t) \in Nat /\ Len(u) \in Nat /\ Len(v) \in Nat
  OBVIOUS
<1>3. Len(s) = Len(t)
  BY <1>1, <1>2
<1> QED
  BY <1>3, CutAt

LEMMA FlattenTwo ==
    ASSUME NEW s, Len(s) = 2
    PROVE  FlattenSeq(s) = s[1] \o s[2]
<1> DEFINE def(f) == f = [i \in 1..Len(s) |-> IF i = 1 THEN s[i] ELSE f[i - 1] \o s[i]]
           g == [i \in 1..2 |-> IF i = 1 THEN s[1] ELSE s[1] \o s[2]]
<1>1. def(g)
  <2>1. \A i \in 1..2 : g[i] = IF i = 1 THEN s[i] ELSE g[i - 1] \o s[i]
    OBVIOUS
  <2>2. g = [i \in 1..2 |-> g[i]]
    OBVIOUS
  <2> HIDE DEF g
  <2> QED
    BY <2>1, <2>2
<1>2. FlattenSeq(s) = (CHOOSE f : def(f))[Len(s)]
  BY DEF FlattenSeq
<1>3. def(CHOOSE f : def(f))
  <2> HIDE DEF g, def
  <2> QED
    BY <1>1
<1> DEFINE f == CHOOSE h : def(h)
<1>4. f = [i \in 1..2 |-> IF i = 1 THEN s[i] ELSE f[i - 1] \o s[i]]
  BY <1>3
<1> HIDE DEF f
<1>5. f[2] = f[1] \o s[2] /\ f[1] = s[1]
  BY <1>4
<1> QED
  BY <1>2, <1>5 DEF f
-----------------------------------------------------------------------------
(* Nonces: written from the left, they are compared as numbers with all    *)
(* NonceLen bytes.                                                         *)

LEMMA NonceBytes ==
    ASSUME NEW m \in Nat \ {0}, m < Power[NonceLen]
    PROVE  /\ ByteLen(m) \in 1..NonceLen
           /\ m * Power[NonceLen - ByteLen(m)] < Power[NonceLen]
           /\ MakeNonce(m) =
                [i \in 1..NonceLen |->
                    Digit(m * Power[NonceLen - ByteLen(m)], NonceLen - i + 1)]
<1> DEFINE L == NonceLen
           a == ByteLen(m)
           n == m * Power[L - a]
<1>1. L \in Nat \ {0} /\ a \in 1..L /\ m < Power[a]
  <2>1. L \in Nat \ {0}
    BY EncodingAssumption
  <2>2. a \in Nat /\ a <= L /\ a # 0 /\ m < Power[a]
    BY <2>1, ByteLenType, ByteLenBound, ByteLenZero
  <2> QED
    BY <2>1, <2>2
<1>2. Bytes(m) = [i \in 1..a |-> Digit(m, a - i + 1)]
  BY BytesAsDigits
<1>3. MakeNonce(m) = [i \in 1..L |-> IF i \in DOMAIN Bytes(m) THEN Bytes(m)[i] ELSE 0]
  BY DEF MakeNonce, Copy
<1> HIDE DEF L, a
<1>4. n < Power[L]
  <2>1. L - a \in Nat /\ a + (L - a) = L /\ a \in Nat
    BY <1>1
  <2>2. Power[L] = Power[a] * Power[L - a] /\ Power[L - a] \in Nat \ {0} /\ Power[a] \in Nat
    <3> DEFINE k == L - a
    <3>1. k \in Nat /\ a + k = L /\ a \in Nat
      BY <2>1
    <3> HIDE DEF k
    <3>2. Power[a + k] = Power[a] * Power[k]
      BY <3>1, PowerSum
    <3>3. Power[k] \in Nat \ {0} /\ Power[a] \in Nat
      BY <3>1, PowerLaws
    <3>4. Power[L] = Power[a] * Power[k]
      BY <3>1, <3>2, Zenon
    <3> QED
      BY <3>3, <3>4 DEF k
  <2>3. m * Power[L - a] + Power[L - a] <= Power[a] * Power[L - a]
    BY <1>1, <2>2, MulMonotone
  <2>4. n \in Nat
    BY <2>2
  <2> HIDE DEF n
  <2> QED
    BY <2>2, <2>3, <2>4 DEF n
<1>5. ASSUME NEW i \in 1..L
      PROVE  (IF i \in DOMAIN Bytes(m) THEN Bytes(m)[i] ELSE 0) = Digit(n, L - i + 1)
  <2> DEFINE j == L - i + 1
             k == L - a
  <2>1. j \in Nat \ {0} /\ k \in Nat /\ (j <= k <=> i > a) /\ j - k = a - i + 1
    BY <1>1, <1>5
  <2> HIDE DEF j
  <2>2. Digit(m * Power[k], j) = IF j <= k THEN 0 ELSE Digit(m, j - k)
    BY <2>1, ShiftedDigits
  <2>3. CASE i <= a
    <3>1. i \in 1..a /\ ~(j <= k)
      BY <1>1, <2>1, <2>3
    <3>2. Bytes(m)[i] = Digit(m, a - i + 1) /\ i \in DOMAIN Bytes(m)
      BY <1>2, <3>1
    <3> QED
      BY <2>1, <2>2, <3>1, <3>2 DEF j
  <2>4. CASE i > a
    <3>1. i \notin DOMAIN Bytes(m) /\ j <= k
      BY <1>1, <1>2, <2>1, <2>4
    <3> QED
      BY <2>2, <3>1 DEF j
  <2> QED
    BY <1>1, <2>3, <2>4
<1>6. MakeNonce(m) = [i \in 1..L |-> Digit(n, L - i + 1)]
  BY <1>3, <1>5
<1> QED
  BY <1>1, <1>4, <1>6 DEF L, a, n

LEMMA SameNonceBytes ==
    ASSUME NEW m \in Nat \ {0}, m < Power[NonceLen],
           NEW n \in Nat \ {0}, n < Power[NonceLen],
           ByteLen(m) <= ByteLen(n)
    PROVE  /\ MakeNonce(m) = MakeNonce(n) <=> n = m * Power[ByteLen(n) - ByteLen(m)]
           /\ \A k \in Nat : n = m * Power[k] => k = ByteLen(n) - ByteLen(m)
           /\ \A k \in Nat : m = n * Power[k] => m = n
<1> DEFINE L == NonceLen
           a == ByteLen(m)
           b == ByteLen(n)
           x == m * Power[L - a]
           y == n * Power[L - b]
<1>1. /\ L \in Nat \ {0} /\ a \in 1..L /\ b \in 1..L /\ a <= b
      /\ Power[b - a] \in Nat \ {0} /\ Power[L - b] \in Nat \ {0} /\ Power[L - a] \in Nat \ {0}
      /\ Power[L - a] = Power[b - a] * Power[L - b]
  <2>1. L \in Nat \ {0} /\ a \in 1..L /\ b \in 1..L /\ a <= b
    BY NonceBytes, EncodingAssumption
  <2> HIDE DEF L, a, b
  <2> DEFINE i == b - a
             k == L - b
             j == L - a
  <2>2. i \in Nat /\ k \in Nat /\ j \in Nat /\ i + k = j
    BY <2>1
  <2> HIDE DEF i, k, j
  <2>3. Power[i] \in Nat \ {0} /\ Power[k] \in Nat \ {0} /\ Power[j] \in Nat \ {0}
    BY <2>2, PowerLaws
  <2>4. Power[i + k] = Power[i] * Power[k]
    BY <2>2, PowerSum
  <2>5. Power[j] = Power[i] * Power[k]
    BY <2>2, <2>4, Zenon
  <2> QED
    BY <2>1, <2>3, <2>5 DEF i, k, j
<1>2. x \in Nat /\ x < Power[L] /\ y \in Nat /\ y < Power[L]
  <2>1. x < Power[L] /\ y < Power[L]
    BY NonceBytes
  <2>2. x \in Nat /\ y \in Nat
    BY <1>1
  <2> QED
    BY <2>1, <2>2
<1>3. /\ MakeNonce(m) = [i \in 1..L |-> Digit(x, L - i + 1)]
      /\ MakeNonce(n) = [i \in 1..L |-> Digit(y, L - i + 1)]
  BY NonceBytes
<1>4. MakeNonce(m) = MakeNonce(n) <=> x = y
  <2> HIDE DEF L, x, y
  <2>1. ASSUME MakeNonce(m) = MakeNonce(n) PROVE x = y
    <3>1. \A i \in 1..L : Digit(x, i) = Digit(y, i)
      <4> SUFFICES ASSUME NEW i \in 1..L PROVE Digit(x, i) = Digit(y, i)
        OBVIOUS
      <4> DEFINE j == L - i + 1
      <4>1. j \in 1..L /\ L - j + 1 = i
        BY <1>1
      <4> HIDE DEF j
      <4>2. MakeNonce(m)[j] = Digit(x, i) /\ MakeNonce(n)[j] = Digit(y, i)
        BY <1>3, <4>1
      <4> QED
        BY <2>1, <4>2
    <3> QED
      BY <1>1, <1>2, <3>1, DigitsUnique
  <2>2. ASSUME x = y PROVE MakeNonce(m) = MakeNonce(n)
    BY <1>3, <2>2
  <2> QED
    BY <2>1, <2>2
<1>5. x = y <=> n = m * Power[b - a]
  <2> DEFINE p == Power[b - a]
             q == Power[L - b]
             z == m * p
  <2>1. x = m * (p * q) /\ y = n * q /\ p \in Nat /\ q \in Nat \ {0}
    BY <1>1
  <2>2. z \in Nat /\ x = z * q
    <3> HIDE DEF p, q, x
    <3> QED
      BY <2>1
  <2> HIDE DEF x, y, q, z, p
  <2>3. x = y <=> n = z
    BY <2>1, <2>2, MulMonotone
  <2> QED
    BY <2>3 DEF z, p
<1>6. ASSUME NEW k \in Nat, n = m * Power[k] PROVE k = b - a
  <2>1. b = a + k
    BY <1>6, ShiftedByteLen
  <2> HIDE DEF L, a, b
  <2> QED
    BY <1>1, <2>1
<1>7. ASSUME NEW k \in Nat, m = n * Power[k] PROVE m = n
  <2>1. a = b + k
    BY <1>7, ShiftedByteLen
  <2>2. k = 0
    <3> HIDE DEF L, a, b
    <3> QED
      BY <1>1, <2>1
  <2> QED
    BY <1>7, <2>2, PowerLaws
<1> QED
  BY <1>4, <1>5, <1>6, <1>7

(* Exactly the nonces that SameNonce relates have the same bytes.          *)
LEMMA NoncesIdentified ==
    ASSUME NEW m \in Nat \ {0}, m < Power[NonceLen],
           NEW n \in Nat \ {0}, n < Power[NonceLen]
    PROVE  MakeNonce(m) = MakeNonce(n) <=> SameNonce(m, n)
<1>1. ASSUME NEW u \in Nat \ {0}, u < Power[NonceLen],
             NEW v \in Nat \ {0}, v < Power[NonceLen], ByteLen(u) <= ByteLen(v)
      PROVE  MakeNonce(u) = MakeNonce(v) <=> SameNonce(u, v)
  <2> DEFINE d == ByteLen(v) - ByteLen(u)
  <2>1. d \in 0..NonceLen - 1 /\ NonceLen \in Nat
    <3>1. ByteLen(u) \in 1..NonceLen /\ ByteLen(v) \in 1..NonceLen /\ NonceLen \in Nat
      BY <1>1, NonceBytes, EncodingAssumption
    <3> QED
      BY <1>1, <3>1
  <2>2. /\ MakeNonce(u) = MakeNonce(v) <=> v = u * Power[d]
        /\ \A k \in Nat : v = u * Power[k] => k = d
        /\ \A k \in Nat : u = v * Power[k] => u = v
    BY <1>1, SameNonceBytes
  <2> HIDE DEF d
  <2>3. ASSUME v = u * Power[d] PROVE SameNonce(u, v)
    BY <2>1, <2>3 DEF SameNonce
  <2>4. ASSUME SameNonce(u, v) PROVE MakeNonce(u) = MakeNonce(v)
    <3>1. PICK k \in 0..NonceLen - 1 : u = v * Power[k] \/ v = u * Power[k]
      BY <2>4 DEF SameNonce
    <3>2. k \in Nat
      BY <2>1
    <3> QED
      BY <2>2, <3>1, <3>2
  <2> QED
    BY <2>2, <2>3, <2>4
<1>2. SameNonce(m, n) <=> SameNonce(n, m)
  BY DEF SameNonce
<1>3. ByteLen(m) \in Nat /\ ByteLen(n) \in Nat
  BY ByteLenType
<1>4. ByteLen(m) <= ByteLen(n) \/ ByteLen(n) <= ByteLen(m)
  BY <1>3
<1> QED
  BY <1>1, <1>2, <1>4
-----------------------------------------------------------------------------
(* Channel identifiers and signatures.                                     *)

(* Four fields, of which only the third may vary in length.                *)
SameFields(s1, s2, s3, s4, t1, t2, t3, t4) ==
    s1 \o s2 \o s3 \o s4 = t1 \o t2 \o t3 \o t4 => s1 = t1 /\ s2 = t2 /\ s3 = t3 /\ s4 = t4

LEMMA FourFields ==
    ASSUME NEW s1 \in Seq(Nat), NEW s2 \in Seq(Nat), NEW s3 \in Seq(Nat), NEW s4 \in Seq(Nat),
           NEW t1 \in Seq(Nat), NEW t2 \in Seq(Nat), NEW t3 \in Seq(Nat), NEW t4 \in Seq(Nat),
           Len(s1) = Len(t1), Len(s2) = Len(t2), Len(s4) = Len(t4)
    PROVE  SameFields(s1, s2, s3, s4, t1, t2, t3, t4)
<1> DEFINE s12 == s1 \o s2
           t12 == t1 \o t2
           s123 == s12 \o s3
           t123 == t12 \o t3
<1> SUFFICES ASSUME s123 \o s4 = t123 \o t4
             PROVE  s1 = t1 /\ s2 = t2 /\ s3 = t3 /\ s4 = t4
  BY DEF SameFields
<1>1. /\ s12 \in Seq(Nat) /\ Len(s12) = Len(s1) + Len(s2)
      /\ t12 \in Seq(Nat) /\ Len(t12) = Len(t1) + Len(t2)
  BY Concatenated
<1>2. s12 = t12 => s1 = t1 /\ s2 = t2
  <2>1. SameTwo(s1, s2, t1, t2)
    BY TwoFields
  <2> QED
    BY <2>1 DEF SameTwo
<1> HIDE DEF s12, t12
<1>3. s123 \in Seq(Nat) /\ t123 \in Seq(Nat)
  BY <1>1, Concatenated
<1>4. Len(s12) = Len(t12)
  BY <1>1
<1>5. s123 = t123 => s12 = t12 /\ s3 = t3
  <2>1. SameTwo(s12, s3, t12, t3)
    BY <1>1, <1>4, TwoFields
  <2> QED
    BY <2>1 DEF SameTwo
<1> HIDE DEF s123, t123
<1>6. s123 = t123 /\ s4 = t4
  <2>1. SameTwo(s123, s4, t123, t4)
    BY <1>3, TwoFields
  <2> QED
    BY <2>1 DEF SameTwo
<1> QED
  BY <1>2, <1>5, <1>6

IsParams(p) ==
    /\ p.nonce \in Int /\ p.parts \in Seq(Seq(Nat))
    /\ p.challengeDuration \in 0..Power[Uint64Len] - 1

LEMMA OffIdentBytes ==
    ASSUME NEW addr \in Seq(Nat), ~MakeOffIdentFails(addr)
    PROVE  MakeOffIdent(addr) = addr
<1>1. Len(addr) = OffIdentityLen /\ DOMAIN addr = 1..OffIdentityLen
  BY DEF MakeOffIdentFails
<1>2. addr = [i \in 1..OffIdentityLen |-> addr[i]]
  BY <1>1
<1> QED
  BY <1>1, <1>2 DEF MakeOffIdent, Copy

(* What CalcID hashes: fields of one length each.                          *)
LEMMA IdFields ==
    ASSUME NEW p, IsParams(p), ~CalcIDPanics(p)
    PROVE  /\ p.nonce \in Nat \ {0} /\ p.nonce < Power[NonceLen]
           /\ Len(p.parts) >= 2
           /\ \A i \in 1..2 : p.parts[i] \in Seq(Nat) /\ Len(p.parts[i]) = OffIdentityLen
           /\ MakeNonce(p.nonce) \in Seq(Nat) /\ Len(MakeNonce(p.nonce)) = NonceLen
           /\ CalcID(p) = Sha512(MakeNonce(p.nonce) \o p.parts[1] \o p.parts[2]
                                 \o Uint64ToBytes(p.challengeDuration))
<1>1. p.nonce \in Nat \ {0} /\ p.nonce < Power[NonceLen]
  <2>1. Power[NonceLen] \in Nat
    BY EncodingAssumption, PowerLaws
  <2>2. p.nonce \in Int /\ ~(p.nonce <= 0) /\ ~(p.nonce >= Power[NonceLen])
    BY DEF CalcIDPanics, NewParamsFails, MakeNonceFails, IsParams
  <2> QED
    BY <2>1, <2>2
<1>2. Len(p.parts) >= 2 /\ p.parts \in Seq(Seq(Nat)) /\ 1 \in DOMAIN p.parts /\ 2 \in DOMAIN p.parts
  <2>1. ~(Len(p.parts) < 2) /\ p.parts \in Seq(Seq(Nat))
    BY DEF CalcIDPanics, IsParams
  <2> QED
    BY <2>1
<1>3. \A i \in DOMAIN p.parts : p.parts[i] \in Seq(Nat) /\ ~MakeOffIdentFails(p.parts[i])
  BY <1>2 DEF CalcIDPanics, NewParamsFails
<1>4. \A i \in 1..2 : p.parts[i] \in Seq(Nat) /\ Len(p.parts[i]) = OffIdentityLen
  BY <1>2, <1>3 DEF MakeOffIdentFails
<1>5. MakeNonce(p.nonce) \in Seq(Nat) /\ Len(MakeNonce(p.nonce)) = NonceLen
  <2> DEFINE L == NonceLen
             n == p.nonce * Power[L - ByteLen(p.nonce)]
  <2>1. L \in Nat /\ MakeNonce(p.nonce) = [i \in 1..L |-> Digit(n, L - i + 1)]
    BY <1>1, NonceBytes, EncodingAssumption
  <2>2. n \in Nat
    <3>1. L - ByteLen(p.nonce) \in Nat
      BY <1>1, NonceBytes, EncodingAssumption
    <3>2. Power[L - ByteLen(p.nonce)] \in Nat
      BY <3>1, PowerLaws
    <3> QED
      BY <1>1, <3>2
  <2> HIDE DEF L, n
  <2>3. \A i \in 1..L : Digit(n, L - i + 1) \in Nat
    BY <2>1, <2>2, DigitType
  <2>4. MakeNonce(p.nonce) \in Seq(Nat) /\ Len(MakeNonce(p.nonce)) = L
    BY <2>1, <2>3
  <2> QED
    BY <2>4 DEF L
<1>6. CalcID(p) = Sha512(MakeNonce(p.nonce) \o p.parts[1] \o p.parts[2]
                         \o Uint64ToBytes(p.challengeDuration))
  <2> DEFINE icp == NewParams(p)
  <2>1. /\ icp.Nonce = MakeNonce(p.nonce) /\ icp.ChallengeDuration = p.challengeDuration
        /\ icp.Participants[1] = MakeOffIdent(p.parts[1])
        /\ icp.Participants[2] = MakeOffIdent(p.parts[2])
    BY <1>2 DEF NewParams
  <2>2. icp.Participants[1] = p.parts[1] /\ icp.Participants[2] = p.parts[2]
    BY <1>2, <1>3, <2>1, OffIdentBytes
  <2> HIDE DEF icp
  <2> QED
    BY <2>1, <2>2 DEF CalcID, icp
<1> QED
  BY <1>1, <1>2, <1>4, <1>5, <1>6

(* Of any two channels, with nonces, durations and participants of any     *)
(* size: exactly when they have one identifier, so that what SameEncoding  *)
(* leaves out, the App, further participants and zeros at the end of the   *)
(* nonce, is all that an identifier does not tell apart (backend.go,       *)
(* CalcID; serialize.go, MakeNonce, NewParams).                            *)
THEOREM SharedIdentifiers ==
    ASSUME NEW p, NEW q, IsParams(p), IsParams(q), ~CalcIDPanics(p), ~CalcIDPanics(q)
    PROVE  CalcID(p) = CalcID(q) <=> SameEncoding(p, q)
<1> DEFINE m(r) == MakeNonce(r.nonce)
           a(r) == r.parts[1]
           b(r) == r.parts[2]
           d(r) == Uint64ToBytes(r.challengeDuration)
<1>1. \A r \in {p, q} :
        /\ r.nonce \in Nat \ {0} /\ r.nonce < Power[NonceLen]
        /\ Len(r.parts) >= 2 /\ r.parts \in Seq(Seq(Nat))
        /\ m(r) \in Seq(Nat) /\ Len(m(r)) = NonceLen
        /\ a(r) \in Seq(Nat) /\ Len(a(r)) = OffIdentityLen
        /\ b(r) \in Seq(Nat) /\ Len(b(r)) = OffIdentityLen
        /\ d(r) \in Seq(Nat) /\ Len(d(r)) = Uint64Len
        /\ CalcID(r) = Sha512(m(r) \o a(r) \o b(r) \o d(r))
  <2> SUFFICES ASSUME NEW r \in {p, q}
               PROVE  /\ r.nonce \in Nat \ {0} /\ r.nonce < Power[NonceLen]
                      /\ Len(r.parts) >= 2 /\ r.parts \in Seq(Seq(Nat))
                      /\ m(r) \in Seq(Nat) /\ Len(m(r)) = NonceLen
                      /\ a(r) \in Seq(Nat) /\ Len(a(r)) = OffIdentityLen
                      /\ b(r) \in Seq(Nat) /\ Len(b(r)) = OffIdentityLen
                      /\ d(r) \in Seq(Nat) /\ Len(d(r)) = Uint64Len
                      /\ CalcID(r) = Sha512(m(r) \o a(r) \o b(r) \o d(r))
    OBVIOUS
  <2>1. IsParams(r) /\ ~CalcIDPanics(r)
    OBVIOUS
  <2>2. d(r) \in Seq(Nat) /\ Len(d(r)) = Uint64Len
    BY <2>1, Uint64Unique DEF IsParams
  <2>3. r.parts \in Seq(Seq(Nat))
    BY <2>1 DEF IsParams
  <2> QED
    BY <2>1, <2>2, <2>3, IdFields
<1>2. m(p) = m(q) <=> SameNonce(p.nonce, q.nonce)
  BY <1>1, NoncesIdentified
<1>3. d(p) = d(q) <=> p.challengeDuration = q.challengeDuration
  BY Uint64Unique DEF IsParams
<1>4. a(p) = a(q) /\ b(p) = b(q) <=> SubSeq(p.parts, 1, 2) = SubSeq(q.parts, 1, 2)
  <2>1. \A r \in {p, q} : SubSeq(r.parts, 1, 2) = <<a(r), b(r)>>
    <3> SUFFICES ASSUME NEW r \in {p, q} PROVE SubSeq(r.parts, 1, 2) = <<a(r), b(r)>>
      OBVIOUS
    <3> DEFINE u == SubSeq(r.parts, 1, 2)
               v == <<r.parts[1], r.parts[2]>>
    <3>1. r.parts \in Seq(Seq(Nat)) /\ Len(r.parts) >= 2
      BY <1>1
    <3>2. u \in Seq(Seq(Nat)) /\ Len(u) = 2 /\ u[1] = r.parts[1] /\ u[2] = r.parts[2]
      BY <3>1
    <3>3. v \in Seq(Seq(Nat)) /\ Len(v) = 2 /\ v[1] = r.parts[1] /\ v[2] = r.parts[2]
      BY <3>1
    <3> HIDE DEF u, v
    <3>4. \A i \in 1..Len(u) : u[i] = v[i]
      BY <3>2, <3>3
    <3>5. u = v
      BY <3>2, <3>3, <3>4, SeqEqual
    <3> QED
      BY <3>5 DEF u, v
  <2> QED
    BY <2>1
<1> HIDE DEF m, a, b, d
<1>5. ASSUME CalcID(p) = CalcID(q)
      PROVE  m(p) = m(q) /\ a(p) = a(q) /\ b(p) = b(q) /\ d(p) = d(q)
  <2> DEFINE x == m(p) \o a(p) \o b(p) \o d(p)
             y == m(q) \o a(q) \o b(q) \o d(q)
  <2>1. x = y
    <3>1. CalcID(p) = Sha512(x) /\ CalcID(q) = Sha512(y)
      BY <1>1
    <3> HIDE DEF x, y
    <3>2. Sha512(x) = Sha512(y)
      BY <1>5, <3>1
    <3>3. Sha512(x).sha512 = x /\ Sha512(y).sha512 = y
      BY DEF Sha512
    <3> QED
      BY <3>2, <3>3
  <2>2. /\ m(p) \in Seq(Nat) /\ a(p) \in Seq(Nat) /\ b(p) \in Seq(Nat) /\ d(p) \in Seq(Nat)
        /\ m(q) \in Seq(Nat) /\ a(q) \in Seq(Nat) /\ b(q) \in Seq(Nat) /\ d(q) \in Seq(Nat)
        /\ Len(m(p)) = Len(m(q)) /\ Len(a(p)) = Len(a(q)) /\ Len(d(p)) = Len(d(q))
    BY <1>1
  <2>3. SameFields(m(p), a(p), b(p), d(p), m(q), a(q), b(q), d(q))
    BY <2>2, FourFields
  <2> QED
    BY <2>1, <2>3 DEF SameFields
<1>6. ASSUME m(p) = m(q), a(p) = a(q), b(p) = b(q), d(p) = d(q)
      PROVE  CalcID(p) = CalcID(q)
  BY <1>1, <1>6
<1> QED
  BY <1>2, <1>3, <1>4, <1>5, <1>6 DEF SameEncoding

(* Of any two channels: one identifier only if SameEncoding holds          *)
(* (backend.go, CalcID; serialize.go, MakeNonce, NewParams).               *)
THEOREM IdentifiesEveryChannel ==
    ASSUME NEW p, NEW q, IsParams(p), IsParams(q)
    PROVE  IdentifiesChannel(p, q)
BY SharedIdentifiers DEF IdentifiesChannel

(* A state of a channel with two participants.                             *)
IsState(s) ==
    /\ s.id \in Seq(Nat) /\ s.version \in 0..Power[Uint64Len] - 1
    /\ s.balances \in Seq(Int) /\ Len(s.balances) = 2 /\ s.final \in BOOLEAN

LEMMA SignedFields ==
    ASSUME NEW s, IsState(s), ~StateForChainFails(s)
    PROVE  /\ s.balances[1] \in Nat /\ s.balances[2] \in Nat /\ Joined(s.balances) \in Nat
           /\ stateBytes(s) = s.id \o Uint64ToBytes(s.version)
                                \o BigToLittleEndianBytes(Joined(s.balances))
                                \o BoolToBytes(s.final)
<1> DEFINE a == s.balances[1]
           b == s.balances[2]
           parts == [i \in DOMAIN s.balances |-> BigToLittleEndianBytes(s.balances[i])]
<1>1. s.balances \in Seq(Int) /\ DOMAIN s.balances = 1..2
  BY DEF IsState
<1>2. a \in Nat /\ b \in Nat
  <2>1. \A i \in 1..2 : s.balances[i] \in Int /\ ~(s.balances[i] < 0)
    BY <1>1 DEF StateForChainFails, MakeAllocFails, MakeBalanceFails
  <2> QED
    BY <2>1
<1>3. Joined(s.balances) = a + Power[ByteLen(a)] * b /\ Joined(s.balances) \in Nat
  <2>1. ByteLen(a) \in Nat
    BY <1>2, ByteLenType
  <2>2. Power[ByteLen(a)] \in Nat
    BY <2>1, PowerLaws
  <2>3. Joined(s.balances) = a + Power[ByteLen(a)] * b
    BY DEF Joined
  <2> HIDE DEF a, b
  <2> QED
    BY <1>2, <2>2, <2>3
<1>4. FlattenSeq(parts) = BigToLittleEndianBytes(a) \o BigToLittleEndianBytes(b)
  <2>1. Len(parts) = 2 /\ parts[1] = BigToLittleEndianBytes(a) /\ parts[2] = BigToLittleEndianBytes(b)
    BY <1>1
  <2> HIDE DEF parts, a, b
  <2> QED
    BY <2>1, FlattenTwo
<1>5. FlattenSeq(parts) = BigToLittleEndianBytes(Joined(s.balances))
  BY <1>2, <1>3, <1>4, LittleEndianJoined
<1> QED
  BY <1>2, <1>3, <1>5 DEF stateBytes

(* Of any two states with two participants: when a signature on one        *)
(* verifies for the other (backend.go, Sign and Verify).                   *)
THEOREM VerifiesEverySigned ==
    ASSUME NEW s, NEW t, IsState(s), IsState(t), Len(s.id) = Len(t.id)
    PROVE  VerifiesSigned(s, t)
<1> SUFFICES ASSUME ~StateForChainFails(s), ~StateForChainFails(t)
             PROVE  Verify("a", t, Sign("a", s)) <=>
                        /\ s.id = t.id /\ s.version = t.version /\ s.final = t.final
                        /\ Joined(s.balances) = Joined(t.balances)
  BY DEF VerifiesSigned
<1> DEFINE v(x) == Uint64ToBytes(x.version)
           l(x) == BigToLittleEndianBytes(Joined(x.balances))
           f(x) == BoolToBytes(x.final)
<1>1. Verify("a", t, Sign("a", s)) <=> stateBytes(s) = stateBytes(t)
  BY DEF Verify, Sign
<1>2. \A x \in {s, t} :
        /\ x.id \in Seq(Nat)
        /\ v(x) \in Seq(Nat) /\ Len(v(x)) = Uint64Len
        /\ l(x) \in Seq(Nat) /\ Joined(x.balances) \in Nat
        /\ f(x) \in Seq(Nat) /\ Len(f(x)) = 1
        /\ stateBytes(x) = x.id \o v(x) \o l(x) \o f(x)
  <2> SUFFICES ASSUME NEW x \in {s, t}
               PROVE  /\ x.id \in Seq(Nat)
                      /\ v(x) \in Seq(Nat) /\ Len(v(x)) = Uint64Len
                      /\ l(x) \in Seq(Nat) /\ Joined(x.balances) \in Nat
                      /\ f(x) \in Seq(Nat) /\ Len(f(x)) = 1
                      /\ stateBytes(x) = x.id \o v(x) \o l(x) \o f(x)
    OBVIOUS
  <2>1. IsState(x) /\ ~StateForChainFails(x)
    OBVIOUS
  <2>2. v(x) \in Seq(Nat) /\ Len(v(x)) = Uint64Len
    BY <2>1, Uint64Unique DEF IsState
  <2>3. l(x) \in Seq(Nat) /\ Joined(x.balances) \in Nat
    BY <2>1, SignedFields, LittleEndianType
  <2>4. f(x) \in Seq(Nat) /\ Len(f(x)) = 1
    BY DEF BoolToBytes
  <2>5. x.id \in Seq(Nat)
    BY <2>1 DEF IsState
  <2> QED
    BY <2>1, <2>2, <2>3, <2>4, <2>5, SignedFields
<1>3. v(s) = v(t) <=> s.version = t.version
  BY Uint64Unique DEF IsState
<1>4. l(s) = l(t) <=> Joined(s.balances) = Joined(t.balances)
  BY <1>2, LittleEndianUnique
<1>5. f(s) = f(t) <=> s.final = t.final
  <2>1. <<0>> # <<1>>
    OBVIOUS
  <2>2. s.final \in BOOLEAN /\ t.final \in BOOLEAN
    BY DEF IsState
  <2> QED
    BY <2>1, <2>2 DEF BoolToBytes
<1> HIDE DEF v, l, f
<1>6. ASSUME stateBytes(s) = stateBytes(t)
      PROVE  s.id = t.id /\ v(s) = v(t) /\ l(s) = l(t) /\ f(s) = f(t)
  <2>1. /\ s.id \in Seq(Nat) /\ v(s) \in Seq(Nat) /\ l(s) \in Seq(Nat) /\ f(s) \in Seq(Nat)
        /\ t.id \in Seq(Nat) /\ v(t) \in Seq(Nat) /\ l(t) \in Seq(Nat) /\ f(t) \in Seq(Nat)
        /\ Len(s.id) = Len(t.id) /\ Len(v(s)) = Len(v(t)) /\ Len(f(s)) = Len(f(t))
    BY <1>2
  <2>2. s.id \o v(s) \o l(s) \o f(s) = t.id \o v(t) \o l(t) \o f(t)
    BY <1>2, <1>6
  <2>3. SameFields(s.id, v(s), l(s), f(s), t.id, v(t), l(t), f(t))
    BY <2>1, FourFields
  <2> QED
    BY <2>2, <2>3 DEF SameFields
<1>7. ASSUME s.id = t.id, v(s) = v(t), l(s) = l(t), f(s) = f(t)
      PROVE  stateBytes(s) = stateBytes(t)
  BY <1>2, <1>7
<1> QED
  BY <1>1, <1>3, <1>4, <1>5, <1>6, <1>7
-----------------------------------------------------------------------------
(* The inputs that are compared.                                           *)

(* What has been chosen: parameters or a state.                            *)
PairOK ==
    pair = NoPair \/ /\ pair[1] = "params" => pair[2] \in Params
                     /\ pair[1] = "state" => pair[2] \in States \cup Refused

LEMMA EveryPair == Spec => []PairOK
<1>1. Init => PairOK
  BY DEF Init, PairOK
<1>2. PairOK /\ [Next]_vars => PairOK'
  <2> SUFFICES ASSUME PairOK, [Next]_vars PROVE PairOK'
    OBVIOUS
  <2>1. CASE Encode
    <3>1. PICK k \in {<<"params", p>> : p \in Params} \cup {<<"state", s>> : s \in States \cup Refused} :
            pair' = k
      BY <2>1 DEF Encode
    <3>2. CASE k \in {<<"params", p>> : p \in Params}
      BY <3>1, <3>2 DEF PairOK
    <3>3. CASE k \in {<<"state", s>> : s \in States \cup Refused}
      BY <3>1, <3>3 DEF PairOK
    <3> QED
      BY <3>1, <3>2, <3>3
  <2>2. CASE Log
    BY <2>2 DEF Log, PairOK
  <2>3. CASE UNCHANGED vars
    BY <2>3 DEF vars, PairOK
  <2> QED
    BY <2>1, <2>2, <2>3 DEF Next
<1> QED
  BY <1>1, <1>2, PTL DEF Spec

LEMMA ParamsTyped == \A p \in Params : IsParams(p)
<1> SUFFICES ASSUME NEW p \in Params PROVE IsParams(p)
  OBVIOUS
<1>1. Power[NonceLen] \in Nat /\ Power[Uint64Len] \in Nat \ {0} /\ Power[Uint64Len] > 1
  <2>1. 0 < Uint64Len /\ Uint64Len \in Nat /\ NonceLen \in Nat
    BY EncodingAssumption
  <2>2. Power[0] < Power[Uint64Len]
    BY <2>1, PowerGrows
  <2> QED
    BY <2>1, <2>2, PowerLaws
<1>2. /\ p.nonce \in -1 .. Power[NonceLen] /\ p.parts \in Parts
      /\ p.challengeDuration \in {0, 1, Power[Uint64Len] - 1}
  BY DEF Params
<1>3. \A x \in Parts : x \in Seq(Seq(Nat))
  <2>1. \A a \in Addresses : a \in Seq(Nat)
    BY DEF Addresses
  <2>2. <<0, 1>> \in Addresses /\ <<1, 0>> \in Addresses
    BY DEF Addresses
  <2>3. \A a, b \in Addresses : <<a, b>> \in Seq(Seq(Nat))
    BY <2>1
  <2>4. \A a, b, c \in Seq(Nat) : <<a>> \in Seq(Seq(Nat)) /\ <<a, b, c>> \in Seq(Seq(Nat))
    OBVIOUS
  <2> DEFINE u == <<0, 1>>
             w == <<1, 0>>
  <2>5. /\ u \in Seq(Nat) /\ w \in Seq(Nat)
        /\ Parts = {<<a, b>> : a, b \in Addresses} \cup {<<u>>, <<u, w, u>>}
    BY <2>1, <2>2 DEF Parts
  <2> HIDE DEF u, w
  <2>6. <<u>> \in Seq(Seq(Nat)) /\ <<u, w, u>> \in Seq(Seq(Nat))
    BY <2>4, <2>5
  <2> SUFFICES ASSUME NEW x \in Parts PROVE x \in Seq(Seq(Nat))
    OBVIOUS
  <2>7. CASE x \in {<<a, b>> : a, b \in Addresses}
    <3>1. PICK a \in Addresses, b \in Addresses : x = <<a, b>>
      BY <2>7
    <3> QED
      BY <2>3, <3>1
  <2>8. CASE x \in {<<u>>, <<u, w, u>>}
    BY <2>6, <2>8
  <2> QED
    <3>1. x \in {<<a, b>> : a, b \in Addresses} \/ x \in {<<u>>, <<u, w, u>>}
      BY DEF Parts, u, w
    <3> QED
      BY <2>7, <2>8, <3>1
<1>4. p.challengeDuration \in 0..Power[Uint64Len] - 1 /\ p.nonce \in Int
  BY <1>1, <1>2
<1> QED
  BY <1>2, <1>3, <1>4 DEF IsParams

LEMMA StatesTyped == \A s \in States \cup Refused : IsState(s) /\ Len(s.id) = 2
<1> SUFFICES ASSUME NEW s \in States \cup Refused PROVE IsState(s) /\ Len(s.id) = 2
  OBVIOUS
<1>1. 0 \in 0..Power[Uint64Len] - 1 /\ 1 \in 0..Power[Uint64Len] - 1 /\ Base \in 0..Power[Uint64Len] - 1
  <2>1. 1 < Uint64Len /\ Uint64Len \in Nat /\ Base \in Nat /\ Base > 1
    BY EncodingAssumption
  <2>2. Power[1] < Power[Uint64Len] /\ Power[Uint64Len] \in Nat
    BY <2>1, PowerGrows, PowerLaws
  <2>3. Power[1] = Base
    <3>1. Power[0 + 1] = Base * Power[0] /\ Power[0] = 1
      BY PowerLaws
    <3> QED
      BY <2>1, <3>1
  <2> QED
    BY <2>1, <2>2, <2>3
<1>2. CASE s \in States
  <2>1. /\ s.id \in {<<0, 1>>, <<1, 0>>} /\ s.version \in {0, 1, Base} /\ s.final \in BOOLEAN
        /\ s.balances \in {<<a, b>> : a, b \in 0..MaxBalance}
    BY <1>2 DEF States
  <2>2. PICK a \in 0..MaxBalance, b \in 0..MaxBalance : s.balances = <<a, b>>
    BY <2>1
  <2>3. s.balances \in Seq(Int) /\ Len(s.balances) = 2
    BY <2>2, EncodingAssumption
  <2>4. s.id \in Seq(Nat) /\ Len(s.id) = 2
    <3>1. CASE s.id = <<0, 1>>
      BY <3>1
    <3>2. CASE s.id = <<1, 0>>
      BY <3>2
    <3> QED
      BY <2>1, <3>1, <3>2
  <2> QED
    BY <1>1, <2>1, <2>3, <2>4 DEF IsState
<1>3. CASE s \in Refused
  <2>1. /\ s.id = <<0, 1>> /\ s.version = 1 /\ s.final = TRUE
        /\ s.balances \in {<<1, MaxBalance + 1>>, <<-1, 1>>, <<1, 1>>}
    BY <1>3 DEF Refused
  <2>2. s.balances \in Seq(Int) /\ Len(s.balances) = 2
    <3>1. MaxBalance + 1 \in Int /\ -1 \in Int
      BY EncodingAssumption
    <3>2. \A x, y \in Int : <<x, y>> \in Seq(Int) /\ Len(<<x, y>>) = 2
      OBVIOUS
    <3>3. PICK x \in Int, y \in Int : s.balances = <<x, y>>
      BY <2>1, <3>1
    <3> QED
      BY <3>2, <3>3
  <2>3. s.id \in Seq(Nat) /\ Len(s.id) = 2
    BY <2>1
  <2> QED
    BY <1>1, <2>1, <2>2, <2>3 DEF IsState
<1> QED
  BY <1>2, <1>3

(* The same on the inputs of the run (backend.go, CalcID).                 *)
THEOREM ChannelsIdentified == Spec => []ChannelsAreIdentified
<1>1. PairOK => ChannelsAreIdentified
  BY ParamsTyped, IdentifiesEveryChannel DEF PairOK, ChannelsAreIdentified
<1> QED
  BY <1>1, EveryPair, PTL

(* The same on the inputs of the run (backend.go, Sign and Verify).        *)
THEOREM SignaturesVerified == Spec => []SignaturesVerify
<1>1. PairOK => SignaturesVerify
  BY StatesTyped, VerifiesEverySigned DEF PairOK, SignaturesVerify
<1> QED
  BY <1>1, EveryPair, PTL
=============================================================================
