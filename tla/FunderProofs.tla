---------------------------- MODULE FunderProofs ----------------------------
(***************************************************************************)
(* The funder's invariants, for any number of funders, processes, calls,   *)
(* failures and kills, and however far the replicas lag behind.            *)
(***************************************************************************)
EXTENDS Funder, SequenceTheorems, FiniteSetTheorems, TLAPS

(* A sum over no event is 0: the loop of EvaluateFundedEvents starts there. *)
LEMMA EmptySum ==
  ASSUME NEW amount \in Nat, NEW log, SumReaches(amount, log, {})
  PROVE  amount = 0
  <1> DEFINE Rec(iter) == [s \in SUBSET {} |->
                 IF s = {} THEN 0
                 ELSE LET x == CHOOSE y \in s : TRUE
                      IN  AddTotal(log[x], iter[s \ {x}])]
             Iter == CHOOSE iter : iter = Rec(iter)
             Base == [s \in SUBSET {} |-> 0]
  <1>1. Base = Rec(Base)
    OBVIOUS
  <1>2. Iter = Rec(Iter)
    BY <1>1
  <1>3. Iter[{}] = 0
    BY <1>2
  <1>4. FoldFunctionOnSet(AddTotal, 0, log, {}) = Iter[{}]
    BY DEF FoldFunctionOnSet, MapThenFoldSet
  <1> QED BY <1>3, <1>4 DEF SumReaches

(* So a participant who is found to be funded has an event, or owes nothing. *)
LEMMA FundedHasEvent ==
  ASSUME NEW p \in Funders, NEW log, EvaluateFundedEvents(log, p)
  PROVE  Amount[p] = 0 \/ \E i \in DOMAIN log : log[i].who = p
  <1> SUFFICES ASSUME ~ \E i \in DOMAIN log : log[i].who = p
               PROVE  Amount[p] = 0
    OBVIOUS
  <1>1. {i \in DOMAIN log : log[i].who = p} = {}
    OBVIOUS
  <1>2. SumReaches(Amount[p], log, {})
    BY <1>1 DEF EvaluateFundedEvents
  <1> QED BY <1>2, EmptySum, FundingAssumption

LEMMA TransferredType ==
  \A p \in Funders : Transferred(p) \in Nat /\ Transferred(p) > 0 /\ Transferred(p) >= Amount[p]
  BY FundingAssumption DEF Transferred

(* One transfer more is still a whole number of transfers.                 *)
LEMMA WholeSum ==
  ASSUME NEW t \in Nat, t > 0
  PROVE  /\ 0 % t = 0
         /\ \A x \in Nat : x % t = 0 => (x + t) % t = 0
  <1>1. \A q \in Nat : (q * t + 0) % t = 0
    OBVIOUS
  <1>2. 0 % t = 0
    BY <1>1
  <1>3. ASSUME NEW x \in Nat, x % t = 0
        PROVE  (x + t) % t = 0
    <2> DEFINE q == x \div t
    <2>1. q \in Nat /\ x = t * q + (x % t)
      OBVIOUS
    <2> HIDE DEF q
    <2>2. x + t = (q + 1) * t + 0 /\ q + 1 \in Nat
      BY <1>3, <2>1
    <2> QED BY <1>1, <2>2
  <1> QED BY <1>2, <1>3

LEMMA InitIInv == Init => IInv
  BY FundingAssumption, FunderAssumption, TransferredType, WholeSum
  DEF Init, IInv, TypeOK, Banks, OpenBank, Nothing, MutexHeldAtCanister, WholeTransfers,
      FundedIsHeld, Locations, Results, InCriticalSection
-----------------------------------------------------------------------------
(* What the calls do to the bank.                                          *)

(* What every RPC of the funder leaves behind: a bank whose credits come   *)
(* from whole transfers, and in which nobody holds less than before.       *)
Keeps(b, c) ==
    /\ c \in Banks
    /\ WholeTransfers(c)
    /\ \A p \in Funders : c.holdings[p] >= b.holdings[p]

LEMMA Same == ASSUME NEW b \in Banks, WholeTransfers(b) PROVE Keeps(b, b)
  <1>1. b.holdings \in [Funders -> Nat]
    BY DEF Banks
  <1> QED BY <1>1 DEF Keeps

(* What a longer list has at its places.                                   *)
LEMMA Appended ==
  ASSUME NEW T, NEW s \in Seq(T), NEW e \in T
  PROVE  /\ Append(s, e) \in Seq(T)
         /\ Len(s) \in Nat /\ DOMAIN s = 1..Len(s)
         /\ DOMAIN Append(s, e) = DOMAIN s \cup {Len(s) + 1}
         /\ \A i \in DOMAIN s : Append(s, e)[i] = s[i]
         /\ Append(s, e)[Len(s) + 1] = e
  <1>1. Len(s) \in Nat /\ DOMAIN s = 1..Len(s)
    BY LenProperties
  <1>2. Append(s, e) \in Seq(T) /\ Len(Append(s, e)) = Len(s) + 1
    BY AppendProperties
  <1>3. DOMAIN Append(s, e) = 1..Len(s) + 1
    BY <1>2, LenProperties
  <1>4. \A i \in 1..Len(s) : Append(s, e)[i] = s[i]
    BY AppendProperties
  <1>5. Append(s, e)[Len(s) + 1] = e
    BY AppendProperties
  <1>6. 1..Len(s) + 1 = 1..Len(s) \cup {Len(s) + 1}
    BY <1>1
  <1> QED BY <1>1, <1>2, <1>3, <1>4, <1>5, <1>6

LEMMA TransferKeeps ==
  ASSUME NEW b \in Banks, WholeTransfers(b), NEW p \in Funders, CanTransfer(b, p)
  PROVE  Keeps(b, OnTransfer(b, p))
  <1> DEFINE c == OnTransfer(b, p)
             blk == [from |-> p, amount |-> Transferred(p)]
  <1>1. /\ b.balance \in [Funders -> Nat] /\ b.holdings \in [Funders -> Nat]
        /\ b.blocks \in Seq([from : Funders, amount : Nat])
        /\ blk \in [from : Funders, amount : Nat]
    BY TransferredType DEF Banks
  <1>2. b.balance[p] - Transferred(p) - Fee \in Nat
    BY <1>1, TransferredType, FundingAssumption DEF CanTransfer
  <1>3. /\ c.balance = [b.balance EXCEPT ![p] = b.balance[p] - Transferred(p) - Fee]
        /\ c.blocks = Append(b.blocks, blk)
        /\ c.notified = b.notified /\ c.credit = b.credit
        /\ c.holdings = b.holdings /\ c.log = b.log
        /\ c = [balance |-> c.balance, blocks |-> c.blocks, notified |-> c.notified,
               credit |-> c.credit, holdings |-> c.holdings, log |-> c.log]
    <2>1. b = [balance |-> b.balance, blocks |-> b.blocks, notified |-> b.notified,
               credit |-> b.credit, holdings |-> b.holdings, log |-> b.log]
      BY DEF Banks
    <2>2. c = [b EXCEPT !.balance = [b.balance EXCEPT ![p] = b.balance[p] - Transferred(p) - Fee],
                        !.blocks = Append(b.blocks, blk)]
      BY DEF OnTransfer
    <2>3. c.balance = [b.balance EXCEPT ![p] = b.balance[p] - Transferred(p) - Fee]
      BY <2>1, <2>2
    <2>4. c.blocks = Append(b.blocks, blk)
      BY <2>1, <2>2
    <2>5. /\ c.notified = b.notified /\ c.credit = b.credit
          /\ c.holdings = b.holdings /\ c.log = b.log
      BY <2>1, <2>2
    <2>6. c = [balance |-> c.balance, blocks |-> c.blocks, notified |-> c.notified,
               credit |-> c.credit, holdings |-> c.holdings, log |-> c.log]
      BY <2>1, <2>2
    <2> QED BY <2>3, <2>4, <2>5, <2>6
  <1>4. c.balance \in [Funders -> Nat] /\ c.blocks \in Seq([from : Funders, amount : Nat])
    <2>1. Append(b.blocks, blk) \in Seq([from : Funders, amount : Nat])
      BY <1>1, AppendProperties
    <2>2. [b.balance EXCEPT ![p] = b.balance[p] - Transferred(p) - Fee] \in [Funders -> Nat]
      BY <1>1, <1>2
    <2> QED BY <1>3, <2>1, <2>2
  <1>5. c \in Banks
    BY <1>3, <1>4 DEF Banks
  <1>6. \A n \in DOMAIN c.blocks : c.blocks[n].amount = Transferred(c.blocks[n].from)
    <2> SUFFICES ASSUME NEW n \in DOMAIN Append(b.blocks, blk)
                 PROVE  Append(b.blocks, blk)[n].amount
                            = Transferred(Append(b.blocks, blk)[n].from)
      BY <1>3
    <2> DEFINE all == Append(b.blocks, blk)
    <2>1. CASE n \in DOMAIN b.blocks
      <3>1. all[n] = b.blocks[n]
        BY <1>1, <2>1, Appended
      <3>2. b.blocks[n].amount = Transferred(b.blocks[n].from)
        BY <2>1 DEF WholeTransfers
      <3> QED BY <3>1, <3>2, Zenon
    <2>2. CASE n \notin DOMAIN b.blocks
      <3>1. all[n] = blk
        BY <1>1, <2>2, Appended
      <3>2. blk.amount = Transferred(p) /\ blk.from = p
        OBVIOUS
      <3> QED BY <3>1, <3>2, Zenon
    <2> QED BY <2>1, <2>2
  <1>7. c.notified \subseteq DOMAIN c.blocks
    <2>1. DOMAIN b.blocks \subseteq DOMAIN Append(b.blocks, blk)
      BY <1>1, Appended
    <2> QED BY <1>3, <2>1 DEF WholeTransfers
  <1>8. WholeTransfers(c)
    BY <1>3, <1>6, <1>7 DEF WholeTransfers
  <1> QED BY <1>1, <1>3, <1>5, <1>8 DEF Keeps

LEMMA NotifyKeeps ==
  ASSUME NEW b \in Banks, WholeTransfers(b), NEW n \in Nat
  PROVE  Keeps(b, OnNotify(b, n))
  <1>1. CASE n \notin DOMAIN b.blocks \ b.notified
    BY <1>1, Same DEF OnNotify
  <1>2. CASE n \in DOMAIN b.blocks \ b.notified
    <2> DEFINE c == OnNotify(b, n)
               q == b.blocks[n].from
               x == b.credit[q] + Transferred(q)
    <2>1. /\ b.blocks \in Seq([from : Funders, amount : Nat])
          /\ b.credit \in [Funders -> Nat] /\ b.holdings \in [Funders -> Nat]
      BY DEF Banks
    <2>2. q \in Funders /\ b.blocks[n].amount = Transferred(q)
      <3>1. n \in DOMAIN b.blocks
        BY <1>2
      <3>2. b.blocks[n] \in [from : Funders, amount : Nat]
        BY <2>1, <3>1, ElementOfSeq, LenProperties
      <3> QED BY <3>1, <3>2 DEF WholeTransfers
    <2>3. x \in Nat /\ x >= Transferred(q)
      <3>1. b.credit[q] \in Nat /\ Transferred(q) \in Nat
        BY <2>1, <2>2, TransferredType
      <3> QED BY <3>1
    <2>4. /\ c.notified = b.notified \cup {n}
          /\ c.credit = [b.credit EXCEPT ![q] = x]
          /\ c.balance = b.balance /\ c.blocks = b.blocks
          /\ c.holdings = b.holdings /\ c.log = b.log
          /\ c = [balance |-> c.balance, blocks |-> c.blocks, notified |-> c.notified,
                 credit |-> c.credit, holdings |-> c.holdings, log |-> c.log]
      BY <1>2, <2>2 DEF OnNotify, Banks
    <2>5. c.credit \in [Funders -> Nat]
      BY <2>1, <2>3, <2>4
    <2>6. c \in Banks
      BY <2>4, <2>5 DEF Banks
    <2>7. \A p \in Funders : c.credit[p] = 0 \/ c.credit[p] >= Transferred(p)
      BY <2>1, <2>2, <2>3, <2>4 DEF WholeTransfers
    <2>8. \A p \in Funders : c.credit[p] % Transferred(p) = 0
      <3> DEFINE t == Transferred(q)
                 y == b.credit[q]
      <3>1. /\ y \in Nat /\ t \in Nat /\ t > 0 /\ y % t = 0
        BY <2>1, <2>2, TransferredType DEF WholeTransfers
      <3> HIDE DEF t, y
      <3>2. (y + t) % t = 0
        BY <3>1, WholeSum
      <3>3. x % Transferred(q) = 0
        BY <3>2 DEF t, y
      <3>4. \A p \in Funders : c.credit[p] = IF p = q THEN x ELSE b.credit[p]
        BY <2>1, <2>4
      <3>5. \A p \in Funders : b.credit[p] % Transferred(p) = 0
        BY DEF WholeTransfers
      <3> SUFFICES ASSUME NEW p \in Funders PROVE c.credit[p] % Transferred(p) = 0
        OBVIOUS
      <3> HIDE DEF q, x, c
      <3>6. CASE p = q
        <4>1. c.credit[p] = x
          BY <3>4, <3>6
        <4> QED BY <3>3, <3>6, <4>1
      <3>7. CASE p # q
        <4>1. c.credit[p] = b.credit[p]
          BY <3>4, <3>7
        <4> QED BY <3>5, <4>1
      <3> QED BY <3>6, <3>7
    <2>9. c.notified \subseteq DOMAIN c.blocks
      BY <1>2, <2>4 DEF WholeTransfers
    <2>10. WholeTransfers(c)
      BY <2>4, <2>7, <2>8, <2>9 DEF WholeTransfers
    <2> QED BY <2>1, <2>4, <2>6, <2>10 DEF Keeps
  <1> QED BY <1>1, <1>2

LEMMA DepositKeeps ==
  ASSUME NEW b \in Banks, WholeTransfers(b), NEW p \in Funders
  PROVE  Keeps(b, OnDeposit(b, p))
  <1>1. CASE ~(b.credit[p] > 0)
    BY <1>1, Same DEF OnDeposit
  <1>2. CASE b.credit[p] > 0
    <2> DEFINE c == OnDeposit(b, p)
               total == b.holdings[p] + b.credit[p]
               ev == [who |-> p, total |-> total]
    <2>1. /\ b.log \in Seq([who : Funders, total : Nat])
          /\ b.credit \in [Funders -> Nat] /\ b.holdings \in [Funders -> Nat]
      BY DEF Banks
    <2>2. total \in Nat /\ total >= Transferred(p) /\ total >= b.holdings[p]
      <3>1. b.credit[p] >= Transferred(p)
        BY <1>2 DEF WholeTransfers
      <3> QED BY <2>1, <3>1, TransferredType
    <2>3. /\ c.credit = [b.credit EXCEPT ![p] = 0]
          /\ c.holdings = [b.holdings EXCEPT ![p] = total]
          /\ c.log = Append(b.log, ev)
          /\ c.balance = b.balance /\ c.blocks = b.blocks /\ c.notified = b.notified
          /\ c = [balance |-> c.balance, blocks |-> c.blocks, notified |-> c.notified,
                 credit |-> c.credit, holdings |-> c.holdings, log |-> c.log]
      BY <1>2 DEF OnDeposit, Banks
    <2>4. /\ c.credit \in [Funders -> Nat] /\ c.holdings \in [Funders -> Nat]
          /\ c.log \in Seq([who : Funders, total : Nat])
      <3>1. ev \in [who : Funders, total : Nat]
        BY <2>2
      <3>2. Append(b.log, ev) \in Seq([who : Funders, total : Nat])
        BY <2>1, <3>1, AppendProperties
      <3> QED BY <2>1, <2>2, <2>3, <3>2
    <2>5. c \in Banks
      BY <2>3, <2>4 DEF Banks
    <2>6. \A q \in Funders : c.holdings[q] >= b.holdings[q]
      BY <2>1, <2>2, <2>3
    <2>7. \A i \in DOMAIN c.log : c.holdings[c.log[i].who] >= Transferred(c.log[i].who)
      <3> SUFFICES ASSUME NEW i \in DOMAIN Append(b.log, ev)
                   PROVE  c.holdings[Append(b.log, ev)[i].who]
                              >= Transferred(Append(b.log, ev)[i].who)
        BY <2>3
      <3>0. /\ ev \in [who : Funders, total : Nat]
            /\ Len(b.log) \in Nat /\ DOMAIN b.log = 1..Len(b.log)
            /\ \A j \in 1..Len(b.log) :
                  Append(b.log, ev)[j] = b.log[j] /\ b.log[j].who \in Funders
            /\ Append(b.log, ev)[Len(b.log) + 1] = ev
            /\ DOMAIN Append(b.log, ev) = 1..Len(b.log) + 1
        <4>1. ev \in [who : Funders, total : Nat]
          BY <2>2
        <4>2. \A j \in 1..Len(b.log) : b.log[j] \in [who : Funders, total : Nat]
          BY <2>1, ElementOfSeq
        <4>3. b.log \in Seq([who : Funders, total : Nat])
          BY <2>1
        <4> HIDE DEF ev
        <4>4. /\ DOMAIN Append(b.log, ev) = 1..Len(b.log) \cup {Len(b.log) + 1}
              /\ Len(b.log) \in Nat /\ DOMAIN b.log = 1..Len(b.log)
              /\ \A j \in 1..Len(b.log) : Append(b.log, ev)[j] = b.log[j]
              /\ Append(b.log, ev)[Len(b.log) + 1] = ev
          BY <4>1, <4>3, Appended
        <4>5. 1..Len(b.log) \cup {Len(b.log) + 1} = 1..Len(b.log) + 1
          BY <4>4
        <4> QED BY <4>1, <4>2, <4>4, <4>5
      <3>1. CASE i \in DOMAIN b.log
        <4>1. Append(b.log, ev)[i] = b.log[i] /\ b.log[i].who \in Funders
          BY <2>1, <3>1, <3>0
        <4>2. b.holdings[b.log[i].who] >= Transferred(b.log[i].who)
          BY <3>1 DEF WholeTransfers
        <4> DEFINE q == b.log[i].who
        <4>3. /\ q \in Funders /\ c.holdings[q] >= b.holdings[q]
              /\ c.holdings[q] \in Nat /\ b.holdings[q] \in Nat /\ Transferred(q) \in Nat
          BY <2>1, <2>4, <2>6, <4>1, TransferredType
        <4> QED BY <4>1, <4>2, <4>3
      <3>2. CASE i \notin DOMAIN b.log
        <4>1. Append(b.log, ev)[i].who = p
          BY <3>0, <3>2
        <4> QED BY <2>1, <2>2, <2>3, <4>1
      <3> QED BY <3>1, <3>2
    <2>8. \A q \in Funders : c.credit[q] = 0 \/ c.credit[q] >= Transferred(q)
      BY <2>1, <2>3 DEF WholeTransfers
    <2>9. \A q \in Funders : c.credit[q] % Transferred(q) = 0
      <3>1. \A q \in Funders : c.credit[q] = IF q = p THEN 0 ELSE b.credit[q]
        BY <2>1, <2>3
      <3>2. 0 % Transferred(p) = 0
        BY TransferredType, WholeSum
      <3> HIDE DEF c
      <3> QED BY <3>1, <3>2 DEF WholeTransfers
    <2>10. WholeTransfers(c)
      BY <2>3, <2>7, <2>8, <2>9 DEF WholeTransfers
    <2> QED BY <2>5, <2>6, <2>10 DEF Keeps
  <1> QED BY <1>1, <1>2
-----------------------------------------------------------------------------
(* How a funder's control moves.                                           *)

(* The invariant without the bank's part.                                  *)
Control ==
    /\ pc \in [Funders -> Locations]
    /\ res \in [Funders -> Results]
    /\ connMutex \in [Processes -> Funders \cup {Nobody}]
    /\ MutexHeldAtCanister

(* After a step that keeps the bank, only the control and the results are  *)
(* left to show.                                                           *)
LEMMA StepIInv ==
  ASSUME IInv, Keeps(bank, bank'), Control',
         block' \in [Funders -> Nat],
         iters' \in [Funders -> 0..MaxIters],
         \A p \in Funders : pc'[p] = "poll" => iters'[p] < MaxIters,
         ctxDone' \in [Funders -> BOOLEAN],
         calls' \in [Funders -> Nat],
         faults' \in Nat, crashes' \in Nat,
         \A p \in Funders : res'[p] = "nil" => res[p] = "nil" \/ bank.holdings[p] >= Amount[p]
  PROVE  IInv'
  <1>1. TypeOK' /\ WholeTransfers(bank)' /\ MutexHeldAtCanister'
    BY DEF Control, Keeps, TypeOK
  <1>2. FundedIsHeld'
    <2> SUFFICES ASSUME NEW p \in Funders, res'[p] = "nil"
                 PROVE  bank'.holdings[p] >= Amount[p]
      BY DEF FundedIsHeld
    <2>1. bank.holdings[p] >= Amount[p]
      BY DEF IInv, FundedIsHeld
    <2>2. bank'.holdings[p] >= bank.holdings[p]
      BY DEF Keeps
    <2>3. Amount[p] \in Nat /\ bank.holdings[p] \in Nat /\ bank'.holdings[p] \in Nat
      BY FundingAssumption DEF IInv, TypeOK, Keeps, Banks
    <2> QED BY <2>1, <2>2, <2>3
  <1> QED BY <1>1, <1>2 DEF IInv

(* The end of a process frees its mutex and moves none of its funders into *)
(* the critical section.                                                   *)
LEMMA EndsControl ==
  ASSUME IInv, NEW q \in Processes, NEW r \in Results, ProcessEnds(q, r)
  PROVE  /\ Control'
         /\ \A p \in Funders : pc'[p] \in {pc[p], "idle"} /\ res'[p] \in {res[p], r}
  <1>1. pc' \in [Funders -> Locations] /\ res' \in [Funders -> Results]
    BY DEF IInv, TypeOK, ProcessEnds, Locations
  <1>2. connMutex' \in [Processes -> Funders \cup {Nobody}]
    BY DEF IInv, TypeOK, ProcessEnds
  <1>3. MutexHeldAtCanister'
    BY FunderAssumption
    DEF IInv, TypeOK, MutexHeldAtCanister, ProcessEnds, InCriticalSection
  <1>4. \A p \in Funders : pc'[p] \in {pc[p], "idle"} /\ res'[p] \in {res[p], r}
    BY DEF ProcessEnds
  <1> QED BY <1>1, <1>2, <1>3, <1>4 DEF Control

(* A step outside the critical section.                                    *)
LEMMA OutsideControl ==
  ASSUME IInv, NEW p \in Funders, pc[p] \notin InCriticalSection,
         NEW l \in Locations \ InCriticalSection, NEW r \in Results,
         Goto(p, l) \/ Return(p, r), UNCHANGED connMutex
  PROVE  Control'
  BY DEF IInv, TypeOK, Control, MutexHeldAtCanister, Goto, Return, Locations,
         InCriticalSection

(* Taking the mutex, and leaving the critical section.                     *)
LEMMA LockControl ==
  ASSUME IInv, NEW p \in Funders, NEW l \in InCriticalSection, Lock(p), Goto(p, l)
  PROVE  Control'
  <1>1. pc' \in [Funders -> Locations] /\ res' \in [Funders -> Results]
    BY DEF IInv, TypeOK, Goto, Locations
  <1>2. /\ pc'[p] \in InCriticalSection
        /\ \A x \in Funders \ {p} : pc'[x] = pc[x]
    BY DEF IInv, TypeOK, Goto, Locations, InCriticalSection
  <1>3. ProcessOf[p] \in Processes /\ connMutex[ProcessOf[p]] = Nobody
    BY FunderAssumption DEF Lock
  <1>4. connMutex' = [connMutex EXCEPT ![ProcessOf[p]] = p]
    BY DEF Lock
  <1>5. connMutex' \in [Processes -> Funders \cup {Nobody}]
    BY <1>3, <1>4 DEF IInv, TypeOK
  <1>6. \A q \in Processes : \A x \in Funders :
            connMutex'[q] = x <=> ProcessOf[x] = q /\ pc'[x] \in InCriticalSection
    <2> SUFFICES ASSUME NEW q \in Processes, NEW x \in Funders
                 PROVE  connMutex'[q] = x
                            <=> ProcessOf[x] = q /\ pc'[x] \in InCriticalSection
      OBVIOUS
    <2>1. connMutex[q] = x <=> ProcessOf[x] = q /\ pc[x] \in InCriticalSection
      BY DEF IInv, MutexHeldAtCanister
    <2>2. connMutex'[q] = IF q = ProcessOf[p] THEN p ELSE connMutex[q]
      BY <1>4 DEF IInv, TypeOK
    <2> QED BY <1>2, <1>3, <2>1, <2>2, FunderAssumption
  <1> QED BY <1>1, <1>5, <1>6 DEF Control, MutexHeldAtCanister

LEMMA UnlockControl ==
  ASSUME IInv, NEW p \in Funders, pc[p] \in InCriticalSection,
         NEW l \in Locations \ InCriticalSection, NEW r \in Results,
         Goto(p, l) \/ Return(p, r), Unlock(p)
  PROVE  Control'
  BY FunderAssumption
  DEF IInv, TypeOK, Control, MutexHeldAtCanister, Goto, Return, Unlock, Locations,
      InCriticalSection
-----------------------------------------------------------------------------
(* One lemma per action.                                                   *)

(* What a failed RPC leaves of the bank: all of it, or what a success does. *)
LEMMA FailKeeps ==
  ASSUME IInv, NEW b, Keeps(bank, b), Fails(b)
  PROVE  Keeps(bank, bank') /\ faults' \in Nat
  <1>1. Keeps(bank, bank)
    BY Same DEF IInv, TypeOK
  <1> QED BY <1>1 DEF Fails, IInv, TypeOK

LEMMA AnswerKeeps ==
  ASSUME IInv, NEW b, Keeps(bank, b), Answered(b)
  PROVE  Keeps(bank, bank') /\ faults' \in Nat
  BY DEF Answered, IInv, TypeOK

LEMMA UnexecutedKeeps ==
  ASSUME IInv, FailsUnexecuted
  PROVE  Keeps(bank, bank') /\ faults' \in Nat
  BY Same DEF FailsUnexecuted, IInv, TypeOK

LEMMA FundIInv ==
  ASSUME IInv, NEW p \in Funders, Fund(p) PROVE IInv'
  <1>1. Keeps(bank, bank')
    BY Same DEF Fund, IInv, TypeOK
  <1>2. Control'
    <2>1. pc[p] \notin InCriticalSection /\ UNCHANGED connMutex
      BY DEF Fund, InCriticalSection
    <2> QED BY <2>1, OutsideControl DEF Fund, Locations, Results, InCriticalSection
  <1>3. \A q \in Funders : /\ pc'[q] = "poll" => pc[q] = "poll"
                           /\ res'[q] = "nil" => res[q] = "nil"
    BY DEF Fund, Goto, Return, IInv, TypeOK
  <1>4. /\ block' = block /\ iters' = iters /\ faults' = faults /\ crashes' = crashes
        /\ calls' \in [Funders -> Nat] /\ ctxDone' \in [Funders -> BOOLEAN]
    BY DEF Fund, IInv, TypeOK
  <1> QED BY <1>1, <1>2, <1>3, <1>4, StepIInv DEF IInv, TypeOK

LEMMA TransferIInv ==
  ASSUME IInv, NEW p \in Funders, TransferToPerun(p) PROVE IInv'
  <1> DEFINE b == OnTransfer(bank, p)
  <1>1. bank \in Banks /\ WholeTransfers(bank)
    BY DEF IInv, TypeOK
  <1>2. CanTransfer(bank, p) => Keeps(bank, b)
    BY <1>1, TransferKeeps
  <1>3. /\ iters' = iters /\ ctxDone' = ctxDone /\ calls' = calls /\ crashes' = crashes
    BY DEF TransferToPerun
  <1>4. CASE /\ CanTransfer(bank, p) /\ Answered(b) /\ Goto(p, "lockForNotify")
             /\ block' = [block EXCEPT ![p] = Len(bank.blocks) + 1]
             /\ UNCHANGED connMutex
    <2>1. Keeps(bank, bank') /\ faults' \in Nat
      BY <1>2, <1>4, AnswerKeeps
    <2>2. block' \in [Funders -> Nat]
      <3>1. Len(bank.blocks) \in Nat
        BY <1>1, LenProperties DEF Banks
      <3> QED BY <1>4, <3>1 DEF IInv, TypeOK
    <2>3. Control'
      BY <1>4, OutsideControl
      DEF TransferToPerun, Locations, Results, InCriticalSection
    <2>4. \A q \in Funders : (pc'[q] = "poll" => pc[q] = "poll") /\ res'[q] = res[q]
      BY <1>4 DEF Goto, IInv, TypeOK
    <2> QED BY <1>3, <2>1, <2>2, <2>3, <2>4, StepIInv DEF IInv, TypeOK
  <1>5. CASE /\ \/ ~CanTransfer(bank, p) /\ Answered(bank)
                \/ CanTransfer(bank, p) /\ Fails(b)
             /\ ProcessEnds(ProcessOf[p], "panic") /\ UNCHANGED block
    <2>1. Keeps(bank, bank') /\ faults' \in Nat
      BY <1>1, <1>2, <1>5, Same, AnswerKeeps, FailKeeps
    <2>2. /\ Control'
          /\ \A q \in Funders : pc'[q] \in {pc[q], "idle"} /\ res'[q] \in {res[q], "panic"}
      BY <1>5, EndsControl, FunderAssumption DEF Results
    <2> QED BY <1>3, <1>5, <2>1, <2>2, StepIInv DEF IInv, TypeOK
  <1> QED BY <1>4, <1>5 DEF TransferToPerun

LEMMA LockIInv ==
  ASSUME IInv, NEW p \in Funders, LockForNotify(p) \/ LockForDeposit(p) PROVE IInv'
  <1>1. Keeps(bank, bank')
    BY Same DEF LockForNotify, LockForDeposit, IInv, TypeOK
  <1>2. Control'
    BY LockControl DEF LockForNotify, LockForDeposit, InCriticalSection
  <1>3. \A q \in Funders : (pc'[q] = "poll" => pc[q] = "poll") /\ res'[q] = res[q]
    BY DEF LockForNotify, LockForDeposit, Goto, IInv, TypeOK
  <1>4. UNCHANGED <<block, iters, ctxDone, calls, faults, crashes>>
    BY DEF LockForNotify, LockForDeposit
  <1> QED BY <1>1, <1>2, <1>3, <1>4, StepIInv DEF IInv, TypeOK

LEMMA NotifyIInv ==
  ASSUME IInv, NEW p \in Funders, NotifyTransferToPerun(p) PROVE IInv'
  <1> DEFINE b == OnNotify(bank, block[p])
  <1>1. Keeps(bank, b)
    BY NotifyKeeps DEF IInv, TypeOK
  <1>2. pc[p] \in InCriticalSection /\ UNCHANGED <<block, iters, ctxDone, calls, crashes>>
    BY DEF NotifyTransferToPerun, InCriticalSection
  <1>3. CASE /\ \/ Answered(b) /\ Goto(p, "lockForDeposit")
                \/ Fails(b) /\ Return(p, "ErrNotify")
             /\ Unlock(p)
    <2>1. Keeps(bank, bank') /\ faults' \in Nat
      BY <1>1, <1>3, AnswerKeeps, FailKeeps
    <2>2. Control'
      BY <1>2, <1>3, UnlockControl DEF Locations, Results, InCriticalSection
    <2>3. \A q \in Funders : /\ pc'[q] = "poll" => pc[q] = "poll"
                             /\ res'[q] = "nil" => res[q] = "nil"
      BY <1>3 DEF Goto, Return, IInv, TypeOK
    <2> QED BY <1>2, <2>1, <2>2, <2>3, StepIInv DEF IInv, TypeOK
  <1>4. CASE FailsUnexecuted /\ ProcessEnds(ProcessOf[p], "panic")
    <2>1. Keeps(bank, bank') /\ faults' \in Nat
      BY <1>4, UnexecutedKeeps
    <2>2. /\ Control'
          /\ \A q \in Funders : pc'[q] \in {pc[q], "idle"} /\ res'[q] \in {res[q], "panic"}
      BY <1>4, EndsControl, FunderAssumption DEF Results
    <2> QED BY <1>2, <2>1, <2>2, StepIInv DEF IInv, TypeOK
  <1> QED BY <1>3, <1>4 DEF NotifyTransferToPerun

LEMMA DepositIInv ==
  ASSUME IInv, NEW p \in Funders, DepositToPerunChannel(p) PROVE IInv'
  <1> DEFINE b == OnDeposit(bank, p)
  <1>1. Keeps(bank, b)
    BY DepositKeeps DEF IInv, TypeOK
  <1>2. Keeps(bank, bank') /\ faults' \in Nat
    BY <1>1, AnswerKeeps, FailKeeps, UnexecutedKeeps DEF DepositToPerunChannel
  <1>3. /\ pc[p] \in InCriticalSection /\ Unlock(p)
        /\ UNCHANGED <<block, ctxDone, calls, crashes>>
    BY DEF DepositToPerunChannel, InCriticalSection
  <1>4. Control'
    BY <1>3, UnlockControl DEF DepositToPerunChannel, Locations, Results, InCriticalSection
  <1>5. CASE Goto(p, "poll") /\ iters' = [iters EXCEPT ![p] = 0]
    <2>1. /\ iters' \in [Funders -> 0..MaxIters]
          /\ \A q \in Funders : pc'[q] = "poll" => iters'[q] < MaxIters
      BY <1>5, FunderAssumption DEF Goto, IInv, TypeOK
    <2>2. res' = res
      BY <1>5 DEF Goto
    <2> QED BY <1>2, <1>3, <1>4, <2>1, <2>2, StepIInv DEF IInv, TypeOK
  <1>6. CASE Return(p, "ErrDeposit") /\ UNCHANGED iters
    <2>1. \A q \in Funders : /\ pc'[q] = "poll" => pc[q] = "poll"
                             /\ res'[q] = "nil" => res[q] = "nil"
      BY <1>6 DEF Return, IInv, TypeOK
    <2> QED BY <1>2, <1>3, <1>4, <1>6, <2>1, StepIInv DEF IInv, TypeOK
  <1> QED BY <1>5, <1>6 DEF DepositToPerunChannel

(* A replica shows a prefix of the log, and every event of it proves its   *)
(* participant's holdings.                                                 *)
LEMMA SeenIsHeld ==
  ASSUME IInv, NEW p \in Funders, NEW log \in VisibleLogs, EvaluateFundedEvents(log, p)
  PROVE  bank.holdings[p] >= Amount[p]
  <1>1. bank.holdings[p] \in Nat /\ bank.log \in Seq([who : Funders, total : Nat])
    BY DEF IInv, TypeOK, Banks
  <1>2. CASE Amount[p] = 0
    BY <1>1, <1>2
  <1>3. ASSUME NEW i \in DOMAIN log, log[i].who = p
        PROVE  bank.holdings[p] >= Amount[p]
    <2>1. PICK k \in 0..Len(bank.log) : log = SubSeq(bank.log, 1, k)
      BY DEF VisibleLogs
    <2>2. i \in DOMAIN bank.log /\ bank.log[i] = log[i]
      BY <1>1, <1>3, <2>1
    <2>3. bank.holdings[p] >= Transferred(p)
      BY <1>3, <2>2 DEF IInv, WholeTransfers
    <2> QED BY <1>1, <2>3, TransferredType, FundingAssumption
  <1> QED BY <1>2, <1>3, FundedHasEvent

LEMMA NextTurnControl ==
  ASSUME IInv, NEW p \in Funders, pc[p] = "poll", NextTurn(p), UNCHANGED connMutex
  PROVE  /\ Control'
         /\ iters' \in [Funders -> 0..MaxIters]
         /\ \A q \in Funders : pc'[q] = "poll" => iters'[q] < MaxIters
         /\ \A q \in Funders : res'[q] = "nil" => res[q] = "nil"
  <1>1. iters[p] \in 0..MaxIters /\ iters[p] < MaxIters /\ MaxIters \in Nat
    BY FunderAssumption DEF IInv, TypeOK
  <1>2. iters' = [iters EXCEPT ![p] = iters[p] + 1]
    BY DEF NextTurn
  <1>3. iters' \in [Funders -> 0..MaxIters]
    BY <1>1, <1>2 DEF IInv, TypeOK
  <1>4. CASE iters[p] + 1 < MaxIters /\ UNCHANGED <<pc, res>>
    BY <1>1, <1>2, <1>3, <1>4 DEF Control, IInv, TypeOK, MutexHeldAtCanister
  <1>5. CASE Return(p, "FundingTimeoutError")
    <2>1. Control'
      BY <1>5, OutsideControl DEF Locations, Results, InCriticalSection
    <2> QED BY <1>2, <1>3, <1>5, <2>1 DEF Return, IInv, TypeOK
  <1> QED BY <1>4, <1>5 DEF NextTurn

LEMMA QueryIInv ==
  ASSUME IInv, NEW p \in Funders, QueryFundingState(p) PROVE IInv'
  <1>1. Keeps(bank, bank') /\ faults' \in Nat
    <2>1. Keeps(bank, bank)
      BY Same DEF IInv, TypeOK
    <2> QED BY <2>1, AnswerKeeps, UnexecutedKeeps DEF QueryFundingState, Sees, Unparsable
  <1>2. /\ pc[p] = "poll"
        /\ UNCHANGED <<block, ctxDone, connMutex, calls, crashes>>
    BY DEF QueryFundingState
  <1>3. CASE NextTurn(p)
    <2>1. /\ Control'
          /\ iters' \in [Funders -> 0..MaxIters]
          /\ \A q \in Funders : pc'[q] = "poll" => iters'[q] < MaxIters
          /\ \A q \in Funders : res'[q] = "nil" => res[q] = "nil"
      BY <1>2, <1>3, NextTurnControl
    <2> QED BY <1>1, <1>2, <2>1, StepIInv DEF IInv, TypeOK
  <1>4. CASE /\ Return(p, "nil") /\ UNCHANGED iters
             /\ \E log \in VisibleLogs : EvaluateFundedEvents(log, p)
    <2>1. bank.holdings[p] >= Amount[p]
      BY <1>4, SeenIsHeld
    <2>2. Control'
      BY <1>2, <1>4, OutsideControl DEF Locations, Results, InCriticalSection
    <2>3. \A q \in Funders :
              /\ pc'[q] = "poll" => pc[q] = "poll"
              /\ res'[q] = "nil" => res[q] = "nil" \/ bank.holdings[q] >= Amount[q]
      BY <1>4, <2>1 DEF Return, IInv, TypeOK
    <2> QED BY <1>1, <1>2, <1>4, <2>2, <2>3, StepIInv DEF IInv, TypeOK
  <1>5. CASE Unparsable(p)
    <2>1. Return(p, "ErrParse") /\ UNCHANGED iters
      BY <1>5 DEF Unparsable
    <2>2. Control'
      BY <1>2, <2>1, OutsideControl DEF Locations, Results, InCriticalSection
    <2>3. \A q \in Funders :
              /\ pc'[q] = "poll" => pc[q] = "poll"
              /\ res'[q] = "nil" => res[q] = "nil"
      BY <2>1 DEF Return, IInv, TypeOK
    <2> QED BY <1>1, <1>2, <2>1, <2>2, <2>3, StepIInv DEF IInv, TypeOK
  <1> QED BY <1>3, <1>4, <1>5 DEF QueryFundingState

LEMMA ContextDoneIInv ==
  ASSUME IInv, NEW p \in Funders, ContextDone(p) PROVE IInv'
  <1>1. Keeps(bank, bank')
    BY Same DEF ContextDone, IInv, TypeOK
  <1>2. Control'
    BY OutsideControl DEF ContextDone, Locations, Results, InCriticalSection
  <1>3. \A q \in Funders : /\ pc'[q] = "poll" => pc[q] = "poll"
                           /\ res'[q] = "nil" => res[q] = "nil"
    BY DEF ContextDone, Return, IInv, TypeOK
  <1>4. UNCHANGED <<block, iters, ctxDone, calls, faults, crashes>>
    BY DEF ContextDone
  <1> QED BY <1>1, <1>2, <1>3, <1>4, StepIInv DEF IInv, TypeOK

LEMMA CancelIInv ==
  ASSUME IInv, NEW p \in Funders, Cancel(p) PROVE IInv'
  <1>1. Keeps(bank, bank')
    BY Same DEF Cancel, IInv, TypeOK
  <1>2. Control'
    BY DEF Cancel, Control, MutexHeldAtCanister, IInv, TypeOK
  <1>3. ctxDone' \in [Funders -> BOOLEAN]
    BY DEF Cancel, IInv, TypeOK
  <1>4. UNCHANGED <<pc, res, block, iters, calls, faults, crashes>>
    BY DEF Cancel
  <1> QED BY <1>1, <1>2, <1>3, <1>4, StepIInv DEF IInv, TypeOK

LEMMA KillIInv ==
  ASSUME IInv, NEW q \in Processes, Kill(q) PROVE IInv'
  <1>1. Keeps(bank, bank')
    BY Same DEF Kill, IInv, TypeOK
  <1>2. /\ Control'
        /\ \A p \in Funders : pc'[p] \in {pc[p], "idle"} /\ res'[p] \in {res[p], "killed"}
    BY EndsControl DEF Kill, Results
  <1>3. UNCHANGED <<block, iters, ctxDone, calls, faults>> /\ crashes' \in Nat
    BY DEF Kill, IInv, TypeOK
  <1> QED BY <1>1, <1>2, <1>3, StepIInv DEF IInv, TypeOK
-----------------------------------------------------------------------------
(* IInv is inductive: the bank's credits come from whole transfers, a free *)
(* mutex has nobody in its critical section, and nil means funded.         *)
THEOREM Inductive == Spec => []IInv
  <1>1. IInv /\ [Next]_vars => IInv'
    <2> SUFFICES ASSUME IInv, [Next]_vars PROVE IInv'
      OBVIOUS
    <2>1. ASSUME NEW p \in Funders, Fund(p) PROVE IInv'
      BY <2>1, FundIInv
    <2>2. ASSUME NEW p \in Funders, Step(p) PROVE IInv'
      BY <2>2, TransferIInv, LockIInv, NotifyIInv, DepositIInv, QueryIInv, ContextDoneIInv
      DEF Step
    <2>3. ASSUME NEW p \in Funders, Cancel(p) PROVE IInv'
      BY <2>3, CancelIInv
    <2>4. ASSUME NEW q \in Processes, Kill(q) PROVE IInv'
      BY <2>4, KillIInv
    <2>5. CASE UNCHANGED vars
      BY <2>5 DEF vars, IInv, TypeOK, MutexHeldAtCanister, FundedIsHeld
    <2> QED BY <2>1, <2>2, <2>3, <2>4, <2>5 DEF Next
  <1> QED BY <1>1, InitIInv, PTL DEF Spec

(* The variables keep their types.                                         *)
THEOREM TypeCorrect == Spec => []TypeOK
  <1>1. IInv => TypeOK
    BY DEF IInv
  <1> QED BY <1>1, Inductive, PTL

(* connMutex is held by the funder that waits for the canister and by      *)
(* nobody else, whatever calls fail and processes end.                     *)
THEOREM MutexIsExact == Spec => []MutexHeldAtCanister
  <1>1. IInv => MutexHeldAtCanister
    BY DEF IInv
  <1> QED BY <1>1, Inductive, PTL

(* A Fund that returns nil leaves its participant with the agreed amount   *)
(* in the channel.                                                         *)
THEOREM NilMeansFunded == Spec => []FundedIsHeld
  <1>1. IInv => FundedIsHeld
    BY DEF IInv
  <1> QED BY <1>1, Inductive, PTL
-----------------------------------------------------------------------------
(* The funder implements ChannelFunding.                                   *)

(* The calls of ChannelFunding.                                            *)
Calls == [p \in Funders |-> CallOf(p)]

LEMMA UnnotifiedFinite ==
  ASSUME NEW b \in Banks, NEW p
  PROVE  /\ IsFiniteSet(Unnotified(b, p))
         /\ Cardinality(Unnotified(b, p)) \in Nat
  <1>1. Len(b.blocks) \in Nat /\ DOMAIN b.blocks = 1..Len(b.blocks)
    BY LenProperties DEF Banks
  <1>2. Unnotified(b, p) \in SUBSET (1..Len(b.blocks))
    BY <1>1 DEF Unnotified
  <1>3. IsFiniteSet(1..Len(b.blocks))
    BY <1>1, FS_Interval
  <1>4. IsFiniteSet(Unnotified(b, p))
    BY <1>2, <1>3, FS_Subset
  <1> QED BY <1>4, FS_CardinalityType

(* A transfer is underway once the ledger has its block.                   *)
LEMMA TransferMoves ==
  ASSUME NEW b \in Banks, WholeTransfers(b), NEW p \in Funders, CanTransfer(b, p),
         NEW c, c = OnTransfer(b, p)
  PROVE  /\ b.balance[p] >= Transferred(p) + Fee
         /\ c.balance = [b.balance EXCEPT ![p] = @ - (Transferred(p) + Fee)]
         /\ Underway(c) = [Underway(b) EXCEPT ![p] = @ + Transferred(p)]
         /\ c.holdings = b.holdings
  <1> DEFINE blk == [from |-> p, amount |-> Transferred(p)]
             n == Len(b.blocks) + 1
  <1>1. /\ b.balance \in [Funders -> Nat] /\ b.credit \in [Funders -> Nat]
        /\ b.blocks \in Seq([from : Funders, amount : Nat])
        /\ blk \in [from : Funders, amount : Nat]
    BY TransferredType DEF Banks
  <1>2. /\ c.balance = [b.balance EXCEPT ![p] = b.balance[p] - Transferred(p) - Fee]
        /\ c.blocks = Append(b.blocks, blk)
        /\ c.notified = b.notified /\ c.credit = b.credit /\ c.holdings = b.holdings
    <2>1. b = [balance |-> b.balance, blocks |-> b.blocks, notified |-> b.notified,
               credit |-> b.credit, holdings |-> b.holdings, log |-> b.log]
      BY DEF Banks
    <2>2. c = [b EXCEPT !.balance = [b.balance EXCEPT ![p] = b.balance[p] - Transferred(p) - Fee],
                        !.blocks = Append(b.blocks, blk)]
      BY DEF OnTransfer
    <2>3. c.balance = [b.balance EXCEPT ![p] = b.balance[p] - Transferred(p) - Fee]
      BY <2>1, <2>2
    <2>4. c.blocks = Append(b.blocks, blk)
      BY <2>1, <2>2
    <2> QED BY <2>1, <2>2, <2>3, <2>4
  <1>3. /\ n \notin DOMAIN b.blocks /\ n \notin b.notified
        /\ DOMAIN c.blocks = DOMAIN b.blocks \cup {n}
        /\ c.blocks[n].from = p
        /\ \A k \in DOMAIN b.blocks : c.blocks[k].from = b.blocks[k].from
    <2>1. /\ Len(b.blocks) \in Nat /\ DOMAIN b.blocks = 1..Len(b.blocks)
          /\ DOMAIN Append(b.blocks, blk) = 1..n
          /\ Append(b.blocks, blk)[n] = blk
          /\ \A k \in 1..Len(b.blocks) : Append(b.blocks, blk)[k] = b.blocks[k]
      BY <1>1, AppendProperties, LenProperties
    <2>2. n \notin b.notified
      <3>1. b.notified \subseteq DOMAIN b.blocks
        BY DEF WholeTransfers
      <3> QED BY <2>1, <3>1
    <2> QED BY <1>2, <2>1, <2>2
  <1> HIDE DEF n
  <1>4. /\ Unnotified(c, p) = Unnotified(b, p) \cup {n}
        /\ \A q \in Funders \ {p} : Unnotified(c, q) = Unnotified(b, q)
        /\ n \notin Unnotified(b, p)
    BY <1>2, <1>3 DEF Unnotified
  <1>5. Cardinality(Unnotified(c, p)) = Cardinality(Unnotified(b, p)) + 1
    BY <1>4, UnnotifiedFinite, FS_AddElement
  <1>6. Underway(c)[p] = Underway(b)[p] + Transferred(p)
    <2> DEFINE k == Cardinality(Unnotified(b, p))
               t == Transferred(p)
               x == b.credit[p]
    <2>1. k \in Nat /\ t \in Nat /\ x \in Nat
      BY <1>1, UnnotifiedFinite, TransferredType
    <2>2. Underway(c)[p] = x + (k + 1) * t /\ Underway(b)[p] = x + k * t
      BY <1>2, <1>5 DEF Underway
    <2> HIDE DEF k, t, x
    <2>3. x + (k + 1) * t = (x + k * t) + t
      BY <2>1
    <2> QED BY <2>2, <2>3 DEF t
  <1>7. \A q \in Funders \ {p} : Underway(c)[q] = Underway(b)[q]
    BY <1>2, <1>4 DEF Underway
  <1>8. Underway(c) = [Underway(b) EXCEPT ![p] = @ + Transferred(p)]
    BY <1>6, <1>7 DEF Underway
  <1>9. /\ b.balance[p] >= Transferred(p) + Fee
        /\ b.balance[p] - Transferred(p) - Fee = b.balance[p] - (Transferred(p) + Fee)
    BY <1>1, TransferredType, FundingAssumption DEF CanTransfer
  <1> QED BY <1>2, <1>8, <1>9

(* It stays underway when the canister is told of it.                      *)
LEMMA NotifyMoves ==
  ASSUME NEW b \in Banks, WholeTransfers(b), NEW n \in Nat, NEW c, c = OnNotify(b, n)
  PROVE  c.balance = b.balance /\ Underway(c) = Underway(b) /\ c.holdings = b.holdings
  <1>1. CASE n \notin DOMAIN b.blocks \ b.notified
    BY <1>1 DEF OnNotify
  <1>2. CASE n \in DOMAIN b.blocks \ b.notified
    <2> DEFINE q == b.blocks[n].from
               t == Transferred(q)
               k == Cardinality(Unnotified(b, q))
    <2>1. b.blocks \in Seq([from : Funders, amount : Nat]) /\ b.credit \in [Funders -> Nat]
      BY DEF Banks
    <2>2. q \in Funders /\ b.blocks[n].amount = t
      <3>1. n \in DOMAIN b.blocks
        BY <1>2
      <3>2. b.blocks[n] \in [from : Funders, amount : Nat]
        BY <2>1, <3>1, ElementOfSeq, LenProperties
      <3> QED BY <3>1, <3>2 DEF WholeTransfers
    <2>3. /\ c.notified = b.notified \cup {n}
          /\ c.credit = [b.credit EXCEPT ![q] = b.credit[q] + t]
          /\ c.balance = b.balance /\ c.blocks = b.blocks /\ c.holdings = b.holdings
      BY <1>2, <2>2 DEF OnNotify, Banks
    <2>4. /\ Unnotified(c, q) = Unnotified(b, q) \ {n} /\ n \in Unnotified(b, q)
          /\ \A x \in Funders \ {q} : Unnotified(c, x) = Unnotified(b, x)
      <3>1. n \in Unnotified(b, q)
        BY <1>2 DEF Unnotified
      <3>2. \A x : Unnotified(c, x) = Unnotified(b, x) \ {n}
        BY <2>3 DEF Unnotified
      <3>3. \A x \in Funders \ {q} : n \notin Unnotified(b, x)
        BY DEF Unnotified
      <3> HIDE DEF q
      <3> QED BY <3>1, <3>2, <3>3
    <2>5. Cardinality(Unnotified(c, q)) = k - 1
      <3>1. IsFiniteSet(Unnotified(b, q))
        BY UnnotifiedFinite
      <3>2. Cardinality(Unnotified(b, q) \ {n}) = k - 1
        BY <2>4, <3>1, FS_RemoveElement
      <3> QED BY <2>4, <3>2
    <2>6. Underway(c)[q] = Underway(b)[q]
      <3> DEFINE y == b.credit[q]
      <3>1. k \in Nat /\ t \in Nat /\ y \in Nat
        BY <2>1, <2>2, UnnotifiedFinite, TransferredType
      <3>2. Underway(c)[q] = (y + t) + (k - 1) * t /\ Underway(b)[q] = y + k * t
        BY <2>1, <2>2, <2>3, <2>5 DEF Underway
      <3> HIDE DEF k, t, y
      <3>3. (y + t) + (k - 1) * t = y + k * t
        BY <3>1
      <3> QED BY <3>2, <3>3
    <2> HIDE DEF q
    <2>7. \A x \in Funders \ {q} : Underway(c)[x] = Underway(b)[x]
      BY <2>1, <2>3, <2>4 DEF Underway
    <2>8. \A x \in Funders : Underway(c)[x] = Underway(b)[x]
      BY <2>6, <2>7
    <2>9. Underway(c) = Underway(b)
      BY <2>8 DEF Underway
    <2> QED BY <2>3, <2>9
  <1> QED BY <1>1, <1>2

(* A deposit moves whole transfers into the channel.                       *)
LEMMA DepositMoves ==
  ASSUME NEW b \in Banks, WholeTransfers(b), NEW p \in Funders, b.credit[p] > 0,
         NEW c, c = OnDeposit(b, p), NEW x, x = b.credit[p]
  PROVE  /\ x \in 1..Underway(b)[p] /\ x % Transferred(p) = 0
         /\ c.balance = b.balance
         /\ Underway(c) = [Underway(b) EXCEPT ![p] = @ - x]
         /\ c.holdings = [b.holdings EXCEPT ![p] = @ + x]
  <1>1. b.credit \in [Funders -> Nat] /\ x \in Nat /\ x > 0
    BY DEF Banks
  <1>2. /\ c.credit = [b.credit EXCEPT ![p] = 0]
        /\ c.holdings = [b.holdings EXCEPT ![p] = @ + x]
        /\ c.balance = b.balance /\ c.blocks = b.blocks /\ c.notified = b.notified
    BY DEF OnDeposit, Banks
  <1>3. \A q \in Funders : Unnotified(c, q) = Unnotified(b, q)
    BY <1>2 DEF Unnotified
  <1>4. x % Transferred(p) = 0
    BY DEF WholeTransfers
  <1> DEFINE k == Cardinality(Unnotified(b, p))
             t == Transferred(p)
             y == k * t
  <1>5. y \in Nat
    <2>1. k \in Nat /\ t \in Nat
      BY UnnotifiedFinite, TransferredType
    <2> HIDE DEF k, t
    <2> QED BY <2>1
  <1>6. Underway(b)[p] = x + y /\ Underway(c)[p] = 0 + y
    BY <1>1, <1>2, <1>3 DEF Underway
  <1>7. \A q \in Funders \ {p} : Underway(c)[q] = Underway(b)[q]
    BY <1>1, <1>2, <1>3 DEF Underway
  <1> HIDE DEF y
  <1>8. x \in 1..Underway(b)[p] /\ Underway(c)[p] = Underway(b)[p] - x
    BY <1>1, <1>5, <1>6
  <1>9. Underway(c) = [Underway(b) EXCEPT ![p] = @ - x]
    BY <1>7, <1>8 DEF Underway
  <1> QED BY <1>2, <1>4, <1>8, <1>9

(* How a step of one funder is seen in the calls.                          *)
LEMMA CallSteps ==
  ASSUME IInv, NEW p \in Funders
  PROVE  /\ p \in Funding!Running <=> pc[p] # "idle"
         /\ \A l \in Locations : Goto(p, l) /\ l \notin {"idle", "transfer"}
               => Calls' = [Calls EXCEPT ![p] = "paid"]
         /\ \A r \in Results : Return(p, r) =>
               Calls' = [Calls EXCEPT ![p] = IF r \in {"none", "nil"} THEN r ELSE "error"]
  <1>1. pc \in [Funders -> Locations] /\ res \in [Funders -> Results]
    BY DEF IInv, TypeOK
  <1>2. p \in Funding!Running <=> pc[p] # "idle"
    BY <1>1 DEF Funding!Running, CallOf, Results
  <1>3. ASSUME NEW l \in Locations, Goto(p, l), l \notin {"idle", "transfer"}
        PROVE  Calls' = [Calls EXCEPT ![p] = "paid"]
    <2>1. CallOf(p)' = "paid" /\ \A q \in Funders \ {p} : CallOf(q)' = CallOf(q)
      BY <1>1, <1>3 DEF Goto, CallOf
    <2> QED BY <2>1 DEF Calls
  <1>4. ASSUME NEW r \in Results, Return(p, r)
        PROVE  Calls' = [Calls EXCEPT ![p] = IF r \in {"none", "nil"} THEN r ELSE "error"]
    <2>1. /\ CallOf(p)' = IF r \in {"none", "nil"} THEN r ELSE "error"
          /\ \A q \in Funders \ {p} : CallOf(q)' = CallOf(q)
      BY <1>1, <1>4 DEF Return, CallOf
    <2> QED BY <2>1 DEF Calls
  <1> QED BY <1>2, <1>3, <1>4

(* The end of a process fails the calls that run in it.                    *)
LEMMA EndsCalls ==
  ASSUME IInv, NEW q \in Processes, NEW r \in {"panic", "killed"}, ProcessEnds(q, r)
  PROVE  \E S \in SUBSET Funding!Running :
             /\ \A p \in Funders : ProcessOf[p] = q /\ pc[p] # "idle" => p \in S
             /\ Calls' = [p \in Funders |-> IF p \in S THEN "error" ELSE Calls[p]]
  <1> DEFINE S == {p \in Funders : ProcessOf[p] = q /\ pc[p] # "idle"}
  <1>1. pc \in [Funders -> Locations] /\ res \in [Funders -> Results]
    BY DEF IInv, TypeOK
  <1>2. S \in SUBSET Funding!Running
    <2>1. \A p \in S : p \in Funding!Running
      BY CallSteps
    <2> QED BY <2>1
  <1>3. /\ pc' = [p \in Funders |-> IF p \in S THEN "idle" ELSE pc[p]]
        /\ res' = [p \in Funders |-> IF p \in S THEN r ELSE res[p]]
    BY DEF ProcessEnds
  <1>4. \A p \in S : p \in Funders
    OBVIOUS
  <1>5. \A p \in Funders : ProcessOf[p] = q /\ pc[p] # "idle" => p \in S
    OBVIOUS
  <1> HIDE DEF S
  <1>6. \A p \in Funders : CallOf(p)' = IF p \in S THEN "error" ELSE CallOf(p)
    BY <1>1, <1>3 DEF CallOf
  <1>7. Calls' = [p \in Funders |-> IF p \in S THEN "error" ELSE Calls[p]]
    BY <1>6 DEF Calls
  <1> QED BY <1>2, <1>5, <1>7

(* One lemma per action: what ChannelFunding sees of it.                   *)
LEMMA FundRefines ==
  ASSUME IInv, NEW p \in Funders, Fund(p)
  PROVE  Funding!Begin(p)
  <1>1. pc \in [Funders -> Locations] /\ pc[p] = "idle"
    BY DEF Fund, IInv, TypeOK
  <1>2. p \notin Funding!Running
    BY <1>1, CallSteps
  <1>3. \E c \in {"begun", "error"} : Calls' = [Calls EXCEPT ![p] = c]
    <2>1. CASE Goto(p, "transfer")
      <3>1. CallOf(p)' = "begun" /\ \A q \in Funders \ {p} : CallOf(q)' = CallOf(q)
        BY <1>1, <2>1 DEF Goto, CallOf
      <3>2. Calls' = [Calls EXCEPT ![p] = "begun"]
        BY <3>1 DEF Calls
      <3> QED BY <3>2
    <2>2. CASE Return(p, "ErrFundingReqIncompatible")
      <3>1. Calls' = [Calls EXCEPT ![p] = "error"]
        BY <2>2, CallSteps DEF Results
      <3> QED BY <3>1
    <2> QED BY <2>1, <2>2 DEF Fund
  <1>4. bank' = bank
    BY DEF Fund
  <1> QED BY <1>2, <1>3, <1>4 DEF Funding!Begin, Funding!money, Calls, Underway

LEMMA TransferRefines ==
  ASSUME IInv, NEW p \in Funders, TransferToPerun(p)
  PROVE  Funding!Pay(p) \/ Funding!Abort
  <1> DEFINE c == OnTransfer(bank, p)
  <1>1. bank \in Banks /\ WholeTransfers(bank) /\ pc[p] = "transfer"
    BY DEF IInv, TypeOK, TransferToPerun
  <1>2. ASSUME bank' = c, CanTransfer(bank, p),
               \/ Calls' = [Calls EXCEPT ![p] = "paid"]
               \/ \E S \in SUBSET Funding!Running :
                     /\ p \in S
                     /\ Calls' = [q \in Funders |-> IF q \in S THEN "error" ELSE Calls[q]]
        PROVE  Funding!Pay(p)
    <2>1. /\ bank.balance[p] >= Transferred(p) + Fee
          /\ bank'.balance = [bank.balance EXCEPT ![p] = @ - (Transferred(p) + Fee)]
          /\ Underway(bank') = [Underway(bank) EXCEPT ![p] = @ + Transferred(p)]
          /\ bank'.holdings = bank.holdings
      BY <1>1, <1>2, TransferMoves
    <2>2. Underway(bank)' = Underway(bank')
      BY DEF Underway, Unnotified
    <2>3. CallOf(p) = "begun"
      BY <1>1 DEF CallOf
    <2> HIDE DEF c
    <2> QED BY <1>2, <2>1, <2>2, <2>3 DEF Funding!Pay, Funding!Fail, Calls
  <1>3. CASE Answered(c) /\ CanTransfer(bank, p) /\ Goto(p, "lockForNotify")
    <2>1. Calls' = [Calls EXCEPT ![p] = "paid"]
      BY <1>3, CallSteps DEF Locations
    <2> QED BY <1>2, <1>3, <2>1 DEF Answered
  <1>4. CASE /\ bank' = bank \/ (CanTransfer(bank, p) /\ bank' = c)
             /\ ProcessEnds(ProcessOf[p], "panic")
    <2>1. PICK S \in SUBSET Funding!Running :
             /\ \A q \in Funders : ProcessOf[q] = ProcessOf[p] /\ pc[q] # "idle" => q \in S
             /\ Calls' = [q \in Funders |-> IF q \in S THEN "error" ELSE Calls[q]]
      BY <1>4, EndsCalls, FunderAssumption
    <2>2. p \in S
      BY <1>1, <2>1
    <2>3. CASE bank' = bank
      BY <2>1, <2>3 DEF Funding!Abort, Funding!Fail, Funding!money, Calls
    <2>4. CASE CanTransfer(bank, p) /\ bank' = c
      BY <1>2, <2>1, <2>2, <2>4
    <2> QED BY <1>4, <2>3, <2>4
  <1> QED BY <1>3, <1>4 DEF TransferToPerun, Answered, Fails

(* Steps that move no money and at most fail calls, and steps that move    *)
(* none and change no call.                                                *)
LEMMA AbortStep ==
  ASSUME bank'.balance = bank.balance, Underway(bank)' = Underway(bank),
         bank'.holdings = bank.holdings,
         NEW S \in SUBSET Funding!Running,
         Calls' = [q \in Funders |-> IF q \in S THEN "error" ELSE Calls[q]]
  PROVE  Funding!Abort
  BY DEF Funding!Abort, Funding!Fail, Funding!money, Calls

LEMMA Stutter ==
  ASSUME bank'.balance = bank.balance, Underway(bank)' = Underway(bank),
         bank'.holdings = bank.holdings, Calls' = Calls
  PROVE  UNCHANGED Funding!vars
  BY DEF Funding!vars, Calls

(* One call that fails.                                                    *)
LEMMA OneFails ==
  ASSUME IInv, NEW p \in Funders, pc[p] # "idle",
         NEW r \in Results \ {"none", "nil"}, Return(p, r)
  PROVE  /\ {p} \in SUBSET Funding!Running
         /\ Calls' = [q \in Funders |-> IF q \in {p} THEN "error" ELSE Calls[q]]
  <1>1. p \in Funding!Running
    BY CallSteps
  <1>2. Calls' = [Calls EXCEPT ![p] = "error"]
    BY CallSteps
  <1> QED BY <1>1, <1>2 DEF Calls

(* A step to another place in the same call, once it has paid.             *)
LEMMA OnePaid ==
  ASSUME IInv, NEW p \in Funders, pc[p] \notin {"idle", "transfer"},
         NEW l \in Locations \ {"idle", "transfer"}, Goto(p, l)
  PROVE  Calls' = Calls
  <1>1. Calls' = [Calls EXCEPT ![p] = "paid"]
    BY CallSteps
  <1>2. Calls[p] = "paid"
    BY DEF Calls, CallOf
  <1> QED BY <1>1, <1>2 DEF Calls

LEMMA NotifyRefines ==
  ASSUME IInv, NEW p \in Funders, NotifyTransferToPerun(p)
  PROVE  Funding!Abort \/ UNCHANGED Funding!vars
  <1> DEFINE c == OnNotify(bank, block[p])
  <1>1. bank \in Banks /\ WholeTransfers(bank) /\ block[p] \in Nat /\ pc[p] = "notify"
    BY DEF IInv, TypeOK, NotifyTransferToPerun
  <1>2. bank' \in {bank, c}
    BY DEF NotifyTransferToPerun, Answered, Fails, FailsUnexecuted
  <1>3. /\ bank'.balance = bank.balance /\ bank'.holdings = bank.holdings
        /\ Underway(bank)' = Underway(bank)
    <2>1. Underway(bank)' = Underway(bank')
      BY DEF Underway, Unnotified
    <2>2. c.balance = bank.balance /\ Underway(c) = Underway(bank) /\ c.holdings = bank.holdings
      BY <1>1, NotifyMoves
    <2> HIDE DEF c
    <2> QED BY <1>2, <2>1, <2>2
  <1>4. CASE Goto(p, "lockForDeposit")
    BY <1>1, <1>3, <1>4, OnePaid, Stutter DEF Locations
  <1>5. CASE Return(p, "ErrNotify")
    BY <1>1, <1>3, <1>5, OneFails, AbortStep DEF Results
  <1>6. CASE ProcessEnds(ProcessOf[p], "panic")
    <2>1. PICK S \in SUBSET Funding!Running :
             Calls' = [q \in Funders |-> IF q \in S THEN "error" ELSE Calls[q]]
      BY <1>6, EndsCalls, FunderAssumption
    <2> QED BY <1>3, <2>1, AbortStep
  <1> QED BY <1>4, <1>5, <1>6 DEF NotifyTransferToPerun

LEMMA DepositRefines ==
  ASSUME IInv, NEW p \in Funders, DepositToPerunChannel(p)
  PROVE  Funding!Arrive(p) \/ Funding!Abort \/ UNCHANGED Funding!vars
  <1> DEFINE c == OnDeposit(bank, p)
  <1>1. bank \in Banks /\ WholeTransfers(bank) /\ pc[p] = "deposit"
    BY DEF IInv, TypeOK, DepositToPerunChannel
  <1>2. \/ bank' = bank
        \/ bank' = c /\ bank.credit[p] > 0
    BY DEF DepositToPerunChannel, Answered, Fails, FailsUnexecuted, OnDeposit
  <1>3. \/ Calls' = Calls
        \/ /\ {p} \in SUBSET Funding!Running
           /\ Calls' = [q \in Funders |-> IF q \in {p} THEN "error" ELSE Calls[q]]
    <2>1. CASE Goto(p, "poll")
      BY <1>1, <2>1, OnePaid DEF Locations
    <2>2. CASE Return(p, "ErrDeposit")
      BY <1>1, <2>2, OneFails DEF Results
    <2> QED BY <2>1, <2>2 DEF DepositToPerunChannel
  <1>4. CASE bank' = bank
    <2>1. Underway(bank)' = Underway(bank)
      BY <1>4 DEF Underway, Unnotified
    <2> QED BY <1>3, <1>4, <2>1, Stutter, AbortStep
  <1>5. CASE bank' = c /\ bank.credit[p] > 0
    <2> DEFINE x == bank.credit[p]
    <2>1. /\ x \in 1..Underway(bank)[p] /\ x % Transferred(p) = 0
          /\ bank'.balance = bank.balance
          /\ Underway(bank') = [Underway(bank) EXCEPT ![p] = @ - x]
          /\ bank'.holdings = [bank.holdings EXCEPT ![p] = @ + x]
      BY <1>1, <1>5, DepositMoves
    <2>2. Underway(bank)' = Underway(bank')
      BY DEF Underway, Unnotified
    <2>3. CallOf(p) = "paid"
      BY <1>1 DEF CallOf
    <2>4. Calls' = Calls \/ Funding!Fail({p})
      BY <1>3 DEF Funding!Fail, Calls
    <2> HIDE DEF c, x
    <2> QED BY <2>1, <2>2, <2>3, <2>4 DEF Funding!Arrive, Calls
  <1> QED BY <1>2, <1>4, <1>5

LEMMA QueryRefines ==
  ASSUME IInv, NEW p \in Funders, QueryFundingState(p) \/ ContextDone(p)
  PROVE  Funding!Succeed(p) \/ Funding!Abort \/ UNCHANGED Funding!vars
  <1>1. pc[p] = "poll" /\ bank' = bank
    BY DEF QueryFundingState, ContextDone, Sees, Answered, Unparsable, FailsUnexecuted
  <1>2. Underway(bank)' = Underway(bank)
    BY <1>1 DEF Underway, Unnotified
  <1>3. CASE UNCHANGED <<pc, res>>
    <2>1. Calls' = Calls
      BY <1>3 DEF Calls, CallOf
    <2> QED BY <1>1, <1>2, <2>1, Stutter
  <1>4. CASE Return(p, "FundingTimeoutError") \/ Return(p, "ErrParse")
    BY <1>1, <1>2, <1>4, OneFails, AbortStep DEF Results
  <1>5. CASE Return(p, "nil") /\ \E log \in VisibleLogs : EvaluateFundedEvents(log, p)
    <2>1. bank.holdings[p] >= Amount[p]
      BY <1>5, SeenIsHeld
    <2>2. Calls' = [Calls EXCEPT ![p] = "nil"]
      BY <1>5, CallSteps DEF Results
    <2>3. CallOf(p) = "paid"
      BY <1>1 DEF CallOf
    <2> QED BY <1>1, <1>2, <2>1, <2>2, <2>3 DEF Funding!Succeed, Funding!money, Calls
  <1> QED BY <1>3, <1>4, <1>5 DEF QueryFundingState, ContextDone, Unparsable, NextTurn

LEMMA OtherStepsRefine ==
  ASSUME IInv,
         \/ \E p \in Funders : LockForNotify(p) \/ LockForDeposit(p) \/ Cancel(p)
         \/ \E q \in Processes : Kill(q)
         \/ UNCHANGED vars
  PROVE  Funding!Abort \/ UNCHANGED Funding!vars
  <1>1. bank' = bank
    BY DEF LockForNotify, LockForDeposit, Cancel, Kill, vars
  <1>2. Underway(bank)' = Underway(bank)
    BY <1>1 DEF Underway, Unnotified
  <1>3. ASSUME NEW p \in Funders, LockForNotify(p) \/ LockForDeposit(p)
        PROVE  Calls' = Calls
    BY <1>3, OnePaid DEF LockForNotify, LockForDeposit, Locations, InCriticalSection
  <1>4. CASE UNCHANGED <<pc, res>>
    <2>1. Calls' = Calls
      BY <1>4 DEF Calls, CallOf
    <2> QED BY <1>1, <1>2, <2>1, Stutter
  <1>5. ASSUME NEW q \in Processes, Kill(q)
        PROVE  Funding!Abort
    <2>1. PICK S \in SUBSET Funding!Running :
             Calls' = [p \in Funders |-> IF p \in S THEN "error" ELSE Calls[p]]
      BY <1>5, EndsCalls DEF Kill
    <2> QED BY <1>1, <1>2, <2>1, AbortStep
  <1> QED BY <1>1, <1>2, <1>3, <1>4, <1>5, Stutter DEF Cancel, vars

LEMMA InitRefines == Init => Funding!Init
  <1> SUFFICES ASSUME Init PROVE Funding!Init
    OBVIOUS
  <1>1. /\ bank.blocks = <<>> /\ bank.credit = Nothing
        /\ bank.holdings = [p \in Funders |-> 0] /\ bank.balance = InitialBalance
    BY DEF Init, OpenBank, Nothing
  <1>2. \A p \in Funders : Unnotified(bank, p) = {}
    <2>1. DOMAIN bank.blocks = {}
      BY <1>1
    <2> QED BY <2>1 DEF Unnotified
  <1>3. \A p \in Funders : Underway(bank)[p] = 0
    <2> SUFFICES ASSUME NEW p \in Funders PROVE Underway(bank)[p] = 0
      OBVIOUS
    <2>1. Underway(bank)[p] = 0 + 0 * Transferred(p)
      BY <1>1, <1>2, FS_EmptySet DEF Underway, Nothing
    <2> QED BY <2>1, TransferredType
  <1>4. Underway(bank) = [p \in Funders |-> 0]
    BY <1>3 DEF Underway
  <1>5. \A p \in Funders : CallOf(p) = "none"
    BY DEF Init, CallOf
  <1> QED BY <1>1, <1>4, <1>5 DEF Funding!Init

(* Everything that the funders, their processes and the canister do        *)
(* together is a behaviour of ChannelFunding.                              *)
THEOREM Refinement == Spec => ImplementsFunding
  <1>1. IInv /\ [Next]_vars => [Funding!Next]_(Funding!vars)
    <2> SUFFICES ASSUME IInv, [Next]_vars PROVE Funding!Next \/ UNCHANGED Funding!vars
      OBVIOUS
    <2>1. ASSUME NEW p \in Funders, Fund(p) PROVE Funding!Next
      BY <2>1, FundRefines DEF Funding!Next
    <2>2. ASSUME NEW p \in Funders, Step(p)
          PROVE  Funding!Next \/ UNCHANGED Funding!vars
      BY <2>2, TransferRefines, NotifyRefines, DepositRefines, QueryRefines, OtherStepsRefine
      DEF Step, Funding!Next
    <2>3. ASSUME \/ \E p \in Funders : Cancel(p)
                 \/ \E q \in Processes : Kill(q)
                 \/ UNCHANGED vars
          PROVE  Funding!Next \/ UNCHANGED Funding!vars
      BY <2>3, OtherStepsRefine DEF Funding!Next
    <2> QED BY <2>1, <2>2, <2>3 DEF Next
  <1> QED BY <1>1, InitRefines, Inductive, PTL DEF Spec, ImplementsFunding, Funding!Spec
-----------------------------------------------------------------------------
(* Where the money is.                                                     *)

(* n whole transfers of p account for what is missing from its balance on  *)
(* the ledger, and for what is underway or in the channel.                 *)
TransfersOf(p, n) ==
    /\ bank.balance[p] = InitialBalance[p] - n * (Transferred(p) + Fee)
    /\ Underway(bank)[p] + bank.holdings[p] = n * Transferred(p)

MoneyConserved == \A p \in Funders : \E n \in Nat : TransfersOf(p, n)

MoneyTyped ==
    /\ bank.balance \in [Funders -> Int]
    /\ Underway(bank) \in [Funders -> Int]
    /\ bank.holdings \in [Funders -> Int]

LEMMA ConservedInit == Funding!Init => MoneyTyped /\ MoneyConserved
  <1> SUFFICES ASSUME Funding!Init PROVE MoneyTyped /\ MoneyConserved
    OBVIOUS
  <1>1. /\ bank.balance = InitialBalance /\ Underway(bank) = [p \in Funders |-> 0]
        /\ bank.holdings = [p \in Funders |-> 0]
    BY DEF Funding!Init
  <1>2. \A p \in Funders : TransfersOf(p, 0)
    <2> SUFFICES ASSUME NEW p \in Funders PROVE TransfersOf(p, 0)
      OBVIOUS
    <2>1. InitialBalance[p] \in Nat /\ Transferred(p) \in Nat /\ Fee \in Nat
      BY TransferredType, FunderAssumption, FundingAssumption
    <2> QED BY <1>1, <2>1 DEF TransfersOf
  <1>3. MoneyTyped
    BY <1>1, FunderAssumption DEF MoneyTyped
  <1> QED BY <1>2, <1>3 DEF MoneyConserved

LEMMA ConservedStep ==
  ASSUME MoneyTyped, MoneyConserved, Funding!Next \/ UNCHANGED Funding!vars
  PROVE  MoneyTyped' /\ MoneyConserved'
  <1> DEFINE w == bank.balance
             u == Underway(bank)
             h == bank.holdings
             price == [p \in Funders |-> Transferred(p)]
  <1>0. /\ w \in [Funders -> Int] /\ u \in [Funders -> Int] /\ h \in [Funders -> Int]
        /\ \A p \in Funders : price[p] = Transferred(p) /\ Transferred(p) \in Nat
        /\ Fee \in Nat /\ \A p \in Funders : InitialBalance[p] \in Nat
    BY TransferredType, FunderAssumption, FundingAssumption DEF MoneyTyped
  <1>1. CASE w' = w /\ u' = u /\ h' = h
    BY <1>1 DEF MoneyTyped, MoneyConserved, TransfersOf
  <1>2. ASSUME NEW p \in Funders, Funding!Pay(p)
        PROVE  MoneyTyped' /\ MoneyConserved'
    <2>1. /\ w' = [w EXCEPT ![p] = @ - (price[p] + Fee)]
          /\ u' = [u EXCEPT ![p] = @ + price[p]]
          /\ h' = h
      BY <1>2 DEF Funding!Pay
    <2>2. MoneyTyped'
      <3> HIDE DEF w, u, h, price
      <3>1. w' \in [Funders -> Int] /\ u' \in [Funders -> Int] /\ h' \in [Funders -> Int]
        BY <1>0, <2>1
      <3> QED BY <3>1 DEF MoneyTyped, w, u, h
    <2>3. ASSUME NEW r \in Funders PROVE \E n \in Nat : TransfersOf(r, n)'
      <3>1. PICK n \in Nat : TransfersOf(r, n)
        BY DEF MoneyConserved
      <3> DEFINE P == Transferred(r)
                 B == InitialBalance[r]
      <3>2. /\ w[r] = B - n * (P + Fee) /\ u[r] + h[r] = n * P
            /\ w[r] \in Int /\ u[r] \in Int /\ h[r] \in Int
            /\ P \in Nat /\ Fee \in Nat /\ B \in Nat
        BY <1>0, <3>1 DEF TransfersOf
      <3>3. (n + 1) * (P + Fee) = n * (P + Fee) + (P + Fee) /\ (n + 1) * P = n * P + P
        <4> HIDE DEF P
        <4> QED BY <3>2
      <3>4. CASE r = p
        <4> DEFINE x == n * (P + Fee)
                   y == n * P
        <4>1. w'[r] = w[r] - (P + Fee) /\ u'[r] = u[r] + P /\ h'[r] = h[r]
          <5> HIDE DEF w, u, h
          <5> QED BY <1>0, <2>1, <3>4
        <4>2. w'[r] = B - (x + (P + Fee)) /\ u'[r] + h'[r] = y + P
          <5>1. x \in Int /\ y \in Int
            <6> HIDE DEF P
            <6> QED BY <3>2
          <5>2. w[r] = B - x /\ u[r] + h[r] = y
            BY <3>2
          <5> HIDE DEF x, y, w, u, h, P, B
          <5> QED BY <3>2, <4>1, <5>1, <5>2
        <4>3. w'[r] = B - (n + 1) * (P + Fee) /\ u'[r] + h'[r] = (n + 1) * P
          BY <3>3, <4>2
        <4>4. TransfersOf(r, n + 1)'
          BY <4>3 DEF TransfersOf, Transferred
        <4> QED BY <4>4
      <3>5. CASE r # p
        <4>1. w'[r] = w[r] /\ u'[r] = u[r] /\ h'[r] = h[r]
          <5> HIDE DEF w, u, h
          <5> QED BY <1>0, <2>1, <3>5
        <4>2. TransfersOf(r, n)'
          BY <3>1, <4>1 DEF TransfersOf, Transferred
        <4> QED BY <4>2
      <3> QED BY <3>4, <3>5
    <2> QED BY <2>2, <2>3 DEF MoneyConserved
  <1>3. ASSUME NEW p \in Funders, Funding!Arrive(p)
        PROVE  MoneyTyped' /\ MoneyConserved'
    <2>1. PICK x \in 1..u[p] : /\ u' = [u EXCEPT ![p] = @ - x]
                               /\ h' = [h EXCEPT ![p] = @ + x]
                               /\ w' = w
      BY <1>3 DEF Funding!Arrive
    <2>2. MoneyTyped'
      <3> HIDE DEF w, u, h
      <3>1. w' \in [Funders -> Int] /\ u' \in [Funders -> Int] /\ h' \in [Funders -> Int]
        BY <1>0, <2>1
      <3> QED BY <3>1 DEF MoneyTyped, w, u, h
    <2>3. ASSUME NEW r \in Funders PROVE w'[r] = w[r] /\ u'[r] + h'[r] = u[r] + h[r]
      <3> HIDE DEF w, u, h
      <3>1. x \in Int /\ u[r] \in Int /\ h[r] \in Int
        BY <1>0, <2>1
      <3>2. CASE r = p
        <4>1. u'[r] = u[r] - x /\ h'[r] = h[r] + x
          BY <1>0, <2>1, <3>2
        <4> QED BY <2>1, <3>1, <4>1
      <3>3. CASE r # p
        BY <1>0, <2>1, <3>3
      <3> QED BY <3>2, <3>3
    <2>4. \A r \in Funders : \A n \in Nat : TransfersOf(r, n) => TransfersOf(r, n)'
      BY <2>3 DEF TransfersOf, Transferred
    <2> QED BY <2>2, <2>4 DEF MoneyConserved
  <1>4. ASSUME NEW p \in Funders, Funding!Begin(p) \/ Funding!Succeed(p)
        PROVE  w' = w /\ u' = u /\ h' = h
    BY <1>4 DEF Funding!Begin, Funding!Succeed, Funding!money
  <1>5. ASSUME Funding!Abort \/ UNCHANGED Funding!vars
        PROVE  w' = w /\ u' = u /\ h' = h
    BY <1>5 DEF Funding!Abort, Funding!money, Funding!vars
  <1> QED
    BY <1>1, <1>2, <1>3, <1>4, <1>5 DEF Funding!Next

(* No token is lost or counted twice, whatever fails: at any time whole    *)
(* transfers account for what a participant has paid, fees included, and   *)
(* for what is underway or in the channel, however often Fund is retried   *)
(* (funder.go, Deposit; services.go, NotifyTransferToPerun and Deposit).   *)
THEOREM NoTokenIsLost == Spec => []MoneyConserved
  <1>1. MoneyTyped /\ MoneyConserved /\ [Funding!Next]_(Funding!vars)
          => (MoneyTyped /\ MoneyConserved)'
    BY ConservedStep
  <1> QED
    BY <1>1, ConservedInit, Refinement, PTL DEF ImplementsFunding, Funding!Spec
-----------------------------------------------------------------------------
(* How often a call pays.                                                  *)

(* The transfers that p's calls so far may have made: the current one may  *)
(* still be going to.                                                      *)
Allowed(p) == calls[p] - (IF pc[p] = "transfer" THEN 1 ELSE 0)

Cost(p) == Transferred(p) + Fee

(* p has paid no more than that.                                           *)
Thrifty(p) == bank.balance[p] >= InitialBalance[p] - Allowed(p) * Cost(p)

(* A step of the system costs p nothing, or one of its transfers.          *)
Spends(p) ==
    \/ bank'.balance[p] = bank.balance[p] /\ Allowed(p)' \in {Allowed(p), Allowed(p) + 1}
    \/ bank'.balance[p] = bank.balance[p] - Cost(p) /\ Allowed(p)' = Allowed(p) + 1

LEMMA ThriftyStep ==
  ASSUME IInv, NEW p \in Funders, Thrifty(p), Spends(p), bank' \in Banks
  PROVE  Thrifty(p)'
  <1> DEFINE a == Allowed(p)
             k == Cost(p)
             i == InitialBalance[p]
             b == bank.balance[p]
             c == bank'.balance[p]
  <1>1. /\ a \in Int /\ k \in Nat /\ i \in Nat /\ b \in Nat /\ c \in Nat
    <2>1. k \in Nat /\ i \in Nat
      BY FunderAssumption, FundingAssumption, TransferredType DEF Cost
    <2>2. b \in Nat /\ c \in Nat
      BY DEF IInv, TypeOK, Banks
    <2>3. a \in Int
      <3>1. calls[p] \in Nat
        BY DEF IInv, TypeOK
      <3> QED BY <3>1 DEF Allowed
    <2> QED BY <2>1, <2>2, <2>3
  <1>2. b >= i - a * k
    BY DEF Thrifty
  <1>3. \/ c = b /\ a' = a
        \/ c = b /\ a' = a + 1
        \/ c = b - k /\ a' = a + 1
    BY DEF Spends
  <1>4. c >= i - a' * k
    <2> DEFINE x == a * k
    <2>1. (a + 1) * k = x + k /\ x \in Int
      <3> HIDE DEF a, k
      <3> QED BY <1>1
    <2>2. a' * k = x \/ a' * k = x + k
      <3> HIDE DEF k
      <3> QED BY <1>3, <2>1
    <2>3. CASE a' = a
      BY <1>1, <1>2, <1>3, <2>3
    <2>4. CASE a' = a + 1
      <3>1. a' * k = x + k
        BY <2>1, <2>4
      <3>2. b >= i - x
        BY <1>2
      <3> HIDE DEF x, a, k, i, b, c
      <3> QED BY <1>1, <1>3, <2>1, <2>4, <3>1, <3>2
    <2> QED BY <1>3, <2>3, <2>4
  <1> QED BY <1>4 DEF Thrifty, Cost, Transferred

(* A step that leaves p's balance alone, and does not lead p to a transfer.*)
LEMMA CostsNothing ==
  ASSUME IInv, NEW p \in Funders, UNCHANGED calls, bank'.balance[p] = bank.balance[p],
         pc'[p] = pc[p] \/ pc'[p] # "transfer"
  PROVE  Spends(p)
  <1>1. calls[p] \in Nat
    BY DEF IInv, TypeOK
  <1> QED BY <1>1 DEF Spends, Allowed

LEMMA TransferSpends ==
  ASSUME IInv, NEW q \in Funders, TransferToPerun(q), NEW p \in Funders
  PROVE  Spends(p)
  <1>1. /\ bank \in Banks /\ WholeTransfers(bank)
        /\ pc \in [Funders -> Locations] /\ calls[p] \in Nat
        /\ pc[q] = "transfer" /\ calls' = calls
    BY DEF IInv, TypeOK, TransferToPerun
  <1>2. /\ bank' = bank \/ (CanTransfer(bank, q) /\ bank' = OnTransfer(bank, q))
        /\ \/ bank' = OnTransfer(bank, q) /\ Goto(q, "lockForNotify")
           \/ ProcessEnds(ProcessOf[q], "panic")
    BY DEF TransferToPerun, Answered, Fails
  <1>3. pc'[q] # "transfer" /\ \A r \in Funders : pc'[r] \in {pc[r], "idle", "lockForNotify"}
    BY <1>1, <1>2 DEF Goto, ProcessEnds
  <1>4. CASE bank' = bank /\ p # q
    BY <1>3, <1>4, <1>1, CostsNothing
  <1>5. CASE CanTransfer(bank, q) /\ bank' = OnTransfer(bank, q)
    <2>1. bank'.balance = [bank.balance EXCEPT ![q] = @ - Cost(q)]
      BY <1>1, <1>5, TransferMoves DEF Cost
    <2>2. bank.balance \in [Funders -> Nat]
      BY <1>1 DEF Banks
    <2>3. CASE p # q
      <3>1. bank'.balance[p] = bank.balance[p]
        BY <2>1, <2>2, <2>3
      <3> QED BY <1>1, <1>3, <3>1, CostsNothing
    <2>4. CASE p = q
      <3>1. bank'.balance[p] = bank.balance[p] - Cost(p)
        BY <2>1, <2>2, <2>4
      <3>2. Allowed(p) = calls[p] - 1 /\ Allowed(p)' = calls[p]
        BY <1>1, <1>3, <2>4 DEF Allowed
      <3> QED BY <1>1, <3>1, <3>2 DEF Spends
    <2> QED BY <2>3, <2>4
  <1>6. CASE bank' = bank /\ p = q
    BY <1>1, <1>3, <1>6, CostsNothing
  <1> QED BY <1>2, <1>4, <1>5, <1>6

LEMMA NextSpends ==
  ASSUME IInv, [Next]_vars, NEW p \in Funders
  PROVE  Spends(p)
  <1>1. /\ bank \in Banks /\ WholeTransfers(bank)
        /\ pc \in [Funders -> Locations] /\ calls \in [Funders -> Nat]
        /\ block \in [Funders -> Nat]
    BY DEF IInv, TypeOK
  <1>2. ASSUME NEW q \in Funders, Fund(q) PROVE Spends(p)
    <2>1. /\ bank' = bank /\ calls' = [calls EXCEPT ![q] = @ + 1] /\ pc[q] = "idle"
          /\ Goto(q, "transfer") \/ Return(q, "ErrFundingReqIncompatible")
      BY <1>2 DEF Fund
    <2>2. \A r \in Funders \ {q} : pc'[r] = pc[r] /\ calls'[r] = calls[r]
      BY <1>1, <2>1 DEF Goto, Return
    <2>3. pc'[q] \in {"idle", "transfer"} /\ calls'[q] = calls[q] + 1
      BY <1>1, <2>1 DEF Goto, Return
    <2> QED BY <1>1, <2>1, <2>2, <2>3 DEF Spends, Allowed
  <1>3. ASSUME NEW q \in Funders, TransferToPerun(q) PROVE Spends(p)
    BY <1>3, TransferSpends
  <1>4. ASSUME NEW q \in Funders, NotifyTransferToPerun(q) PROVE Spends(p)
    <2>1. bank' = bank \/ bank' = OnNotify(bank, block[q])
      BY <1>4 DEF NotifyTransferToPerun, Answered, Fails, FailsUnexecuted
    <2>2. bank'.balance = bank.balance
      BY <1>1, <2>1, NotifyMoves
    <2>3. UNCHANGED calls /\ (pc'[p] = pc[p] \/ pc'[p] # "transfer")
      BY <1>1, <1>4 DEF NotifyTransferToPerun, Goto, Return, ProcessEnds
    <2> QED BY <2>2, <2>3, CostsNothing
  <1>5. ASSUME NEW q \in Funders, DepositToPerunChannel(q) PROVE Spends(p)
    <2>1. bank' = bank \/ bank' = OnDeposit(bank, q)
      BY <1>5 DEF DepositToPerunChannel, Answered, Fails, FailsUnexecuted
    <2>2. bank'.balance = bank.balance
      BY <1>1, <2>1 DEF OnDeposit, Banks
    <2>3. UNCHANGED calls /\ (pc'[p] = pc[p] \/ pc'[p] # "transfer")
      BY <1>1, <1>5 DEF DepositToPerunChannel, Goto, Return
    <2> QED BY <2>2, <2>3, CostsNothing
  <1>6. ASSUME NEW q \in Funders, QueryFundingState(q) PROVE Spends(p)
    <2>1. bank' = bank /\ UNCHANGED calls
      BY <1>6 DEF QueryFundingState, Sees, Answered, Unparsable, FailsUnexecuted
    <2>2. pc'[p] = pc[p] \/ pc'[p] # "transfer"
      BY <1>1, <1>6 DEF QueryFundingState, Unparsable, NextTurn, Return
    <2> QED BY <2>1, <2>2, CostsNothing
  <1>7. ASSUME NEW q \in Funders, \/ LockForNotify(q) \/ LockForDeposit(q)
                                  \/ ContextDone(q) \/ Cancel(q)
        PROVE  Spends(p)
    <2>1. UNCHANGED <<bank, calls>> /\ (pc'[p] = pc[p] \/ pc'[p] # "transfer")
      BY <1>1, <1>7 DEF LockForNotify, LockForDeposit, ContextDone, Cancel, Goto, Return
    <2> QED BY <2>1, CostsNothing
  <1>8. ASSUME NEW q \in Processes, Kill(q) PROVE Spends(p)
    <2>1. UNCHANGED <<bank, calls>> /\ (pc'[p] = pc[p] \/ pc'[p] # "transfer")
      BY <1>1, <1>8 DEF Kill, ProcessEnds
    <2> QED BY <2>1, CostsNothing
  <1>9. CASE UNCHANGED vars
    BY <1>9, CostsNothing DEF vars
  <1> QED
    BY <1>2, <1>3, <1>4, <1>5, <1>6, <1>7, <1>8, <1>9 DEF Next, Step

(* Within one call of Fund a participant pays at most once, whatever RPCs  *)
(* fail and processes end on the way: what is missing from its balance is  *)
(* the cost of at most as many transfers as it has made calls              *)
(* (funder.go, Deposit; services.go, TransferToPerun).                     *)
ThriftyFunders == \A p \in Funders : bank.balance[p] >= InitialBalance[p] - calls[p] * Cost(p)

THEOREM CallsPayOnce == Spec => []ThriftyFunders
  <1> DEFINE Inv == \A p \in Funders : Thrifty(p)
  <1>1. Init => Inv
    <2> SUFFICES ASSUME Init, NEW p \in Funders PROVE Thrifty(p)
      OBVIOUS
    <2>1. /\ bank.balance[p] = InitialBalance[p] /\ Allowed(p) = 0
          /\ InitialBalance[p] \in Nat /\ Cost(p) \in Nat
      BY FunderAssumption, FundingAssumption, TransferredType
      DEF Init, OpenBank, Allowed, Cost
    <2> QED BY <2>1 DEF Thrifty
  <1>2. IInv /\ IInv' /\ Inv /\ [Next]_vars => Inv'
    BY NextSpends, ThriftyStep DEF IInv, TypeOK
  <1>3. IInv /\ Inv => ThriftyFunders
    <2> SUFFICES ASSUME IInv, NEW p \in Funders, Thrifty(p)
                 PROVE  bank.balance[p] >= InitialBalance[p] - calls[p] * Cost(p)
      BY DEF ThriftyFunders
    <2> DEFINE n == calls[p]
               k == Cost(p)
    <2>1. /\ n \in Nat /\ k \in Nat /\ InitialBalance[p] \in Nat /\ bank.balance[p] \in Nat
      BY FunderAssumption, FundingAssumption, TransferredType DEF Cost, IInv, TypeOK, Banks
    <2>2. bank.balance[p] >= InitialBalance[p] - n * k
          \/ bank.balance[p] >= InitialBalance[p] - (n - 1) * k
      BY <2>1 DEF Thrifty, Allowed
    <2>3. (n - 1) * k = n * k - k /\ n * k \in Int
      <3> HIDE DEF n, k
      <3> QED BY <2>1
    <2> QED BY <2>1, <2>2, <2>3
  <1> HIDE DEF Inv
  <1> QED BY <1>1, <1>2, <1>3, Inductive, PTL DEF Spec
-----------------------------------------------------------------------------
(* What lasts.                                                             *)

HoldsAmount(p) == bank.holdings[p] >= Amount[p]

(* Money leaves ChannelFunding's channel by no step.                       *)
LEMMA HoldingsGrow ==
  ASSUME MoneyTyped, Funding!Next \/ UNCHANGED Funding!vars, NEW p \in Funders, HoldsAmount(p)
  PROVE  HoldsAmount(p)'
  <1> DEFINE h == bank.holdings
  <1>1. h \in [Funders -> Int] /\ Amount[p] \in Int /\ h[p] >= Amount[p]
    BY FundingAssumption DEF MoneyTyped, HoldsAmount
  <1>2. h' = h \/ \E q \in Funders : \E x \in 1..Underway(bank)[q] : h' = [h EXCEPT ![q] = @ + x]
    BY DEF Funding!Next, Funding!vars, Funding!Begin, Funding!Pay, Funding!Arrive,
           Funding!Succeed, Funding!Abort, Funding!money
  <1>3. CASE h' = h
    BY <1>1, <1>3 DEF HoldsAmount
  <1>4. ASSUME NEW q \in Funders, NEW x \in 1..Underway(bank)[q], h' = [h EXCEPT ![q] = @ + x]
        PROVE  HoldsAmount(p)'
    <2>1. h'[p] >= h[p] /\ h'[p] \in Int
      <3> HIDE DEF h
      <3>1. x \in Int /\ x > 0
        BY DEF MoneyTyped
      <3> QED BY <1>1, <1>4, <3>1
    <2> HIDE DEF h
    <2>2. h'[p] >= Amount[p]
      BY <1>1, <2>1
    <2> QED BY <2>2 DEF HoldsAmount, h
  <1> QED BY <1>2, <1>3, <1>4

(* What a Fund that returned nil said stays true: no later call of any     *)
(* participant, retry, failure or crash takes the amount out of the        *)
(* channel again (funder.go, Fund).                                        *)
THEOREM FundedForGood ==
  ASSUME NEW p \in Funders
  PROVE  Spec => [](res[p] = "nil" => []HoldsAmount(p))
  <1>1. MoneyTyped /\ MoneyConserved /\ [Funding!Next]_(Funding!vars)
            => (MoneyTyped /\ MoneyConserved)'
    BY ConservedStep
  <1>2. MoneyTyped /\ [Funding!Next]_(Funding!vars) /\ HoldsAmount(p) => HoldsAmount(p)'
    BY HoldingsGrow
  <1>3. FundedIsHeld /\ res[p] = "nil" => HoldsAmount(p)
    BY DEF FundedIsHeld, HoldsAmount
  <1> QED
    BY <1>1, <1>2, <1>3, ConservedInit, Refinement, NilMeansFunded, PTL
    DEF ImplementsFunding, Funding!Spec
=============================================================================
