--------------------------- MODULE FsWalletProofs ---------------------------
(***************************************************************************)
(* The wallet's invariants, for every number of seeds, accounts and uses.  *)
(*                                                                         *)
(* MemoryInv says what the memory shows once the save under way is done,   *)
(* DiskInv what the file shows now.  A save that completes turns the first *)
(* into the second; a crash forgets the first and leaves the second alone. *)
(***************************************************************************)
EXTENDS FsWallet, TLAPS

LEMMA InitIInv == Init => IInv
  BY WalletAssumption
  DEF Init, IInv, TypeOK, MemoryInv, DiskInv, HistoryInv, SaveInv, Accs, NoAccs, Absent, NoUsage

(* Without a save under way the memory shows the completed usages.         *)
LEMMA NothingPending ==
  ASSUME inUse \in [Addresses -> Nat], pending = NoUsage
  PROVE  NextInUse = inUse /\ NextUsed = used
  <1>1. Locked \notin Addresses
    BY DEF Locked, Addresses
  <1>2. NextUsed = used
    BY DEF NextUsed, NoUsage
  <1>3. \A a \in Addresses : NextInUse[a] = inUse[a]
    BY <1>1 DEF NextInUse, NoUsage
  <1> QED BY <1>2, <1>3 DEF NextInUse
-----------------------------------------------------------------------------
(* One lemma per action.                                                   *)

LEMMA LoadIInv ==
  ASSUME IInv, Load PROVE IInv'
  <1> USE DEF IInv
  <1>1. TypeOK'
    BY WalletAssumption DEF Load, TypeOK, Accs, OpenAcc, SavedAcc, Locked
  <1>2. NextInUse = inUse /\ NextUsed = used /\ pending = NoUsage
    BY NothingPending DEF Load, HistoryInv, TypeOK
  <1>3. NextInUse' = NextInUse /\ NextUsed' = NextUsed
    BY DEF Load, NextInUse, NextUsed
  <1>4. \A a : Count(openAccs', a) = Count(file.accs, a)
    BY DEF Load, Count
  <1>5. DOMAIN openAccs' = DOMAIN file.accs
    BY DEF Load
  <1>6. MemoryInv'
    <2>1. Derived(openAccs, seed, latestAcc)'
      BY DEF Load, DiskInv, Derived
    <2>2. UnlockedKeyMatches'
      BY DEF Load, UnlockedKeyMatches
    <2>3. Shows(openAccs', seed', latestAcc', inUse, used)
      BY <1>4, <1>5 DEF Load, DiskInv, Shows
    <2> QED BY <1>2, <1>3, <2>1, <2>2, <2>3 DEF Load, MemoryInv, DiskInv, Shows
  <1>7. DiskInv'
    BY DEF Load, DiskInv, Shows
  <1>8. HistoryInv'
    BY <1>2 DEF Load, HistoryInv
  <1>9. SaveInv'
    BY DEF Load, SaveInv, HistoryInv, NoUsage
  <1> QED BY <1>1, <1>6, <1>7, <1>8, <1>9

LEMMA CreateIInv ==
  ASSUME IInv, Create PROVE IInv'
  <1> USE DEF IInv
  <1>1. TypeOK'
    <2>1. /\ MaxSeeds \in Nat /\ MaxAccs \in Nat /\ seeds \in 0..MaxSeeds
          /\ seeds < MaxSeeds /\ seeds' = seeds + 1 /\ seed' = seeds + 1
      BY WalletAssumption DEF Create, TypeOK
    <2>2. seeds' \in 0..MaxSeeds /\ seed' \in 0..MaxSeeds
      BY <2>1
    <2>3. latestAcc' \in 0..MaxAccs
      BY <2>1 DEF Create
    <2>4. Accs(openAccs', OpenAcc)
      BY DEF Create, Accs, NoAccs
    <2>5. pending' \in [addr : Addresses \cup {Locked}, delta : {-1, 0, 1}]
      BY DEF Create, NoUsage
    <2>6. pc' = "truncate" /\ UNCHANGED <<file, inUse, used>> /\ TypeOK
      BY DEF Create
    <2> QED BY <2>2, <2>3, <2>4, <2>5, <2>6 DEF TypeOK
  <1>2. NextInUse' = inUse /\ NextUsed' = used
    <2>1. pc = "down" /\ pending' = NoUsage /\ inUse' = inUse /\ used' = used
      BY DEF Create
    <2>2. pending = NoUsage
      <3>1. HistoryInv
        OBVIOUS
      <3> QED BY <2>1, <3>1 DEF HistoryInv
    <2>3. pending' = pending
      BY <2>1, <2>2
    <2> QED BY <2>1, <2>2, <2>3, NothingPending DEF NextInUse, NextUsed, TypeOK
  <1>3. \A a \in Addresses : a.seed = seed' => inUse[a] = 0 /\ a \notin used
    BY DEF Create, HistoryInv, TypeOK
  <1>4. Shows(openAccs', seed', latestAcc', inUse, used)
    BY <1>3 DEF Create, Shows, Count, NoAccs
  <1>5. MemoryInv'
    BY <1>2, <1>4 DEF Create, MemoryInv, Derived, UnlockedKeyMatches, NoAccs, TypeOK, Shows
  <1>6. DiskInv'
    BY DEF Create, DiskInv, Shows, TypeOK
  <1>7. HistoryInv'
    BY DEF Create, HistoryInv, TypeOK, Addresses
  <1>8. SaveInv'
    BY DEF Create, SaveInv, NoUsage
  <1> QED BY <1>1, <1>5, <1>6, <1>7, <1>8

LEMMA NewAccountIInv ==
  ASSUME IInv, NewAccount PROVE IInv'
  <1> USE DEF IInv
  <1> DEFINE acc == genAcc(seed, latestAcc)
  <1>1. acc \in Addresses /\ acc.seed = seed /\ acc.nonce = latestAcc
    BY WalletAssumption DEF NewAccount, TypeOK, MemoryInv, genAcc, Addresses
  <1>2. acc \notin DOMAIN openAccs
    BY <1>1 DEF NewAccount, MemoryInv, Derived, TypeOK
  <1>3. TypeOK'
    BY <1>1, WalletAssumption DEF NewAccount, Put, TypeOK, Accs, OpenAcc
  <1>4. NextInUse' = NextInUse /\ NextUsed' = NextUsed
    BY DEF NewAccount, NextInUse, NextUsed
  <1>5. acc \notin NextUsed /\ NextInUse[acc] = 0
    BY <1>1, <1>2 DEF NewAccount, MemoryInv, Shows, TypeOK, Count
  <1>6. MemoryInv'
    <2>1. Derived(openAccs, seed, latestAcc)'
      BY <1>1 DEF NewAccount, Put, MemoryInv, Derived, TypeOK, Accs, Addresses
    <2>2. UnlockedKeyMatches'
      BY DEF NewAccount, Put, MemoryInv, UnlockedKeyMatches
    <2>3. Shows(openAccs', seed, latestAcc + 1, NextInUse, NextUsed)
      <3> SUFFICES ASSUME NEW a \in Addresses, a.seed = seed
                   PROVE  /\ Count(openAccs', a) = NextInUse[a]
                          /\ a \in NextUsed => a.nonce < latestAcc + 1
                          /\ a \in NextUsed => (a \in DOMAIN openAccs' <=> NextInUse[a] > 0)
        BY DEF Shows
      <3>1. CASE a = acc
        BY <3>1, <1>5 DEF NewAccount, Put, Count
      <3>2. CASE a # acc
        BY <3>2 DEF NewAccount, Put, Count, MemoryInv, Shows, TypeOK, Addresses
      <3> QED BY <3>1, <3>2
    <2> QED BY <1>4, <2>1, <2>2, <2>3 DEF NewAccount, MemoryInv
  <1>7. DiskInv'
    BY DEF NewAccount, DiskInv, Shows
  <1>8. HistoryInv'
    BY DEF NewAccount, HistoryInv
  <1>9. SaveInv'
    BY DEF NewAccount, SaveInv, HistoryInv
  <1> QED BY <1>3, <1>6, <1>7, <1>8, <1>9

(* Unlock and LockAll change keys in memory, and no count.                 *)
LEMMA UnlockIInv ==
  ASSUME IInv, NEW a \in Addresses, Unlock(a) PROVE IInv'
  <1> USE DEF IInv
  <1>1. genAcc(seed, openAccs[a].nonce) = a
    BY DEF Unlock, MemoryInv, Derived
  <1>2. DOMAIN openAccs' = DOMAIN openAccs
    BY DEF Unlock, Put
  <1>3. \A x \in DOMAIN openAccs :
          /\ openAccs'[x].nonce = openAccs[x].nonce
          /\ openAccs'[x].useCount = openAccs[x].useCount
          /\ openAccs'[x].acc \in {openAccs[x].acc, x}
    BY <1>1 DEF Unlock, Put, TypeOK, Accs, OpenAcc
  <1>4. TypeOK'
    BY <1>1 DEF Unlock, Put, TypeOK, Accs, OpenAcc
  <1>5. NextInUse' = NextInUse /\ NextUsed' = NextUsed
    BY DEF Unlock, NextInUse, NextUsed
  <1>6. MemoryInv'
    BY <1>2, <1>3, <1>5
    DEF Unlock, MemoryInv, Derived, UnlockedKeyMatches, Shows, Count
  <1>7. DiskInv' /\ HistoryInv'
    BY DEF Unlock, DiskInv, HistoryInv, Shows
  <1>8. SaveInv'
    BY DEF Unlock, SaveInv, HistoryInv
  <1> QED BY <1>4, <1>6, <1>7, <1>8

LEMMA LockAllIInv ==
  ASSUME IInv, LockAll PROVE IInv'
  <1> USE DEF IInv
  <1>1. DOMAIN openAccs' = DOMAIN openAccs
    BY DEF LockAll
  <1>2. \A x \in DOMAIN openAccs :
          /\ openAccs'[x].nonce = openAccs[x].nonce
          /\ openAccs'[x].useCount = openAccs[x].useCount
          /\ openAccs'[x].acc = Locked
    BY DEF LockAll, TypeOK, Accs, OpenAcc
  <1>3. TypeOK'
    BY DEF LockAll, TypeOK, Accs, OpenAcc
  <1>4. NextInUse' = NextInUse /\ NextUsed' = NextUsed
    BY DEF LockAll, NextInUse, NextUsed
  <1>5. MemoryInv'
    BY <1>1, <1>2, <1>4
    DEF LockAll, MemoryInv, Derived, UnlockedKeyMatches, Shows, Count
  <1>6. DiskInv' /\ HistoryInv'
    BY DEF LockAll, DiskInv, HistoryInv, Shows
  <1>7. SaveInv'
    BY DEF LockAll, SaveInv, HistoryInv
  <1> QED BY <1>3, <1>5, <1>6, <1>7

(* A usage: the account's count in memory changes, and the save to come    *)
(* changes inUse alike.                                                    *)
LEMMA IncrementUsageIInv ==
  ASSUME IInv, NEW a \in Addresses, IncrementUsage(a) PROVE IInv'
  <1> USE DEF IInv
  <1>1. TypeOK'
    BY DEF IncrementUsage, Save, Put, TypeOK, Accs, OpenAcc
  <1>2. /\ pending = NoUsage /\ NextInUse = inUse /\ NextUsed = used
        /\ a.seed = seed /\ a.nonce < latestAcc
        /\ inUse[a] = openAccs[a].useCount /\ inUse[a] \in Nat
    <2>1. pending = NoUsage /\ NextInUse = inUse /\ NextUsed = used
      BY NothingPending DEF IncrementUsage, HistoryInv, TypeOK
    <2>2. a = genAcc(seed, openAccs[a].nonce) /\ a.nonce < latestAcc
      BY DEF IncrementUsage, MemoryInv, Derived
    <2>3. a.seed = seed
      BY <2>2 DEF genAcc
    <2>4. Count(openAccs, a) = inUse[a]
      BY <2>1, <2>3 DEF IncrementUsage, MemoryInv, Shows
    <2> QED BY <2>1, <2>2, <2>3, <2>4 DEF IncrementUsage, Count, TypeOK
  <1>3. NextInUse' = [x \in Addresses |-> IF x = a THEN inUse[a] + 1 ELSE inUse[x]]
    BY <1>1 DEF IncrementUsage, Save, NextInUse, TypeOK
  <1>4. NextUsed' = used \cup {a}
    BY DEF IncrementUsage, Save, NextUsed
  <1>5. MemoryInv'
    <2>1. Derived(openAccs, seed, latestAcc)'
      BY DEF IncrementUsage, Save, Put, MemoryInv, Derived
    <2>2. UnlockedKeyMatches'
      BY DEF IncrementUsage, Save, Put, MemoryInv, UnlockedKeyMatches
    <2>3. Shows(openAccs', seed, latestAcc, NextInUse', NextUsed')
      <3> SUFFICES ASSUME NEW x \in Addresses, x.seed = seed
                   PROVE  /\ Count(openAccs', x) = NextInUse'[x]
                          /\ x \in NextUsed' => x.nonce < latestAcc
                          /\ x \in NextUsed' => (x \in DOMAIN openAccs' <=> NextInUse'[x] > 0)
        BY DEF Shows
      <3>1. CASE x = a
        <4>1. a \in DOMAIN openAccs' /\ openAccs'[a].useCount = inUse[a] + 1
          BY <1>2 DEF IncrementUsage, Put, TypeOK, Accs, OpenAcc
        <4> QED BY <3>1, <4>1, <1>2, <1>3, <1>4 DEF Count
      <3>2. CASE x # a
        BY <3>2, <1>2, <1>3, <1>4 DEF IncrementUsage, Put, Count, MemoryInv, Shows
      <3> QED BY <3>1, <3>2
    <2> QED BY <2>1, <2>2, <2>3 DEF IncrementUsage, Save, MemoryInv
  <1>6. DiskInv'
    BY DEF IncrementUsage, Save, DiskInv, Shows
  <1>7. HistoryInv'
    BY <1>2 DEF IncrementUsage, Save, HistoryInv
  <1>8. SaveInv'
    <2>1. pending'.delta # 0 /\ pending' # NoUsage
      BY DEF IncrementUsage, Save, NoUsage
    <2> QED BY <2>1 DEF IncrementUsage, Save, SaveInv
  <1> QED BY <1>1, <1>5, <1>6, <1>7, <1>8

LEMMA DecrementUsageIInv ==
  ASSUME IInv, NEW a \in Addresses, DecrementUsage(a) PROVE IInv'
  <1> USE DEF IInv
  <1>1. TypeOK'
    <2>1. CASE openAccs[a].useCount = 1
      BY <2>1 DEF DecrementUsage, Save, Remove, TypeOK, Accs, OpenAcc
    <2>2. CASE openAccs[a].useCount # 1
      BY <2>2 DEF DecrementUsage, Save, Put, TypeOK, Accs, OpenAcc
    <2> QED BY <2>1, <2>2
  <1>2. /\ pending = NoUsage /\ NextInUse = inUse /\ NextUsed = used
        /\ a.seed = seed /\ a.nonce < latestAcc
        /\ inUse[a] = openAccs[a].useCount /\ inUse[a] \in Nat \ {0}
    <2>1. pending = NoUsage /\ NextInUse = inUse /\ NextUsed = used
      BY NothingPending DEF DecrementUsage, HistoryInv, TypeOK
    <2>2. a = genAcc(seed, openAccs[a].nonce) /\ a.nonce < latestAcc
      BY DEF DecrementUsage, MemoryInv, Derived
    <2>3. a.seed = seed
      BY <2>2 DEF genAcc
    <2>4. Count(openAccs, a) = inUse[a]
      BY <2>1, <2>3 DEF DecrementUsage, MemoryInv, Shows
    <2> QED BY <2>1, <2>2, <2>3, <2>4 DEF DecrementUsage, Count, TypeOK
  <1>3. NextInUse' = [x \in Addresses |-> IF x = a THEN inUse[a] - 1 ELSE inUse[x]]
    BY <1>1 DEF DecrementUsage, Save, NextInUse, TypeOK
  <1>4. NextUsed' = used
    BY DEF DecrementUsage, Save, NextUsed
  <1>5. MemoryInv'
    <2>0. /\ DOMAIN openAccs' \subseteq DOMAIN openAccs
          /\ \A x \in DOMAIN openAccs' : /\ openAccs'[x].nonce = openAccs[x].nonce
                                        /\ openAccs'[x].acc = openAccs[x].acc
      <3>1. CASE openAccs[a].useCount = 1
        BY <3>1 DEF DecrementUsage, Remove
      <3>2. CASE openAccs[a].useCount # 1
        BY <3>2 DEF DecrementUsage, Put, TypeOK, Accs, OpenAcc
      <3> QED BY <3>1, <3>2
    <2>1. Derived(openAccs, seed, latestAcc)'
      BY <2>0 DEF DecrementUsage, Save, MemoryInv, Derived
    <2>2. UnlockedKeyMatches'
      BY <2>0 DEF DecrementUsage, Save, MemoryInv, UnlockedKeyMatches
    <2>3. Shows(openAccs', seed, latestAcc, NextInUse', NextUsed')
      <3> SUFFICES ASSUME NEW x \in Addresses, x.seed = seed
                   PROVE  /\ Count(openAccs', x) = NextInUse'[x]
                          /\ x \in NextUsed' => x.nonce < latestAcc
                          /\ x \in NextUsed' => (x \in DOMAIN openAccs' <=> NextInUse'[x] > 0)
        BY DEF Shows
      <3>1. CASE x = a /\ openAccs[a].useCount = 1
        BY <3>1, <1>2, <1>3, <1>4 DEF DecrementUsage, Remove, Count
      <3>2. CASE x = a /\ openAccs[a].useCount # 1
        <4>1. a \in DOMAIN openAccs' /\ openAccs'[a].useCount = inUse[a] - 1
          BY <3>2, <1>2 DEF DecrementUsage, Put, TypeOK, Accs, OpenAcc
        <4> QED BY <3>2, <4>1, <1>2, <1>3, <1>4 DEF Count
      <3>3. CASE x # a
        BY <3>3, <1>2, <1>3, <1>4 DEF DecrementUsage, Put, Remove, Count, MemoryInv, Shows
      <3> QED BY <3>1, <3>2, <3>3
    <2> QED BY <2>1, <2>2, <2>3 DEF DecrementUsage, Save, MemoryInv
  <1>6. DiskInv'
    BY DEF DecrementUsage, Save, DiskInv, Shows
  <1>7. HistoryInv'
    BY <1>2 DEF DecrementUsage, Save, HistoryInv
  <1>8. SaveInv'
    <2>1. pending'.delta # 0 /\ pending' # NoUsage
      BY DEF DecrementUsage, Save, NoUsage
    <2> QED BY <2>1 DEF DecrementUsage, Save, SaveInv
  <1> QED BY <1>1, <1>5, <1>6, <1>7, <1>8

LEMMA TruncateIInv ==
  ASSUME IInv, Truncate PROVE IInv'
  <1> USE DEF IInv
  <1>1. TypeOK'
    BY WalletAssumption DEF Truncate, memory, TypeOK, Torn, Absent, NoAccs, Accs
  <1>2. NextInUse' = NextInUse /\ NextUsed' = NextUsed
    BY DEF Truncate, NextInUse, NextUsed
  <1>3. MemoryInv'
    BY <1>2 DEF Truncate, memory, MemoryInv, Derived, UnlockedKeyMatches, Shows
  <1>4. DiskInv' /\ HistoryInv'
    BY DEF Truncate, memory, DiskInv, HistoryInv, Torn, Absent
  <1>5. SaveInv'
    BY DEF Truncate, SaveInv, memory, Torn, Absent
  <1> QED BY <1>1, <1>3, <1>4, <1>5

(* The save is complete: the disk shows what the memory shows.             *)
LEMMA WriteIInv ==
  ASSUME IInv, Write PROVE IInv'
  <1> USE DEF IInv
  <1>1. NextInUse \in [Addresses -> Nat] /\ NextUsed \subseteq Addresses
    <2>1. CASE pending = NoUsage
      BY <2>1, NothingPending DEF TypeOK
    <2>2. CASE pending # NoUsage
      BY <2>2 DEF NextInUse, NextUsed, HistoryInv, TypeOK
    <2> QED BY <2>1, <2>2
  <1>2. TypeOK'
    BY <1>1 DEF Write, memory, Contents, TypeOK, Accs, OpenAcc, SavedAcc, NoUsage
  <1>3. inUse' = NextInUse /\ used' = NextUsed /\ pending' = NoUsage
    BY DEF Write
  <1>4. NextInUse' = inUse' /\ NextUsed' = used'
    <2>1. Locked \notin Addresses
      BY DEF Locked, Addresses
    <2>2. \A x \in Addresses : NextInUse'[x] = inUse'[x]
      BY <1>1, <1>3, <2>1 DEF NextInUse, NoUsage
    <2>3. NextInUse' = [x \in Addresses |-> inUse'[x]]
      BY <2>2 DEF NextInUse
    <2> QED BY <1>1, <1>3, <2>3 DEF NextUsed, NoUsage
  <1>5. MemoryInv'
    BY <1>3, <1>4 DEF Write, memory, MemoryInv, Derived, UnlockedKeyMatches, Shows
  <1>6. DiskInv'
    <2>1. Derived(file'.accs, file'.seed, file'.latestAcc)
      BY DEF Write, Contents, MemoryInv, Derived
    <2>2. /\ DOMAIN file'.accs = DOMAIN openAccs
          /\ \A x : Count(file'.accs, x) = Count(openAccs, x)
          /\ file'.seed = seed /\ file'.latestAcc = latestAcc
      BY DEF Write, Contents, Count
    <2>3. Shows(file'.accs, file'.seed, file'.latestAcc, inUse', used')
      BY <1>3, <2>2 DEF Write, MemoryInv, Shows
    <2> QED BY <2>1, <2>2, <2>3 DEF Write, memory, DiskInv, MemoryInv
  <1>7. HistoryInv'
    <2>1. ASSUME NEW x \in Addresses, x.seed > seeds
          PROVE  NextInUse[x] = 0 /\ x \notin NextUsed
      <3>1. CASE pending = NoUsage
        BY <2>1, <3>1, NothingPending DEF HistoryInv, TypeOK
      <3>2. CASE pending # NoUsage
        <4>1. pending.addr.seed = seed /\ seed <= seeds /\ seed \in Int /\ seeds \in Int
          BY <3>2 DEF Write, HistoryInv, MemoryInv, TypeOK
        <4>2. x # pending.addr
          BY <2>1, <4>1
        <4> QED BY <2>1, <4>2 DEF NextInUse, NextUsed, HistoryInv, TypeOK
      <3> QED BY <3>1, <3>2
    <2> QED BY <1>3, <2>1 DEF Write, memory, HistoryInv
  <1>8. SaveInv'
    <2>1. ASSUME NEW x \in Addresses, NextInUse[x] > 0
          PROVE  x \in NextUsed
      BY <2>1 DEF NextInUse, NextUsed, SaveInv, TypeOK, NoUsage
    <2> QED BY <1>3, <2>1 DEF Write, memory, Contents, SaveInv, NoUsage
  <1> QED BY <1>2, <1>5, <1>6, <1>7, <1>8

LEMMA CrashIInv ==
  ASSUME IInv, Crash PROVE IInv'
  BY WalletAssumption
  DEF IInv, Crash, TypeOK, MemoryInv, DiskInv, HistoryInv, SaveInv, Accs, NoAccs, NoUsage,
      Locked, Shows
-----------------------------------------------------------------------------
(* IInv is inductive.                                                      *)
THEOREM Inductive == Spec => []IInv
  <1>1. IInv /\ [Next]_vars => IInv'
    <2> SUFFICES ASSUME IInv, [Next]_vars PROVE IInv'
      OBVIOUS
    <2>1. CASE Load BY <2>1, LoadIInv
    <2>2. CASE Create BY <2>2, CreateIInv
    <2>3. CASE NewAccount BY <2>3, NewAccountIInv
    <2>4. CASE LockAll BY <2>4, LockAllIInv
    <2>5. ASSUME NEW a \in Addresses, Unlock(a) PROVE IInv'
      BY <2>5, UnlockIInv
    <2>6. ASSUME NEW a \in Addresses, IncrementUsage(a) PROVE IInv'
      BY <2>6, IncrementUsageIInv
    <2>7. ASSUME NEW a \in Addresses, DecrementUsage(a) PROVE IInv'
      BY <2>7, DecrementUsageIInv
    <2>8. CASE Truncate BY <2>8, TruncateIInv
    <2>9. CASE Write BY <2>9, WriteIInv
    <2>10. CASE Crash BY <2>10, CrashIInv
    <2>11. CASE UNCHANGED vars
      BY <2>11
      DEF vars, IInv, TypeOK, MemoryInv, DiskInv, HistoryInv, SaveInv, Derived, Shows,
          UnlockedKeyMatches, NextInUse, NextUsed
    <2> QED
      BY <2>1, <2>2, <2>3, <2>4, <2>5, <2>6, <2>7, <2>8, <2>9, <2>10, <2>11 DEF Next
  <1> QED BY <1>1, InitIInv, PTL DEF Spec

(* The variables keep their types.                                         *)
THEOREM TypeCorrect == Spec => []TypeOK
  <1>1. IInv => TypeOK
    BY DEF IInv
  <1> QED BY <1>1, Inductive, PTL

(* Whenever the file is readable, it counts the usages that completed      *)
(* calls leave, and holds no address that is no longer used: also after    *)
(* any number of crashes at any point of a save.                           *)
THEOREM UsagesAreDurable == Spec => []UseCountsSurvive
  <1>1. IInv => UseCountsSurvive
    BY DEF IInv, DiskInv, Shows, UseCountsSurvive
  <1> QED BY <1>1, Inductive, PTL

(* NewAccount never generates a key that was in use before, also after     *)
(* crashes that take the nonce counter back.                               *)
THEOREM UsedKeysStayUnique == Spec => []UsedKeysAreNotReissued
  <1>1. IInv => UsedKeysAreNotReissued
    BY DEF IInv, TypeOK, MemoryInv, Shows, NextUsed, UsedKeysAreNotReissued
  <1> QED BY <1>1, Inductive, PTL

(* Unlock yields the key of the address it is asked for.                   *)
THEOREM KeysMatchAddresses == Spec => []UnlockedKeyMatches
  <1>1. IInv => UnlockedKeyMatches
    BY DEF IInv, MemoryInv, UnlockedKeyMatches, NoAccs
  <1> QED BY <1>1, Inductive, PTL
-----------------------------------------------------------------------------
(* Every step of the wallet is one of KeyStore or invisible to it.         *)

LEMMA LockedIsNoAddress == Locked \notin Addresses
  BY DEF Locked, Addresses

LEMMA InitRefines == Init => Store!Init
  BY DEF Init, Store!Init, IsOpen, IsReadable, Absent, NoUsage

LEMMA LoadRefines ==
  ASSUME IInv, Load PROVE Store!Load
  <1>1. pending = NoUsage /\ file.seed # 0
    BY DEF Load, IInv, HistoryInv, DiskInv
  <1>2. DOMAIN openAccs' = DOMAIN file.accs
    BY DEF Load
  <1> QED
    BY <1>1, <1>2
    DEF Load, Store!Load, Store!history, IsOpen, IsReadable, Keys

(* To draw a seed changes nothing a caller can see.                        *)
LEMMA CreateRefines ==
  ASSUME IInv, Create PROVE UNCHANGED Store!vars
  BY DEF Create, IInv, HistoryInv, Store!vars, Store!history, IsOpen, IsReadable

LEMMA NewAccountRefines ==
  ASSUME IInv, NewAccount PROVE \E a \in Addresses : Store!NewKey(a)
  <1> DEFINE acc == genAcc(seed, latestAcc)
  <1>1. acc \in Addresses /\ acc.seed = seed /\ acc.nonce = latestAcc
    BY WalletAssumption DEF NewAccount, IInv, TypeOK, MemoryInv, genAcc, Addresses
  <1>2. pending = NoUsage /\ NextUsed = used
    BY NothingPending DEF NewAccount, IInv, HistoryInv, TypeOK
  <1>3. acc \notin DOMAIN openAccs /\ acc \notin used
    BY <1>1, <1>2 DEF NewAccount, IInv, MemoryInv, Derived, Shows, TypeOK
  <1>4. Keys = DOMAIN openAccs /\ Keys' = DOMAIN openAccs \cup {acc}
    BY <1>2 DEF NewAccount, Put, Keys
  <1>5. /\ IsOpen /\ IsOpen' /\ IsReadable /\ IsReadable' = IsReadable
        /\ file.seed = seed
    BY DEF NewAccount, IInv, SaveInv, IsOpen, IsReadable
  <1>6. Store!NewKey(acc)
    BY <1>1, <1>3, <1>4, <1>5 DEF NewAccount, Store!NewKey, Store!history
  <1> QED BY <1>1, <1>6

(* Locking and unlocking change no set of keys, and neither does a usage   *)
(* before it is saved.                                                     *)
LEMMA UsageRefines ==
  ASSUME IInv, NEW a \in Addresses,
         LockAll \/ Unlock(a) \/ IncrementUsage(a) \/ DecrementUsage(a)
  PROVE  UNCHANGED Store!vars
  <1>1. pc = "ready" /\ pending = NoUsage /\ IsOpen /\ Keys = DOMAIN openAccs
    BY DEF LockAll, Unlock, IncrementUsage, DecrementUsage, IInv, HistoryInv, IsOpen, Keys
  <1>2. UNCHANGED <<seed, file, inUse, used>>
    BY DEF LockAll, Unlock, IncrementUsage, DecrementUsage, Save
  <1>3. IsOpen' /\ Keys' = Keys
    <2>1. CASE LockAll \/ Unlock(a)
      BY <1>1, <2>1 DEF LockAll, Unlock, Put, IsOpen, Keys
    <2>2. CASE IncrementUsage(a) \/ DecrementUsage(a)
      <3>1. pending'.addr = a /\ pending' # NoUsage
        BY <2>2, LockedIsNoAddress DEF IncrementUsage, DecrementUsage, Save, NoUsage
      <3>2. a \in DOMAIN openAccs
        BY <2>2 DEF IncrementUsage, DecrementUsage
      <3>3. DOMAIN openAccs' \cup {a} = DOMAIN openAccs
        BY <2>2, <3>2 DEF IncrementUsage, DecrementUsage, Put, Remove
      <3> QED BY <1>1, <3>1, <3>3 DEF IsOpen, Keys
    <2> QED BY <2>1, <2>2
  <1> QED BY <1>1, <1>2, <1>3 DEF Store!vars, Store!history, IsReadable

LEMMA TruncateRefines ==
  ASSUME IInv, Truncate PROVE Store!Tear
  <1>1. IsOpen => IsReadable /\ file.seed = seed
    BY DEF Truncate, IInv, SaveInv, IsOpen, IsReadable
  <1>2. IsOpen' = IsOpen /\ Keys' = Keys /\ ~IsReadable'
    BY DEF Truncate, memory, IsOpen, Keys, IsReadable, Torn, Absent
  <1> QED BY <1>1, <1>2 DEF Truncate, memory, Store!Tear, Store!history

(* The first save of a new wallet opens it; another one completes a call.  *)
LEMMA WriteRefines ==
  ASSUME IInv, Write
  PROVE  \/ \E s \in 1..MaxSeeds : Store!Create(s)
         \/ \E a \in Addresses : Store!Use(a) \/ Store!Release(a)
  <1>1. /\ seed \in 1..MaxSeeds /\ seed # 0 /\ ~IsReadable
        /\ IsOpen' /\ IsReadable' /\ UNCHANGED <<seed, openAccs>>
        /\ Keys' = DOMAIN openAccs
    BY DEF Write, memory, Contents, IInv, TypeOK, MemoryInv, SaveInv,
           IsOpen, IsReadable, Keys
  <1>2. file'.seed = seed /\ DOMAIN file'.accs = DOMAIN openAccs
    BY DEF Write, Contents
  <1>3. inUse' = NextInUse /\ used' = NextUsed
    BY DEF Write
  <1>4. CASE pending = NoUsage
    <2>1. NextInUse = inUse /\ NextUsed = used
      BY <1>4, NothingPending DEF IInv, TypeOK
    <2>2. \A a \in used : a.seed # seed
      BY <1>4, <2>1 DEF Write, IInv, TypeOK, SaveInv, MemoryInv, Shows, Addresses
    <2>3. ~IsOpen /\ DOMAIN openAccs = {}
      BY <1>4 DEF Write, IInv, SaveInv, IsOpen, NoAccs
    <2>4. Store!Create(seed)
      BY <1>1, <1>2, <1>3, <2>1, <2>2, <2>3 DEF Store!Create, Store!history, IInv, TypeOK
    <2> QED BY <1>1, <2>4
  <1>5. CASE pending # NoUsage
    <2> DEFINE a == pending.addr
    <2>1. /\ a \in Addresses /\ a.seed = seed /\ pending.delta \in {-1, 1}
          /\ inUse[a] \in Nat /\ inUse[a] + pending.delta \in Nat
      BY <1>5 DEF IInv, TypeOK, HistoryInv, SaveInv
    <2>2. NextInUse = [inUse EXCEPT ![a] = @ + pending.delta]
      <3>1. /\ inUse \in [Addresses -> Nat]
            /\ \A x \in Addresses : inUse[x] + 0 = inUse[x]
        BY DEF IInv, TypeOK
      <3> HIDE DEF a
      <3>2. \A x \in Addresses :
              NextInUse[x] = IF x = a THEN inUse[a] + pending.delta ELSE inUse[x]
        BY <3>1 DEF NextInUse, a
      <3>3. NextInUse = [x \in Addresses |-> NextInUse[x]]
        BY DEF NextInUse
      <3> QED BY <2>1, <3>1, <3>2, <3>3
    <2>3. /\ Count(openAccs, a) = inUse[a] + pending.delta
          /\ a \in NextUsed => (a \in DOMAIN openAccs <=> inUse[a] + pending.delta > 0)
      BY <2>1, <2>2 DEF Write, IInv, TypeOK, MemoryInv, Shows
    <2>4. IsOpen /\ Keys = DOMAIN openAccs \cup {a}
      BY <1>5 DEF IsOpen, Keys
    <2>5. CASE pending.delta = 1
      <3>1. a \in DOMAIN openAccs /\ NextUsed = used \cup {a}
        BY <2>1, <2>3, <2>5 DEF Count, NextUsed
      <3>2. Store!Use(a)
        BY <1>1, <1>2, <1>3, <2>1, <2>2, <2>4, <2>5, <3>1 DEF Store!Use
      <3> QED BY <2>1, <3>2
    <2>6. CASE pending.delta = -1
      <3>1. NextUsed = used /\ inUse[a] > 0 /\ a \in used
        BY <2>1, <2>6 DEF NextUsed, IInv, SaveInv
      <3>2. DOMAIN openAccs = IF inUse[a] = 1 THEN Keys \ {a} ELSE Keys
        BY <2>1, <2>3, <2>4, <2>6, <3>1
      <3>3. Store!Release(a)
        BY <1>1, <1>2, <1>3, <2>1, <2>2, <2>4, <2>6, <3>1, <3>2 DEF Store!Release
      <3> QED BY <2>1, <3>3
    <2> QED BY <2>1, <2>5, <2>6
  <1> QED BY <1>4, <1>5

LEMMA CrashRefines ==
  ASSUME Crash PROVE Store!Crash
  BY DEF Crash, Store!Crash, Store!history, IsOpen, IsReadable

LEMMA StutterRefines ==
  ASSUME UNCHANGED vars PROVE UNCHANGED Store!vars
  BY DEF vars, Store!vars, Store!history, IsOpen, IsReadable, Keys

(* Everything the wallet does, with crashes at any step of a save, is a    *)
(* behaviour of KeyStore.                                                  *)
THEOREM Refinement == Spec => ImplementsKeyStore
  <1>1. IInv /\ [Next]_vars => [Store!Next]_(Store!vars)
    <2> SUFFICES ASSUME IInv, [Next]_vars PROVE Store!Next \/ UNCHANGED Store!vars
      OBVIOUS
    <2>1. CASE Load BY <2>1, LoadRefines DEF Store!Next
    <2>2. CASE Create BY <2>2, CreateRefines
    <2>3. CASE NewAccount BY <2>3, NewAccountRefines DEF Store!Next
    <2>4. CASE LockAll
      <3>1. genAcc(1, 0) \in Addresses
        BY WalletAssumption DEF genAcc, Addresses
      <3> QED BY <2>4, <3>1, UsageRefines
    <2>5. ASSUME NEW a \in Addresses, Unlock(a) \/ IncrementUsage(a) \/ DecrementUsage(a)
          PROVE  UNCHANGED Store!vars
      BY <2>5, UsageRefines
    <2>6. CASE Truncate BY <2>6, TruncateRefines DEF Store!Next
    <2>7. CASE Write BY <2>7, WriteRefines DEF Store!Next
    <2>8. CASE Crash BY <2>8, CrashRefines DEF Store!Next
    <2>9. CASE UNCHANGED vars BY <2>9, StutterRefines
    <2> QED BY <2>1, <2>2, <2>3, <2>4, <2>5, <2>6, <2>7, <2>8, <2>9 DEF Next
  <1> QED BY <1>1, InitRefines, Inductive, PTL DEF Spec, ImplementsKeyStore, Store!Spec
-----------------------------------------------------------------------------
(* What lasts.                                                             *)

KeysOpen == IF IsOpen THEN Keys ELSE {}
KeysStored == IF IsReadable THEN DOMAIN file.accs ELSE {}

(* The key's last use is over: neither memory nor disk has it any more.    *)
Released(a) ==
    /\ a \in used /\ inUse[a] = 0
    /\ a \notin KeysOpen \cup KeysStored

(* In KeyStore, a key that was in use and no longer is has been released,  *)
(* and a new key is another one.                                           *)
UnusedAreReleased == \A a \in used : inUse[a] = 0 => Released(a)

LEMMA ReleasedStep ==
  ASSUME TypeOK, UnusedAreReleased,
         Store!Next \/ UNCHANGED Store!vars, NEW a \in Addresses
  PROVE  /\ Released(a) => Released(a)'
         /\ a \in used' /\ inUse'[a] = 0 => Released(a)'
  <1>0. inUse \in [Addresses -> Nat]
    BY DEF TypeOK
  <1>1. Released(a) \/ ~(a \in used /\ inUse[a] = 0)
    BY DEF UnusedAreReleased
  <1>2. CASE \/ \E s \in 1..MaxSeeds : Store!Create(s)
             \/ Store!Load \/ Store!Tear \/ Store!Crash \/ UNCHANGED Store!vars
    <2>1. UNCHANGED <<inUse, used>>
      BY <1>2 DEF Store!Create, Store!Load, Store!Tear, Store!Crash, Store!history, Store!vars
    <2>2. KeysOpen' \subseteq KeysOpen \cup KeysStored /\ KeysStored' \subseteq KeysStored
      BY <1>2 DEF Store!Create, Store!Load, Store!Tear, Store!Crash, Store!vars,
                  KeysOpen, KeysStored
    <2> QED BY <1>1, <2>1, <2>2 DEF Released
  <1>3. ASSUME NEW b \in Addresses, Store!NewKey(b)
        PROVE  /\ Released(a) => Released(a)'
               /\ a \in used' /\ inUse'[a] = 0 => Released(a)'
    <2>1. /\ UNCHANGED <<inUse, used>> /\ b \notin used
          /\ KeysOpen' = KeysOpen \cup {b} /\ KeysStored' = KeysStored
      BY <1>3 DEF Store!NewKey, Store!history, KeysOpen, KeysStored
    <2> QED BY <1>1, <2>1 DEF Released
  <1>4. ASSUME NEW b \in Addresses, Store!Use(b)
        PROVE  /\ Released(a) => Released(a)'
               /\ a \in used' /\ inUse'[a] = 0 => Released(a)'
    <2>1. /\ inUse' = [inUse EXCEPT ![b] = @ + 1] /\ used' = used \cup {b}
          /\ b \in KeysOpen /\ KeysOpen' = KeysOpen /\ KeysStored' = KeysOpen
      BY <1>4 DEF Store!Use, KeysOpen, KeysStored
    <2>3. CASE a = b
      <3>1. ~Released(a)
        BY <2>1, <2>3 DEF Released
      <3>2. inUse'[a] = inUse[a] + 1 /\ inUse[a] \in Nat
        BY <1>0, <2>1, <2>3
      <3>3. inUse'[a] # 0
        BY <3>2
      <3> QED BY <3>1, <3>3
    <2>4. CASE a # b
      <3>1. inUse'[a] = inUse[a] /\ (a \in used' <=> a \in used)
        BY <1>0, <2>1, <2>4
      <3> QED BY <1>1, <2>1, <3>1 DEF Released
    <2> QED BY <2>3, <2>4
  <1>5. ASSUME NEW b \in Addresses, Store!Release(b)
        PROVE  /\ Released(a) => Released(a)'
               /\ a \in used' /\ inUse'[a] = 0 => Released(a)'
    <2>1. /\ inUse' = [inUse EXCEPT ![b] = @ - 1] /\ used' = used /\ inUse[b] > 0
          /\ KeysOpen' = IF inUse[b] = 1 THEN KeysOpen \ {b} ELSE KeysOpen
          /\ KeysStored' = KeysOpen'
      BY <1>5 DEF Store!Release, KeysOpen, KeysStored
    <2>3. CASE a = b
      BY <1>0, <2>1, <2>3 DEF Released
    <2>4. CASE a # b
      <3>1. inUse'[a] = inUse[a]
        BY <1>0, <2>1, <2>4
      <3> QED BY <1>1, <2>1, <3>1 DEF Released
    <2> QED BY <2>3, <2>4
  <1> QED BY <1>2, <1>3, <1>4, <1>5 DEF Store!Next

(* A key that was in use is gone for good with its last use: no restart    *)
(* finds it, no new account is given it, and no call can use it again,     *)
(* whatever saves are torn and crashes come between                        *)
(* (wallet.go, DecrementUsage, NewAccount and load).                       *)
THEOREM ReleasedForGood ==
  ASSUME NEW a \in Addresses
  PROVE  Spec => [](a \in used /\ inUse[a] = 0 => []Released(a))
  <1>1. Store!Init => UnusedAreReleased
    BY DEF Store!Init, UnusedAreReleased
  <1>2. TypeOK /\ TypeOK' /\ UnusedAreReleased /\ [Store!Next]_(Store!vars)
            => UnusedAreReleased'
    <2>1. TypeOK' => used' \subseteq Addresses
      BY DEF TypeOK
    <2> QED BY <2>1, ReleasedStep DEF UnusedAreReleased
  <1>3. TypeOK /\ UnusedAreReleased /\ Released(a) /\ [Store!Next]_(Store!vars)
            => Released(a)'
    BY ReleasedStep
  <1>4. UnusedAreReleased /\ a \in used /\ inUse[a] = 0 => Released(a)
    BY DEF UnusedAreReleased
  <1> QED
    BY <1>1, <1>2, <1>3, <1>4, TypeCorrect, Refinement, PTL DEF ImplementsKeyStore, Store!Spec
=============================================================================
