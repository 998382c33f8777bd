------------------------------ MODULE FsWallet ------------------------------
(***************************************************************************)
(* wallet/wallet.go: the file system wallet, its operations and its file,  *)
(* across crashes and restarts.                                            *)
(*                                                                         *)
(* Every operation runs under the wallet's mutex, so it is atomic for the  *)
(* callers; what is not atomic is the file: os.WriteFile truncates it and  *)
(* then writes it.  A failed save panics, which is a crash like any other. *)
(***************************************************************************)
EXTENDS Integers, FiniteSets

CONSTANTS
    MaxSeeds,   \* bound: wallets created
    MaxAccs,    \* bound: accounts of one wallet
    MaxUses,    \* bound: use count of one account
    ReadErrors  \* whether os.ReadFile may fail on a file that exists

ASSUME WalletAssumption ==
    /\ MaxSeeds \in Nat \ {0} /\ MaxAccs \in Nat \ {0} /\ MaxUses \in Nat \ {0}
    /\ ReadErrors \in BOOLEAN

(* genAcc derives a key from the seed and a nonce; the key's address is as *)
(* good as the key.                                                        *)
Addresses == [seed : 1..MaxSeeds, nonce : 0..MaxAccs - 1]
genAcc(s, n) == [seed |-> s, nonce |-> n]

Locked == [seed |-> 0, nonce |-> 0]   \* openAcc.acc = nil

OpenAcc == [nonce : Nat, useCount : Nat, acc : Addresses \cup {Locked}]
SavedAcc == [nonce : Nat, useCount : Nat]
Accs(accs, T) == DOMAIN accs \subseteq Addresses /\ accs \in [DOMAIN accs -> T]
NoAccs == [a \in {} |-> 0]

VARIABLES
    pc,         \* "down", "ready", or in save: about to "truncate" or to "write"
    seed,       \* the wallet in memory
    latestAcc,
    openAccs,
    file,       \* the wallet on disk
    seeds,      \* history: number of seeds drawn so far
    pending,    \* history: the usage that the save under way is to record
    inUse,      \* history: usages of an address, by completed calls
    used        \* history: the addresses that were ever in use

memory == <<seed, latestAcc, openAccs>>
vars == <<pc, seed, latestAcc, openAccs, file, seeds, pending, inUse, used>>

Absent == [state |-> "absent", seed |-> 0, latestAcc |-> 0, accs |-> NoAccs]
Torn == [Absent EXCEPT !.state = "torn"]

NoUsage == [addr |-> Locked, delta |-> 0]

Init ==
    /\ pc = "down"
    /\ seed = 0 /\ latestAcc = 0 /\ openAccs = NoAccs
    /\ file = Absent
    /\ seeds = 0
    /\ pending = NoUsage
    /\ inUse = [a \in Addresses |-> 0]
    /\ used = {}
-----------------------------------------------------------------------------
(* CreateOrLoadFsWallet.  A torn file is an error: nothing is loaded.      *)

(* Mutant: the next nonce is the number of accounts.                       *)
Load_CountingAccs ==
    /\ pc = "down" /\ file.state = "saved"
    /\ seed' = file.seed
    /\ latestAcc' = Cardinality(DOMAIN file.accs)
    /\ openAccs' = [a \in DOMAIN file.accs |->
                       [nonce |-> file.accs[a].nonce,
                        useCount |-> file.accs[a].useCount, acc |-> Locked]]
    /\ pc' = "ready"
    /\ UNCHANGED <<file, seeds, pending, inUse, used>>

Load ==
    /\ pc = "down" /\ file.state = "saved"
    /\ seed' = file.seed
    /\ latestAcc' = file.latestAcc
    /\ openAccs' = [a \in DOMAIN file.accs |->
                       [nonce |-> file.accs[a].nonce,
                        useCount |-> file.accs[a].useCount, acc |-> Locked]]
    /\ pc' = "ready"
    /\ UNCHANGED <<file, seeds, pending, inUse, used>>

(* Mutant: a new wallet is not saved before its first use.                 *)
Create_Unsaved ==
    /\ pc = "down" /\ (file.state = "absent" \/ ReadErrors)
    /\ seeds < MaxSeeds /\ seeds' = seeds + 1
    /\ seed' = seeds + 1 /\ latestAcc' = 0 /\ openAccs' = NoAccs
    /\ pc' = "ready" /\ pending' = NoUsage
    /\ UNCHANGED <<file, inUse, used>>

(* Any error of ReadFile counts as "there is no file".                     *)
Create ==
    /\ pc = "down" /\ (file.state = "absent" \/ ReadErrors)
    /\ seeds < MaxSeeds /\ seeds' = seeds + 1
    /\ seed' = seeds + 1 /\ latestAcc' = 0 /\ openAccs' = NoAccs
    /\ pc' = "truncate" /\ pending' = NoUsage
    /\ UNCHANGED <<file, inUse, used>>
-----------------------------------------------------------------------------
Put(a, acc) ==
    openAccs' = [x \in DOMAIN openAccs \cup {a} |-> IF x = a THEN acc ELSE openAccs[x]]

(* Mutant: the nonce is not advanced.                                      *)
NewAccount_SameNonce ==
    /\ pc = "ready" /\ latestAcc < MaxAccs
    /\ LET acc == genAcc(seed, latestAcc) IN
       Put(acc, [nonce |-> latestAcc, useCount |-> 0, acc |-> acc])
    /\ UNCHANGED <<pc, seed, latestAcc, file, seeds, pending, inUse, used>>

(* NewAccount and NewRandomAccount.                                        *)
NewAccount ==
    /\ pc = "ready" /\ latestAcc < MaxAccs
    /\ LET acc == genAcc(seed, latestAcc) IN
       Put(acc, [nonce |-> latestAcc, useCount |-> 0, acc |-> acc])
    /\ latestAcc' = latestAcc + 1
    /\ UNCHANGED <<pc, seed, file, seeds, pending, inUse, used>>

(* Mutant: the key of the latest nonce is generated.                       *)
Unlock_LatestNonce(a) ==
    /\ pc = "ready" /\ a \in DOMAIN openAccs
    /\ openAccs[a].acc = Locked
    /\ Put(a, [openAccs[a] EXCEPT !.acc = genAcc(seed, latestAcc - 1)])
    /\ UNCHANGED <<pc, seed, latestAcc, file, seeds, pending, inUse, used>>

Unlock(a) ==
    /\ pc = "ready" /\ a \in DOMAIN openAccs
    /\ openAccs[a].acc = Locked
    /\ Put(a, [openAccs[a] EXCEPT !.acc = genAcc(seed, openAccs[a].nonce)])
    /\ UNCHANGED <<pc, seed, latestAcc, file, seeds, pending, inUse, used>>

LockAll ==
    /\ pc = "ready"
    /\ openAccs' = [a \in DOMAIN openAccs |-> [openAccs[a] EXCEPT !.acc = Locked]]
    /\ UNCHANGED <<pc, seed, latestAcc, file, seeds, pending, inUse, used>>

(* The end of IncrementUsage and DecrementUsage: save.                     *)
Save(a, delta) ==
    /\ pc' = "truncate"
    /\ pending' = [addr |-> a, delta |-> delta]
    /\ UNCHANGED <<seed, latestAcc, file, seeds, inUse, used>>

IncrementUsage(a) ==
    /\ pc = "ready" /\ a \in DOMAIN openAccs
    /\ openAccs[a].useCount < MaxUses
    /\ Put(a, [openAccs[a] EXCEPT !.useCount = @ + 1])
    /\ Save(a, 1)

Remove(a) == openAccs' = [x \in DOMAIN openAccs \ {a} |-> openAccs[x]]

(* Mutants: an account that is no longer used stays; an unused account is  *)
(* no error.                                                               *)
DecrementUsage_Keeping(a) ==
    /\ pc = "ready" /\ a \in DOMAIN openAccs
    /\ openAccs[a].useCount # 0
    /\ Put(a, [openAccs[a] EXCEPT !.useCount = @ - 1])
    /\ Save(a, -1)

DecrementUsage_Unchecked(a) ==
    /\ pc = "ready" /\ a \in DOMAIN openAccs
    /\ IF openAccs[a].useCount = 1
       THEN Remove(a)
       ELSE Put(a, [openAccs[a] EXCEPT !.useCount = @ - 1])
    /\ Save(a, -1)

(* To decrement an unused account is a panic: see Crash.                   *)
DecrementUsage(a) ==
    /\ pc = "ready" /\ a \in DOMAIN openAccs
    /\ openAccs[a].useCount # 0
    /\ IF openAccs[a].useCount = 1
       THEN Remove(a)
       ELSE Put(a, [openAccs[a] EXCEPT !.useCount = @ - 1])
    /\ Save(a, -1)
-----------------------------------------------------------------------------
(* save: os.WriteFile.                                                     *)

Truncate ==
    /\ pc = "truncate"
    /\ file' = Torn
    /\ pc' = "write"
    /\ UNCHANGED <<memory, seeds, pending, inUse, used>>

Contents ==
    [state |-> "saved", seed |-> seed, latestAcc |-> latestAcc,
     accs |-> [a \in DOMAIN openAccs |->
                  [nonce |-> openAccs[a].nonce, useCount |-> openAccs[a].useCount]]]

(* inUse and used once the save under way is complete.                     *)
NextInUse == [a \in Addresses |->
                 inUse[a] + (IF a = pending.addr THEN pending.delta ELSE 0)]
NextUsed == IF pending.delta = 1 THEN used \cup {pending.addr} ELSE used

Write ==
    /\ pc = "write"
    /\ file' = Contents
    /\ pc' = "ready"
    /\ inUse' = NextInUse /\ used' = NextUsed
    /\ pending' = NoUsage
    /\ UNCHANGED <<memory, seeds>>

(* The process dies, also by a panic: the memory is lost.                  *)
Crash ==
    /\ pc # "down"
    /\ pc' = "down"
    /\ seed' = 0 /\ latestAcc' = 0 /\ openAccs' = NoAccs
    /\ pending' = NoUsage
    /\ UNCHANGED <<file, seeds, inUse, used>>
-----------------------------------------------------------------------------
Next ==
    \/ Load \/ Create \/ NewAccount \/ LockAll
    \/ \E a \in Addresses : Unlock(a) \/ IncrementUsage(a) \/ DecrementUsage(a)
    \/ Truncate \/ Write \/ Crash

Spec == Init /\ [][Next]_vars
-----------------------------------------------------------------------------
TypeOK ==
    /\ pc \in {"down", "ready", "truncate", "write"}
    /\ seed \in 0..MaxSeeds
    /\ latestAcc \in 0..MaxAccs
    /\ Accs(openAccs, OpenAcc)
    /\ file.state \in {"absent", "torn", "saved"}
    /\ file.seed \in 0..MaxSeeds
    /\ file.latestAcc \in 0..MaxAccs
    /\ Accs(file.accs, SavedAcc)
    /\ seeds \in 0..MaxSeeds
    /\ pending \in [addr : Addresses \cup {Locked}, delta : {-1, 0, 1}]
    /\ inUse \in [Addresses -> Nat]
    /\ used \subseteq Addresses

Count(accs, a) == IF a \in DOMAIN accs THEN accs[a].useCount ELSE 0

(* What is on disk counts the usages of every address that completed calls *)
(* of IncrementUsage and DecrementUsage leave, and an address that is no   *)
(* longer used is gone, whenever the process crashes: a restart finds each *)
(* key in use, or an unreadable file (wallet.go, save and load).           *)
UseCountsSurvive ==
    file.state = "saved" =>
        \A a \in Addresses : a.seed = file.seed =>
            /\ Count(file.accs, a) = inUse[a]
            /\ a \in used => (a \in DOMAIN file.accs <=> inUse[a] > 0)

(* An account that NewAccount generates is none that was ever in use,      *)
(* although the nonce of a new account is not saved at once and a crash    *)
(* takes the counter back (wallet.go, NewAccount and load).                *)
UsedKeysAreNotReissued ==
    \A a \in used : pc # "down" /\ a.seed = seed => a.nonce < latestAcc

(* Unlock regenerates the very key of the address, also after a restart    *)
(* that loaded only its nonce (wallet.go, Unlock and load).                *)
UnlockedKeyMatches ==
    \A a \in DOMAIN openAccs : openAccs[a].acc \in {Locked, a}

(* "Generated keys will not be persisted to permanent storage unless       *)
(* IncrementUsage() is called on them" (wallet.go, FsWallet).              *)
OnlyUsedArePersisted ==
    \A a \in DOMAIN file.accs : a \in used
-----------------------------------------------------------------------------
(* The wallet implements KeyStore: a usage counts once its save is over.   *)

IsOpen == pc = "ready" \/ pending # NoUsage
IsReadable == file.state = "saved"

Keys == DOMAIN openAccs \cup (IF pending = NoUsage THEN {} ELSE {pending.addr})

Store == INSTANCE KeyStore WITH
    Seeds  <- 1..MaxSeeds,
    SeedOf <- [a \in Addresses |-> a.seed],
    open   <- IF IsOpen THEN seed ELSE 0,
    keys   <- IF IsOpen THEN Keys ELSE {},
    disk   <- IF IsReadable THEN file.seed ELSE 0,
    stored <- IF IsReadable THEN DOMAIN file.accs ELSE {},
    usage  <- inUse

(* Whenever the process dies, in or between the steps of a save: a call of *)
(* IncrementUsage or DecrementUsage takes effect on memory and disk, or on *)
(* neither and the file is unreadable; a restart finds the keys and the    *)
(* counts that completed calls leave; no new key was ever in use before    *)
(* (wallet.go, CreateOrLoadFsWallet, save and load).                       *)
ImplementsKeyStore == Store!Spec
-----------------------------------------------------------------------------
(* Why: an inductive invariant.                                            *)

(* Accounts derive from the wallet's seed and a nonce already passed.      *)
Derived(accs, s, latest) ==
    \A a \in DOMAIN accs : a = genAcc(s, accs[a].nonce) /\ a.nonce < latest

(* Accounts show the usages u of the addresses U.                          *)
Shows(accs, s, latest, u, U) ==
    \A a \in Addresses : a.seed = s =>
        /\ Count(accs, a) = u[a]
        /\ a \in U => a.nonce < latest
        /\ a \in U => (a \in DOMAIN accs <=> u[a] > 0)

MemoryInv ==
    /\ pc # "down" =>
          /\ seed \in 1..seeds
          /\ Derived(openAccs, seed, latestAcc)
          /\ UnlockedKeyMatches
          /\ Shows(openAccs, seed, latestAcc, NextInUse, NextUsed)
    /\ pc = "down" => openAccs = NoAccs

DiskInv ==
    file.state = "saved" =>
        /\ file.seed \in 1..seeds
        /\ Derived(file.accs, file.seed, file.latestAcc)
        /\ Shows(file.accs, file.seed, file.latestAcc, inUse, used)

(* The address of the save under way is one of the wallet in memory; a     *)
(* seed not drawn yet has no history.                                      *)
HistoryInv ==
    /\ pc \in {"down", "ready"} => pending = NoUsage
    /\ pending # NoUsage => pending.addr \in Addresses /\ pending.addr.seed = seed
    /\ pending # NoUsage => inUse[pending.addr] + pending.delta \in Nat
    /\ \A a \in Addresses : a.seed > seeds => inUse[a] = 0 /\ a \notin used

(* A wallet that has been opened is the one on disk, but for the time that *)
(* a save takes.  A save without a usage is the first one of a new wallet. *)
SaveInv ==
    /\ pc = "ready" \/ (pc = "truncate" /\ pending # NoUsage) =>
          file.state = "saved" /\ file.seed = seed
    /\ pc = "write" => file.state = "torn"
    /\ pc \in {"truncate", "write"} /\ pending = NoUsage =>
          latestAcc = 0 /\ openAccs = NoAccs
    /\ pending.delta = 0 => pending = NoUsage
    /\ \A a \in Addresses : inUse[a] > 0 => a \in used

IInv == TypeOK /\ MemoryInv /\ DiskInv /\ HistoryInv /\ SaveInv
=============================================================================
