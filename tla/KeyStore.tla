------------------------------ MODULE KeyStore ------------------------------
(***************************************************************************)
(* What the file system wallet promises its callers, without nonces,       *)
(* counters in memory, or the steps of a save: which keys an open wallet   *)
(* has, which keys a restart finds, and how often each key is in use.      *)
(***************************************************************************)
EXTENDS Integers

CONSTANTS
    Addresses,
    Seeds,
    SeedOf     \* SeedOf[a]: the wallet that can derive a's key

VARIABLES
    open,    \* the seed of the open wallet, 0 if there is none
    keys,    \* the keys it has
    disk,    \* the seed of the wallet on disk, 0 if it cannot be read
    stored,  \* the keys a restart finds there
    usage,   \* usage[a]: how often a is in use
    used     \* the keys that were ever in use

history == <<usage, used>>
vars == <<open, keys, disk, stored, usage, used>>

Init ==
    /\ open = 0 /\ keys = {}
    /\ disk = 0 /\ stored = {}
    /\ usage = [a \in Addresses |-> 0] /\ used = {}

(* A new wallet takes a seed that has no history.                          *)
Create(s) ==
    /\ open = 0 /\ disk = 0
    /\ \A a \in used : SeedOf[a] # s
    /\ open' = s /\ keys' = {}
    /\ disk' = s /\ stored' = {}
    /\ UNCHANGED history

Load ==
    /\ open = 0 /\ disk # 0
    /\ open' = disk /\ keys' = stored
    /\ UNCHANGED <<disk, stored, history>>

(* A new key of this wallet: none that was ever in use, on whatever run.   *)
NewKey(a) ==
    /\ open = SeedOf[a] /\ disk = open
    /\ a \notin keys \cup used
    /\ keys' = keys \cup {a}
    /\ UNCHANGED <<open, disk, stored, history>>

(* A use is counted and all keys of the wallet are on disk, or neither.    *)
Use(a) ==
    /\ open # 0 /\ a \in keys
    /\ usage' = [usage EXCEPT ![a] = @ + 1] /\ used' = used \cup {a}
    /\ disk' = open /\ stored' = keys
    /\ UNCHANGED <<open, keys>>

(* With its last use a key is gone, from memory and from disk.             *)
Release(a) ==
    /\ open # 0 /\ a \in keys /\ usage[a] > 0
    /\ usage' = [usage EXCEPT ![a] = @ - 1]
    /\ keys' = IF usage[a] = 1 THEN keys \ {a} ELSE keys
    /\ disk' = open /\ stored' = keys'
    /\ UNCHANGED <<open, used>>

(* A save begins: until it is over, the wallet on disk cannot be read.     *)
Tear ==
    /\ open \in {0, disk}
    /\ disk' = 0 /\ stored' = {}
    /\ UNCHANGED <<open, keys, history>>

Crash ==
    /\ open' = 0 /\ keys' = {}
    /\ UNCHANGED <<disk, stored, history>>

Next ==
    \/ \E s \in Seeds : Create(s)
    \/ \E a \in Addresses : NewKey(a) \/ Use(a) \/ Release(a)
    \/ Load \/ Tear \/ Crash

Spec == Init /\ [][Next]_vars
=============================================================================
