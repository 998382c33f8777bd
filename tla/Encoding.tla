------------------------------ MODULE Encoding ------------------------------
(***************************************************************************)
(* The conversions of connector/serialize.go, channel/backend.go and       *)
(* channel/utils.go: which bytes a channel identifier is computed from,    *)
(* and which bytes of a state are signed and verified.                     *)
(*                                                                         *)
(* A byte is in 0 .. Base - 1 and the lengths are constants.  A conversion *)
(* that can fail has a predicate that says when, named ...Fails.           *)
(***************************************************************************)
EXTENDS Integers, Sequences, SequencesExt

CONSTANTS
    Base,            \* 2^8
    NonceLen,        \* in bytes
    OffIdentityLen,  \* in bytes
    Uint64Len,       \* 8
    MaxBalance,      \* the highest balance allowed
    NoApp            \* pchannel.NoApp

ASSUME EncodingAssumption ==
    /\ Base \in Nat \ {0, 1}
    /\ NonceLen \in Nat \ {0} /\ OffIdentityLen \in Nat \ {0}
    /\ Uint64Len \in Nat \ {0, 1} /\ MaxBalance \in Nat

(* Base^k.                                                                 *)
Power[k \in Nat] == IF k = 0 THEN 1 ELSE Base * Power[k - 1]

(* The number of bytes of a natural number without leading zeros.          *)
ByteLen(n) == CHOOSE k \in 0..n : n < Power[k] /\ (k > 0 => n >= Power[k - 1])

(* big.Int.Bytes: big-endian, nothing for 0.                               *)
Bytes(n) == [i \in 1..ByteLen(n) |-> (n \div Power[ByteLen(n) - i]) % Base]

BigToLittleEndianBytes(n) == Reverse(Bytes(n))

Uint64ToBytes(n) == [i \in 1..Uint64Len |-> (n \div Power[i - 1]) % Base]

BoolToBytes(b) == IF b THEN <<1>> ELSE <<0>>

(* copy into a zeroed array.                                               *)
Copy(len, s) == [i \in 1..len |-> IF i \in DOMAIN s THEN s[i] ELSE 0]

(* SHA-512, taken for injective also in its first 32 bytes.                *)
Sha512(bytes) == [sha512 |-> bytes]
-----------------------------------------------------------------------------
(* Parameters and the channel identifier.                                  *)

(* Mutant: one bit too many is let in.                                     *)
MakeNonceFails_TooLong(nonce) == nonce <= 0 \/ nonce > Power[NonceLen]

MakeNonceFails(nonce) == nonce <= 0 \/ nonce >= Power[NonceLen]

(* The bytes are copied to the beginning of the array.                     *)
MakeNonce(nonce) == Copy(NonceLen, Bytes(nonce))

MakeOffIdentFails(addr) == Len(addr) # OffIdentityLen
MakeOffIdent(addr) == Copy(OffIdentityLen, addr)

NewParamsFails(p) ==
    \/ MakeNonceFails(p.nonce)
    \/ \E i \in DOMAIN p.parts : MakeOffIdentFails(p.parts[i])
    \/ p.app # NoApp /\ MakeOffIdentFails(p.app)

NewParams(p) ==
    [Nonce             |-> MakeNonce(p.nonce),
     Participants      |-> [i \in DOMAIN p.parts |-> MakeOffIdent(p.parts[i])],
     ChallengeDuration |-> p.challengeDuration,
     App               |-> IF p.app = NoApp THEN Copy(OffIdentityLen, <<>>)
                                            ELSE MakeOffIdent(p.app)]

(* It panics on parameters that are refused and on a missing participant.  *)
CalcIDPanics(p) == NewParamsFails(p) \/ Len(p.parts) < 2

CalcID(p) ==
    LET icp == NewParams(p) IN
    Sha512(icp.Nonce \o icp.Participants[1] \o icp.Participants[2]
           \o Uint64ToBytes(icp.ChallengeDuration))
-----------------------------------------------------------------------------
(* States and their signatures.                                            *)

MakeBalanceFails(bal) == bal < 0 \/ bal > MaxBalance

MakeAllocFails(s) ==
    \/ s.assets # 1 \/ s.locked # 0
    \/ \E i \in DOMAIN s.balances : MakeBalanceFails(s.balances[i])

(* State.Valid of go-perun.                                                *)
Valid(s) == s.assets > 0 /\ \A i \in DOMAIN s.balances : s.balances[i] >= 0

StateForChainFails(s) == ~Valid(s) \/ MakeAllocFails(s) \/ ~s.marshals

(* Mutant: the version is written as the balances are.                     *)
stateBytes_ShortVersion(s) ==
    s.id \o BigToLittleEndianBytes(s.version)
         \o FlattenSeq([i \in DOMAIN s.balances |-> BigToLittleEndianBytes(s.balances[i])])
         \o BoolToBytes(s.final)

(* The balances are written without leading zeros and without a length;    *)
(* the application data is left out.                                       *)
stateBytes(s) ==
    s.id \o Uint64ToBytes(s.version)
         \o FlattenSeq([i \in DOMAIN s.balances |-> BigToLittleEndianBytes(s.balances[i])])
         \o BoolToBytes(s.final)

Sign(acc, s) == [by |-> acc, data |-> stateBytes(s)]

Verify(addr, s, sig) ==
    /\ ~StateForChainFails(s)
    /\ sig = [by |-> addr, data |-> stateBytes(s)]
-----------------------------------------------------------------------------
(* Two nonces share their bytes, up to the zeros they are filled up with.  *)
SameNonce(m, n) ==
    \E k \in 0..NonceLen - 1 : m = n * Power[k] \/ n = m * Power[k]

(* Parameters that CalcID does not tell apart.                             *)
SameEncoding(p, q) ==
    /\ SameNonce(p.nonce, q.nonce)
    /\ SubSeq(p.parts, 1, 2) = SubSeq(q.parts, 1, 2)
    /\ p.challengeDuration = q.challengeDuration

(* Two channels that differ in their first two participants, in their      *)
(* challenge durations, or in their nonces by more than zeros at the end,  *)
(* have two identifiers (backend.go, CalcID; serialize.go, MakeNonce).     *)
IdentifiesChannel(p, q) ==
    ~CalcIDPanics(p) /\ ~CalcIDPanics(q) /\ CalcID(p) = CalcID(q) => SameEncoding(p, q)

(* types.go:43 of the nonce: it "makes a channels ID unique by providing   *)
(* randomness to the params".  Two channels with two nonces have two       *)
(* identifiers (backend.go, CalcID; serialize.go, MakeNonce).              *)
NonceMakesIDUnique(p, q) ==
    ~CalcIDPanics(p) /\ ~CalcIDPanics(q) /\ p.nonce # q.nonce => CalcID(p) # CalcID(q)

(* Two balances, read as one number in which the second follows the first. *)
Joined(balances) == balances[1] + Power[ByteLen(balances[1])] * balances[2]

(* A signature on one state verifies for another one, of the same signer,  *)
(* exactly if they agree in channel, version, flag and the two balances    *)
(* read as one number: a field of fixed width cannot pass for a part of    *)
(* another, and two states of one channel whose balances have the same     *)
(* numbers of bytes are told apart (backend.go, Sign and Verify).          *)
VerifiesSigned(s, t) ==
    ~StateForChainFails(s) /\ ~StateForChainFails(t) =>
        (Verify("a", t, Sign("a", s)) <=>
            /\ s.id = t.id /\ s.version = t.version /\ s.final = t.final
            /\ Joined(s.balances) = Joined(t.balances))
=============================================================================
