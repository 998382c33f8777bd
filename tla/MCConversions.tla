---------------------------- MODULE MCConversions ----------------------------
(* EventParsing on the logs of a small channel, and Encoding on pairs of    *)
(* parameters and on pairs of states.                                      *)
EXTENDS EventParsing, Encoding, TLC

VARIABLE pair   \* one of the two inputs of Encoding that are compared

vars == <<ch, alloc, pair>>

MCFinalVersions == {MaxVersion}

(* Out of 12, with groups to the base 3: one group and three, two groups   *)
(* and two, two ways, two and three, and three and two.                    *)
MCSplits == {1, 3, 5, 7, 9}

(* Two addresses of the right length and a short one.                      *)
Addresses == {<<0, 1>>, <<1, 0>>, <<1>>}

Parts == {<<a, b>> : a, b \in Addresses} \cup {<<<<0, 1>>>>, <<<<0, 1>>, <<1, 0>>, <<0, 1>>>>}

Params == [nonce : -1 .. Power[NonceLen], parts : Parts,
           challengeDuration : {0, 1, Power[Uint64Len] - 1}, app : {NoApp, <<1, 1>>, <<1>>}]

(* Balances of none, one, two and three bytes; one too high, one negative. *)
States == [id : {<<0, 1>>, <<1, 0>>}, version : {0, 1, Base}, assets : {1}, locked : {0},
           balances : {<<a, b>> : a, b \in 0..MaxBalance}, final : BOOLEAN, marshals : {TRUE}]

Refused == [id : {<<0, 1>>}, version : {1}, assets : {0, 1, 2}, locked : {0, 1},
            balances : {<<1, MaxBalance + 1>>, <<-1, 1>>, <<1, 1>>}, final : {TRUE},
            marshals : BOOLEAN]

NoPair == <<>>

Init == EvInit /\ pair = NoPair

Log == pair = NoPair /\ EvNext /\ UNCHANGED pair

(* The operators of Encoding do not depend on the channel: one is enough.  *)
Encode ==
    /\ pair = NoPair /\ ch = EmptyCanister
    /\ alloc = CHOOSE a \in [Versions -> Allocations] : TRUE
    /\ pair' \in {<<"params", p>> : p \in Params} \cup {<<"state", s>> : s \in States \cup Refused}
    /\ UNCHANGED <<ch, alloc>>

Next == Log \/ Encode

Spec == Init /\ [][Next]_vars

(* Two channels have one identifier only if IdentifiesChannel lets them,   *)
(* for any two parameters (backend.go, CalcID; serialize.go, NewParams).   *)
ChannelsAreIdentified ==
    pair # NoPair /\ pair[1] = "params" =>
        \A q \in Params : IdentifiesChannel(pair[2], q)

(* The nonce makes the identifier unique, for any two parameters           *)
(* (types.go:43; backend.go, CalcID; serialize.go, MakeNonce).             *)
NoncesMakeIDsUnique ==
    pair # NoPair /\ pair[1] = "params" =>
        \A q \in Params : NonceMakesIDUnique(pair[2], q)

(* What is signed for one state verifies for another one only if           *)
(* VerifiesSigned says so, for any two states (backend.go, Sign, Verify).  *)
SignaturesVerify ==
    pair # NoPair /\ pair[1] = "state" =>
        \A t \in States \cup Refused : VerifiesSigned(pair[2], t)
=============================================================================
