---------------------------- MODULE MCAdjudicator ----------------------------
(* Adjudicator on small instances: two participants, three versions, the   *)
(* last one final.                                                         *)
EXTENDS Adjudicator

MCFinalVersions == {MaxVersion}

Signed(V) == [version : V, signed : {TRUE}, encodable : {TRUE}]

(* A final state without all signatures, and one nonce out of range.       *)
Defective ==
    {[version |-> MaxVersion, signed |-> FALSE, encodable |-> TRUE],
     [version |-> 0, signed |-> TRUE, encodable |-> FALSE]}

AllVersions == Signed(Versions) \cup Defective
OnlySigned == Signed(Versions)
=============================================================================
