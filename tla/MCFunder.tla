------------------------------ MODULE MCFunder ------------------------------
(* Funder with two funders in one process, as in the tests.                *)
EXTENDS Funder

CONSTANTS p1, p2, q1

MCAmount == [p \in {p1, p2} |-> IF p = p1 THEN 1 ELSE 2]

OneProcess == [p \in {p1, p2} |-> q1]

(* p1 can pay for two transfers, p2 for one.                               *)
MCBalance == [p \in {p1, p2} |-> 6]
=============================================================================
