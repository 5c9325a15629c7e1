------------------------------ MODULE MCQuotas ------------------------------
(* A small instance of the limits of a key.                                *)
EXTENDS Quotas

CONSTANTS f1, f2, q1, q2

TwoFragments == {f1, f2}
TwoRequests  == {q1, q2}
=============================================================================
