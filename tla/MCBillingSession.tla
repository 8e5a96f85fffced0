--------------------------- MODULE MCBillingSession ---------------------------
(* Instances of BillingSession for model checking.                         *)
EXTENDS BillingSession

CONSTANTS r1, r2

One == {r1}
Two == {r1, r2}
Second == {r2}
Nobody == {}
=============================================================================
