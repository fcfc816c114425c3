------------------------------ MODULE MCCallout ------------------------------
EXTENDS Callout

CONSTANTS x1, x2, l1

MCLock == [x \in Calls |-> IF x = x1 THEN l1 ELSE NULL]
=============================================================================
