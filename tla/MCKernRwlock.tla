----------------------------- MODULE MCKernRwlock -----------------------------
EXTENDS KernRwlock

CONSTANTS t1, t2, t3, l1, c1

MCHash == [l \in Lock |-> c1]
MCPri  == [t \in Thread |-> IF t = t1 THEN 0 ELSE 1]
MCSymmetry == Permutations({t2, t3})
=============================================================================
