----------------------------- MODULE MCKernSynch -----------------------------
EXTENDS KernSynch, TLC

CONSTANTS t1, t2, w1

MCPri == [t \in Thread |-> IF t = t1 THEN 0 ELSE 1]
=============================================================================
