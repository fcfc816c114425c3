----------------------------- MODULE MCKernMutex -----------------------------
EXTENDS KernMutex

CONSTANTS t1, t2, t3, m1, m2, c1

MCHash == [m \in Lock |-> c1]
MCRank == [m \in Lock |-> IF m = m1 THEN 0 ELSE 1]
MCPri  == [t \in Thread |-> IF t = t1 THEN 0 ELSE IF t = t2 THEN 1 ELSE 2]

\* Every thread takes the mutex up to twice.
MCTwice == [t \in Thread |-> [m \in Lock |-> 2]]

\* The most important thread takes m1, the least important one m2, and the one
\* between them takes both.
MCChain ==
  [t \in Thread |-> [m \in Lock |->
     IF (t = t1 /\ m = m2) \/ (t = t3 /\ m = m1) THEN 0 ELSE 1]]
=============================================================================
