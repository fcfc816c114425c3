----------------------------- MODULE MCTaskqueue -----------------------------
EXTENDS Taskqueue

CONSTANTS k1, k2, k3

MCPriority == [k \in Task |-> IF k = k2 THEN 1 ELSE 0]
MCLimit == [k \in Task |-> IF k = k2 THEN 2 ELSE 1]
=============================================================================
