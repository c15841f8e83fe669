---------------------------- MODULE MCTaskQueue -----------------------------
(* Instances of TaskQueue for TLC.                                         *)
EXTENDS TaskQueue, TLC

CONSTANTS t1, t2

\* t1 was requested through the API, t2 by the scheduler (Service.Submit).
MCPriority == [t \in Tasks |-> IF t = t1 THEN 100 ELSE 10]

WorkerSymmetry == Permutations(Workers)
=============================================================================
