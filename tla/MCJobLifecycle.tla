--------------------------- MODULE MCJobLifecycle ---------------------------
(* Instances of JobLifecycle for TLC.                                      *)
EXTENDS JobLifecycle, TLC

CONSTANTS api, worker, x1

\* Two workers embedded in the API process, one in a worker process.
MCHome == [w \in Workers |-> IF w = x1 THEN worker ELSE api]
=============================================================================
