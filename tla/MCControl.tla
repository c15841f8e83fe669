------------------------------ MODULE MCControl ------------------------------
(***************************************************************************)
(* TLC instance of the alerts and of the end of the API process.  The two  *)
(* share no state; a behaviour moves one of them.                          *)
(***************************************************************************)
EXTENDS Alerting, Shutdown

VARIABLE part

\* No probe answered and one country is all there is; or two countries in balance
\* and twice as many nodes, which makes the drop between the two 50 %.
MCQualities == {[tested |-> 2, alive |-> 0, hq |-> 1, dominant |-> 1],
                [tested |-> 2, alive |-> 1, hq |-> 2, dominant |-> 1]}
MCHandled == {"consecutive-job-failures"}

Init ==
    /\ part \in {"alerts", "shutdown"}
    /\ AlertInit
    /\ ShutInit
    /\ part = "alerts" => loop = "ticker" /\ ~runOnStart

Next ==
    \/ part = "alerts" /\ AlertNext /\ UNCHANGED <<part, shutVars>>
    \/ part = "shutdown" /\ ShutNext /\ UNCHANGED <<part, alertVars>>

vars == <<part, alertVars, shutVars>>
Spec == Init /\ [][Next]_vars /\ ShutFairness
=============================================================================
