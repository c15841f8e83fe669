---------------------------- MODULE TaskContract ----------------------------
(***************************************************************************)
(* What the durable task queue promises to whoever submits a task, with no *)
(* workers, leases, heartbeats or clocks: the life of every row of         *)
(* task_queue.  TaskQueue is shown to implement it.  Several rows may move *)
(* in one step, because one lease transaction sweeps every expired row.    *)
(***************************************************************************)
EXTENDS Naturals

CONSTANTS Tasks,        \* task identifiers
          MaxAttempts   \* QueuedTask.MaxAttempts

VARIABLES phase,   \* phase[t]: the status column, or "absent" before INSERT
          tries    \* tries[t]: the attempts column

cvars == <<phase, tries>>

Phases == {"absent", "queued", "running", "completed", "dead", "canceled"}
-----------------------------------------------------------------------------
Moves(t, from, to) == phase[t] \in from /\ phase'[t] = to

Submit(t) == Moves(t, {"absent"}, "queued") /\ tries'[t] = tries[t]

\* A start out of "running" is a lease that expired and was leased again.
Start(t) == /\ Moves(t, {"queued", "running"}, "running")
            /\ tries[t] < MaxAttempts
            /\ tries'[t] = tries[t] + 1

Retry(t) == /\ Moves(t, {"running"}, "queued")
            /\ tries[t] < MaxAttempts
            /\ tries'[t] = tries[t]

Complete(t) == Moves(t, {"running"}, "completed") /\ tries'[t] = tries[t]

\* Dead-lettering is only for a task that has used its whole budget.
Bury(t) == /\ Moves(t, {"running"}, "dead")
           /\ tries[t] = MaxAttempts
           /\ tries'[t] = tries[t]

Cancel(t) == Moves(t, {"queued", "running"}, "canceled") /\ tries'[t] = tries[t]

Stay(t) == phase'[t] = phase[t] /\ tries'[t] = tries[t]
-----------------------------------------------------------------------------
CInit == /\ phase = [t \in Tasks |-> "absent"]
         /\ tries = [t \in Tasks |-> 0]

CNext == /\ phase' \in [Tasks -> Phases]
         /\ tries' \in [Tasks -> 0..MaxAttempts]
         /\ \A t \in Tasks : \/ Submit(t) \/ Start(t) \/ Retry(t)
                             \/ Complete(t) \/ Bury(t) \/ Cancel(t)
                             \/ Stay(t)

CSpec == CInit /\ [][CNext]_cvars
=============================================================================
