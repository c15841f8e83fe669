----------------------------- MODULE TaskQueue ------------------------------
(***************************************************************************)
(* The durable leased task queue: the task_queue table with the statements *)
(* of internal/db/tasks.go, the worker loops and heartbeats of             *)
(* internal/queue/queue.go.  What a runner does with its task is left to   *)
(* the runner (Service.RunQueuedTask): it returns, with or without error.  *)
(*                                                                         *)
(* Each SQL statement or transaction is one action; whatever the Go code   *)
(* does between two of them is a point where other actors interleave.      *)
(* Timestamps are kept relative to now and counted down by Tick (one tick  *)
(* is one second): lease = lease_until - now, delay = available_at - now.  *)
(* The Go code reads the clock just before a statement; the model reads it *)
(* at the statement.  A lease transaction is serialised with the others,   *)
(* as the single SQLite connection or the row locks of PostgreSQL do.      *)
(***************************************************************************)
EXTENDS Integers, FiniteSets

CONSTANTS Tasks,        \* task identifiers, unique (service.newID)
          Workers,      \* worker identities "<id>-<n>", one loop each
          NoTask, NoWorker,
          Priority,     \* Priority[t]: 100 when requested, 10 when scheduled
          MaxAttempts, MaxPending, Lease, RetryBase,
          SubmitSlots,  \* enqueue transactions that may be open at once:
                        \* 1 on SQLite (SetMaxOpenConns(1)), more on PostgreSQL
          Late          \* seconds by which a due heartbeat may be late

ASSUME QueueAssumption ==
    /\ IsFiniteSet(Tasks)
    /\ NoTask \notin Tasks /\ NoWorker \notin Workers
    /\ Priority \in [Tasks -> Int]
    /\ MaxAttempts \in Nat \ {0} /\ MaxPending \in Nat
    /\ Lease \in Nat \ {0} /\ RetryBase \in Nat
    /\ SubmitSlots \in Nat \ {0} /\ Late \in Nat

VARIABLES task,       \* the task_queue table
          submitting, \* tasks whose enqueue transaction counted and not yet inserted
          pc,         \* where the loop of each worker is
          job,        \* the task a worker runs (queue.run's task)
          attempt,    \* task.Attempts of the row LeaseTask returned to it
          seen,       \* task.Attempts as FailTask read it
          live,       \* the run context has not been canceled
          stopping,   \* Queue.Stop was called
          beat,       \* ticks until the heartbeat ticker fires
          missed      \* consecutive heartbeats that failed (saturating)

workerVars == <<pc, job, attempt, seen, live, stopping, beat, missed>>
vars == <<task, submitting, workerVars>>

Active   == {"queued", "running"}
Terminal == {"completed", "dead", "canceled"}
Row == [status : {"absent"} \cup Active \cup Terminal, attempts : 0..MaxAttempts,
        worker : Workers \cup {NoWorker}, lease : Int, delay : Int]

\* Control points of queue.loop and queue.run.
Finishing == {"complete", "fail", "requeue", "bury"}
Busy == {"run"} \cup Finishing
Control == {"poll", "down"} \cup Busy

\* queue.heartbeat: a third of the lease, at least one second.
BeatInterval == IF Lease \div 3 < 1 THEN 1 ELSE Lease \div 3
\* Consecutive failed heartbeats that precede the end of a lease.
Tolerance == (Lease - Late) \div BeatInterval
\* db.FailTask: the pause before attempt n + 1.
Backoff(n) == 2^(n - 1) * RetryBase

TypeOK == /\ task \in [Tasks -> Row]
          /\ submitting \in SUBSET Tasks
          /\ pc \in [Workers -> Control]
          /\ job \in [Workers -> Tasks \cup {NoTask}]
          /\ attempt \in [Workers -> 0..MaxAttempts]
          /\ seen \in [Workers -> 0..MaxAttempts]
          /\ live \in [Workers -> BOOLEAN] /\ stopping \in [Workers -> BOOLEAN]
          /\ beat \in [Workers -> Int] /\ missed \in [Workers -> Nat]

Init == /\ task = [t \in Tasks |->
                     [status |-> "absent", attempts |-> 0, worker |-> NoWorker,
                      lease |-> 0, delay |-> 0]]
        /\ submitting = {}
        /\ pc = [w \in Workers |-> "poll"]
        /\ job = [w \in Workers |-> NoTask]
        /\ attempt = [w \in Workers |-> 0] /\ seen = [w \in Workers |-> 0]
        /\ live = [w \in Workers |-> TRUE]
        /\ stopping = [w \in Workers |-> FALSE]
        /\ beat = [w \in Workers |-> 0] /\ missed = [w \in Workers |-> 0]
-----------------------------------------------------------------------------
(* Submitting and canceling.                                               *)

Pending == {t \in Tasks : task[t].status \in Active}

\* SET status=?, lease_until=NULL, worker_id=NULL
Release(row, to) == [row EXCEPT !.status = to, !.worker = NoWorker, !.lease = 0]

QueueFullLate == MaxPending > 0 /\ Cardinality(Pending) > MaxPending   \* mutant
QueueFull == MaxPending > 0 /\ Cardinality(Pending) >= MaxPending

\* EnqueueTask, the pending count; ErrQueueFull is the disabled case.
CountPending(t) ==
    /\ task[t].status = "absent" /\ t \notin submitting
    /\ Cardinality(submitting) < SubmitSlots
    /\ ~QueueFull
    /\ submitting' = submitting \cup {t}
    /\ UNCHANGED <<task, workerVars>>

\* EnqueueTask, the INSERT (id is the primary key) and its commit.
InsertTask(t) ==
    /\ t \in submitting /\ task[t].status = "absent"
    /\ submitting' = submitting \ {t}
    /\ task' = [task EXCEPT ![t].status = "queued"]
    /\ UNCHANGED workerVars

\* EnqueueTask, rolled back by a failing INSERT.
InsertError(t) ==
    /\ t \in submitting
    /\ submitting' = submitting \ {t}
    /\ UNCHANGED <<task, workerVars>>

CancelAnyTask(t) ==   \* mutant
    /\ task[t].status # "absent"
    /\ task' = [task EXCEPT ![t] = Release(@, "canceled")]
    /\ UNCHANGED <<submitting, workerVars>>
\* CancelTask; a row that is already finished matches nothing (sql.ErrNoRows).
\* A worker that runs the task learns of it from its next heartbeat.
CancelTask(t) ==
    /\ task[t].status \in Active
    /\ task' = [task EXCEPT ![t] = Release(@, "canceled")]
    /\ UNCHANGED <<submitting, workerVars>>
-----------------------------------------------------------------------------
(* Leasing.                                                                *)

Expired(t) == task[t].status = "running" /\ task[t].lease < 0

ExhaustedLate(row) == row.attempts > MaxAttempts   \* mutant
Exhausted(row) == row.attempts >= MaxAttempts

\* requeueExpiredTx
RequeueExpired(t) ==
    IF ~Expired(t) THEN task[t]
    ELSE [Release(task[t], IF Exhausted(task[t]) THEN "dead" ELSE "queued")
             EXCEPT !.delay = 0]

NoSweep == task   \* mutant
Sweep == [t \in Tasks |-> RequeueExpired(t)]

Leasable(rows) == {t \in Tasks : rows[t].status = "queued" /\ rows[t].delay <= 0}

\* The LeaseTask transaction for worker w, taking task t of the highest priority.
\* (created_at, read before the enqueue transaction opens, and id break the ties;
\* they follow neither the order of the counts nor that of the commits, so the
\* choice among equals is left open.)  The sweep of expired
\* rows commits only together with a lease: when nothing can be leased the
\* transaction rolls back, sweep included, and the table is unchanged.
LeaseRow(w, t) ==
    LET rows == Sweep IN
    /\ t \in Leasable(rows)
    /\ \A u \in Leasable(rows) : Priority[u] <= Priority[t]
    /\ task' = [rows EXCEPT ![t] = [rows[t] EXCEPT !.status = "running", !.worker = w,
                                                   !.attempts = @ + 1, !.lease = Lease]]

\* The row that LeaseTask returns to worker w.
ReceiveOldRow(w, t) == /\ job' = [job EXCEPT ![w] = t]   \* mutant
                       /\ attempt' = [attempt EXCEPT ![w] = task[t].attempts]
ReceiveRow(w, t) == /\ job' = [job EXCEPT ![w] = t]
                    /\ attempt' = [attempt EXCEPT ![w] = task'[t].attempts]

\* loop: a successful lease; run starts the heartbeat and the runner.
LeaseTask(w) ==
    /\ pc[w] = "poll"
    /\ \E t \in Tasks : LeaseRow(w, t) /\ ReceiveRow(w, t)
    /\ pc' = [pc EXCEPT ![w] = "run"]
    /\ beat' = [beat EXCEPT ![w] = BeatInterval]
    /\ UNCHANGED <<submitting, seen, live, stopping, missed>>

\* LeaseTask whose commit took effect but returned an error: the row is leased
\* and nobody runs it.
LeaseLost(w) ==
    /\ pc[w] = "poll"
    /\ \E t \in Tasks : LeaseRow(w, t)
    /\ UNCHANGED <<submitting, workerVars>>
-----------------------------------------------------------------------------
(* Heartbeats.                                                             *)

Holds(w, t) == task[t].status = "running" /\ task[t].worker = w

\* The heartbeat ticker of the current run has fired.  Once the run context is
\* canceled the select may still take the tick instead of ctx.Done().
TickPending(w) == pc[w] = "run" /\ beat[w] <= 0

\* RenewTaskLease matched the row.
RenewNothing(w) == /\ beat' = [beat EXCEPT ![w] = @ + BeatInterval]   \* mutant
                   /\ missed' = [missed EXCEPT ![w] = 0]
                   /\ UNCHANGED <<task, live>>
Renew(w) == /\ task' = [task EXCEPT ![job[w]] = [@ EXCEPT !.lease = Lease]]
            /\ beat' = [beat EXCEPT ![w] = @ + BeatInterval]
            /\ missed' = [missed EXCEPT ![w] = 0]
            /\ UNCHANGED live

\* RenewTaskLease matched nothing: the run is canceled and the heartbeat ends.
IgnoreLoss(w) == /\ beat' = [beat EXCEPT ![w] = @ + BeatInterval]   \* mutant
                 /\ UNCHANGED <<task, live, missed>>
CancelRun(w) == /\ live' = [live EXCEPT ![w] = FALSE]
                /\ beat' = [beat EXCEPT ![w] = BeatInterval]
                /\ UNCHANGED <<task, missed>>

Heartbeat(w) ==
    /\ TickPending(w)
    /\ \/ Holds(w, job[w]) /\ Renew(w)
       \/ ~Holds(w, job[w]) /\ CancelRun(w)
    /\ UNCHANGED <<submitting, pc, job, attempt, seen, stopping>>

\* RenewTaskLease returned an error: logged, and tried again at the next tick.
HeartbeatError(w) ==
    /\ TickPending(w)
    /\ beat' = [beat EXCEPT ![w] = @ + BeatInterval]
    /\ missed' = [missed EXCEPT ![w] = IF @ < Tolerance THEN @ + 1 ELSE @]
    /\ UNCHANGED <<task, submitting, pc, job, attempt, seen, live, stopping>>
-----------------------------------------------------------------------------
(* Finishing a run.                                                        *)

\* The runner returns, and the heartbeat is stopped and waited for.
RunnerReturns(w) ==
    /\ pc[w] = "run"
    /\ \E next \in {"complete", "fail"} : pc' = [pc EXCEPT ![w] = next]
    /\ beat' = [beat EXCEPT ![w] = 0]
    /\ missed' = [missed EXCEPT ![w] = 0]
    /\ UNCHANGED <<task, submitting, job, attempt, seen, live, stopping>>

\* The end of run: back to the poll, or out of the loop after Stop.
LeaveRun(w) ==
    /\ pc' = [pc EXCEPT ![w] = IF stopping[w] THEN "down" ELSE "poll"]
    /\ job' = [job EXCEPT ![w] = NoTask]
    /\ attempt' = [attempt EXCEPT ![w] = 0]
    /\ seen' = [seen EXCEPT ![w] = 0]
    /\ live' = [live EXCEPT ![w] = TRUE]
    /\ stopping' = [stopping EXCEPT ![w] = FALSE]
    /\ beat' = [beat EXCEPT ![w] = 0]
    /\ missed' = [missed EXCEPT ![w] = 0]

\* finishTask: one UPDATE guarded by status and worker_id.
FinishTask(w, status) ==
    /\ task' = IF Holds(w, job[w])
               THEN [task EXCEPT ![job[w]] = Release(@, status)]
               ELSE task
    /\ LeaveRun(w)
    /\ UNCHANGED submitting

CompleteTask(w) == pc[w] = "complete" /\ FinishTask(w, "completed")

\* FailTask, its read: not leased by this worker any more, out of attempts, or
\* to be retried.
FailTask(w) ==
    /\ pc[w] = "fail"
    /\ LET row == task[job[w]] IN
         IF ~Holds(w, job[w])
         THEN LeaveRun(w)
         ELSE /\ pc' = [pc EXCEPT ![w] = IF Exhausted(row) THEN "bury" ELSE "requeue"]
              /\ seen' = [seen EXCEPT ![w] = row.attempts]
              /\ UNCHANGED <<job, attempt, live, stopping, beat, missed>>
    /\ UNCHANGED <<task, submitting>>

\* FailTask, its write when attempts are left.
RequeueTask(w) ==
    /\ pc[w] = "requeue"
    /\ task' = IF Holds(w, job[w])
               THEN [task EXCEPT ![job[w]] =
                        [Release(@, "queued") EXCEPT !.delay = Backoff(seen[w])]]
               ELSE task
    /\ LeaveRun(w)
    /\ UNCHANGED submitting

\* FailTask, its write when the budget is used up.
BuryTask(w) == pc[w] = "bury" /\ FinishTask(w, "dead")

\* The database answered CompleteTask or FailTask with an error: it is logged
\* and the row stays as it is.
FinishError(w) ==
    /\ pc[w] \in Finishing
    /\ LeaveRun(w)
    /\ UNCHANGED <<task, submitting>>
-----------------------------------------------------------------------------
(* Processes and time.                                                     *)

\* Queue.Stop reaches a worker that runs a task.  (Stopping or killing an idle
\* worker touches no row and is a pause of its polling.)
Stop(w) ==
    /\ pc[w] \in Busy /\ ~stopping[w]
    /\ stopping' = [stopping EXCEPT ![w] = TRUE]
    /\ live' = [live EXCEPT ![w] = FALSE]
    /\ UNCHANGED <<task, submitting, pc, job, attempt, seen, beat, missed>>

\* The process dies in the middle of a run.
Crash(w) ==
    /\ pc[w] \in Busy
    /\ pc' = [pc EXCEPT ![w] = "down"]
    /\ job' = [job EXCEPT ![w] = NoTask]
    /\ attempt' = [attempt EXCEPT ![w] = 0]
    /\ seen' = [seen EXCEPT ![w] = 0]
    /\ live' = [live EXCEPT ![w] = TRUE]
    /\ stopping' = [stopping EXCEPT ![w] = FALSE]
    /\ beat' = [beat EXCEPT ![w] = 0]
    /\ missed' = [missed EXCEPT ![w] = 0]
    /\ UNCHANGED <<task, submitting>>

\* Start: the process comes back under the same identity.
Restart(w) ==
    /\ pc[w] = "down"
    /\ pc' = [pc EXCEPT ![w] = "poll"]
    /\ UNCHANGED <<task, submitting, job, attempt, seen, live, stopping, beat, missed>>

\* One second passes.  The heartbeat of a live run is attempted, successfully or
\* not, at most Late seconds after its tick.
Tick ==
    /\ \A w \in Workers : pc[w] = "run" /\ live[w] => beat[w] > -Late
    /\ task' = [t \in Tasks |->
                  [task[t] EXCEPT
                     !.lease = IF task[t].status = "running" /\ @ >= 0 THEN @ - 1 ELSE @,
                     !.delay = IF @ > 0 THEN @ - 1 ELSE @]]
    /\ beat' = [w \in Workers |-> IF pc[w] = "run" /\ live[w] THEN beat[w] - 1 ELSE beat[w]]
    /\ UNCHANGED <<submitting, pc, job, attempt, seen, live, stopping, missed>>
-----------------------------------------------------------------------------
TaskStep(t) == CountPending(t) \/ InsertTask(t) \/ InsertError(t) \/ CancelTask(t)

FinishStep(w) == \/ CompleteTask(w) \/ FailTask(w) \/ RequeueTask(w)
                 \/ BuryTask(w) \/ FinishError(w)

WorkerStep(w) == \/ LeaseTask(w) \/ LeaseLost(w)
                 \/ Heartbeat(w) \/ HeartbeatError(w)
                 \/ RunnerReturns(w) \/ FinishStep(w)
                 \/ Stop(w) \/ Crash(w) \/ Restart(w)

Next == \/ \E t \in Tasks : TaskStep(t)
        \/ \E w \in Workers : WorkerStep(w)
        \/ Tick

Spec == Init /\ [][Next]_vars

\* What the scheduling of the code guarantees.  Timers fire, the polls of an
\* idle worker go on (timer.Reset), a statement returns with or without an error,
\* a killed process is restarted by its supervisor.
Progress == /\ WF_vars(Tick)
            /\ \A t \in Tasks : WF_vars(InsertTask(t) \/ InsertError(t))
            /\ \A w \in Workers : /\ WF_vars(LeaseTask(w) \/ LeaseLost(w))
                                  /\ WF_vars(Heartbeat(w) \/ HeartbeatError(w))
                                  /\ WF_vars(FinishStep(w))
                                  /\ WF_vars(Restart(w))

\* Every run ends by itself: the phases of a job work under their own timeouts.
RunsEnd == \A w \in Workers : WF_vars(RunnerReturns(w))

\* A run ends once its context is canceled, and may go on for ever before; the
\* database does not reject every renewal for ever.
CanceledRunsEnd ==
    \A w \in Workers : /\ WF_vars(RunnerReturns(w) /\ ~live[w])
                       /\ SF_vars(Heartbeat(w))

FairSpec == Spec /\ Progress /\ RunsEnd
ObedientSpec == Spec /\ Progress /\ CanceledRunsEnd
-----------------------------------------------------------------------------
(* What the queue guarantees.                                              *)

\* A worker that holds the row of the task it runs holds it for the attempt it
\* was given: after an expired lease and a second lease, the guard "worker_id = ?
\* AND status = 'running'" of finishTask, FailTask and RenewTaskLease never lets
\* a worker finish or prolong a later attempt with the result of an earlier one.
Fencing ==
    \A w \in Workers : pc[w] \in Busy /\ Holds(w, job[w])
                          => task[job[w]].attempts = attempt[w]

\* FailTask decides on what it read, and writes later: when the write still
\* matches the row, the decision is the one the row asks for.
VerdictFresh ==
    \A w \in Workers : pc[w] \in {"requeue", "bury"} =>
        /\ seen[w] = attempt[w]
        /\ (pc[w] = "bury") = (seen[w] = MaxAttempts)

\* The attempts column is an exact budget: a queued task has an attempt left, a
\* running one is at one of them, only a task that used all of them is dead, and
\* exactly the running rows carry a worker.
AttemptBudget ==
    \A t \in Tasks : LET row == task[t] IN
        /\ row.status \in {"absent", "queued"} => row.attempts < MaxAttempts
        /\ row.status \in {"running", "completed"} => row.attempts > 0
        /\ row.status = "dead" => row.attempts = MaxAttempts
        /\ (row.status = "running") = (row.worker # NoWorker)

\* A live run loses its row to the sweep of LeaseTask only after Tolerance
\* consecutive renewals failed, so that as long as the database answers one
\* heartbeat in Tolerance no task is ever run by two workers at once.
NoEarlyTakeover ==
    \A w \in Workers :
        /\ pc[w] = "run" /\ live[w]
        /\ ~Holds(w, job[w]) /\ task[job[w]].status # "canceled"
        => missed[w] >= Tolerance

\* EnqueueTask keeps the number of queued and running tasks at MaxPending, up to
\* the transactions that counted concurrently (none on SQLite).
PendingBound ==
    MaxPending > 0 =>
        Cardinality(Pending) + Cardinality(submitting) <= MaxPending + SubmitSlots - 1

\* A task is only ever completed by a worker whose run of the current attempt
\* succeeded, never by one whose lease was taken over in the meantime.
CompletedByItsAttempt ==
    [][\A t \in Tasks : task[t].status # "completed" /\ task'[t].status = "completed" =>
          \E w \in Workers : /\ pc[w] = "complete" /\ job[w] = t
                             /\ attempt[w] = task[t].attempts]_vars

\* The queue implements its contract: the status and attempts columns move as
\* TaskContract allows, whatever workers, leases, crashes and clocks do.
Contract == INSTANCE TaskContract
              WITH phase <- [t \in Tasks |-> task[t].status],
                   tries <- [t \in Tasks |-> task[t].attempts]
ImplementsContract == Contract!CSpec

\* A running row whose last lease ran out: nobody will ever run it again.
Stranded(t) == Expired(t) /\ task[t].attempts >= MaxAttempts

\* If runs end by themselves, a submitted task is settled in the end, or stranded on
\* its last lease: no crash, lost answer or failed heartbeat leaves it queued or
\* retried for ever.
EventuallySettled ==
    RunsEnd => \A t \in Tasks : task[t].status = "queued" ~> (task[t].status \in Terminal \/ Stranded(t))

\* RUNBOOK.md: "租约过期：任务会自动回队列，达到最大尝试次数后进入死信。" (a task whose
\* lease expires goes back to the queue by itself, and to the dead letters after
\* its last attempt).  LeaseTask does sweep it, but rolls the sweep back when it
\* finds nothing to lease, so an exhausted task keeps "running" on an idle queue.
ExhaustedIsBuried ==
    \A t \in Tasks : Stranded(t) ~> task[t].status \in Terminal

\* Canceling a task, or taking it over, stops the run that is under way, even of
\* a runner that would never return by itself: the next answered heartbeat
\* cancels its context.
LostRunEnds ==
    \A w \in Workers : pc[w] = "run" /\ ~Holds(w, job[w]) ~> pc[w] # "run"
=============================================================================
