-------------------------- MODULE TaskQueueProofs ---------------------------
(***************************************************************************)
(* The safety of the task queue for any tasks, workers, limits and lease.  *)
(* None of the properties is inductive alone.  Together with TypeOK and    *)
(* the fact that a busy worker has a job they are: Fencing needs to know   *)
(* that a swept row has no worker, AttemptBudget needs the verdict of      *)
(* FailTask to be about the current row, and the verdict rests on Fencing. *)
(* That no healthy run is swept early is about time: a second invariant    *)
(* bounds the lease from below by the ticker and the renewals missed.      *)
(***************************************************************************)
EXTENDS TaskQueue, FiniteSetTheorems, TLAPS

HasJob == \A w \in Workers : pc[w] \in Busy => job[w] \in Tasks

IInv == TypeOK /\ HasJob /\ AttemptBudget /\ Fencing /\ VerdictFresh

USE DEF Active, Terminal, Finishing, Busy, Control
-----------------------------------------------------------------------------
\* Field by field, what releasing a row leaves of it.
LEMMA ReleaseEffect ==
    ASSUME NEW row \in Row, NEW to
    PROVE  /\ Release(row, to) = [status |-> to, attempts |-> row.attempts, worker |-> NoWorker,
                                  lease |-> 0, delay |-> row.delay]
           /\ \A n : [Release(row, to) EXCEPT !.delay = n] =
                        [status |-> to, attempts |-> row.attempts, worker |-> NoWorker,
                         lease |-> 0, delay |-> n]
<1>1. ASSUME NEW q, q = Release(row, to)
      PROVE  q = [status |-> to, attempts |-> row.attempts, worker |-> NoWorker,
                  lease |-> 0, delay |-> row.delay]
  BY <1>1, Zenon DEF Row, Release
<1>2. ASSUME NEW n, NEW q, q = [Release(row, to) EXCEPT !.delay = n]
      PROVE  q = [status |-> to, attempts |-> row.attempts, worker |-> NoWorker,
                  lease |-> 0, delay |-> n]
  BY <1>2, Zenon DEF Row, Release
<1> QED
  BY <1>1, <1>2, Zenon

\* What a lease transaction does to the table: every row is kept well typed,
\* the leased one is running for its worker with one attempt more, every other
\* row is as before or swept.
LEMMA LeaseRowEffect ==
    ASSUME IInv, NEW w \in Workers, NEW t \in Tasks, LeaseRow(w, t)
    PROVE  /\ task' \in [Tasks -> Row]
           /\ task'[t].status = "running" /\ task'[t].worker = w
           /\ task'[t].attempts = task[t].attempts + 1
           /\ task[t].attempts < MaxAttempts
           /\ task[t].status \in {"queued", "running"}
           /\ \A u \in Tasks \ {t} :
                 \/ task'[u] = task[u]
                 \/ /\ task[u].status = "running"
                    /\ task'[u].status = IF task[u].attempts >= MaxAttempts THEN "dead" ELSE "queued"
                    /\ task'[u].attempts = task[u].attempts
                    /\ task'[u].worker = NoWorker
<1> DEFINE rows == [u \in Tasks |-> RequeueExpired(u)]
<1>1. \A u \in Tasks :
         /\ RequeueExpired(u) \in Row
         /\ RequeueExpired(u).attempts = task[u].attempts
         /\ \/ RequeueExpired(u) = task[u]
            \/ /\ task[u].status = "running"
               /\ RequeueExpired(u).status = IF task[u].attempts >= MaxAttempts THEN "dead" ELSE "queued"
               /\ RequeueExpired(u).worker = NoWorker
  <2> TAKE u \in Tasks
  <2>1. task[u] \in Row
    BY Zenon DEF IInv, TypeOK
  <2>2. CASE ~Expired(u)
    BY <2>1, <2>2, Zenon DEF RequeueExpired, Row
  <2>3. CASE Expired(u)
    <3> DEFINE verdict == IF task[u].attempts >= MaxAttempts THEN "dead" ELSE "queued"
    <3>1. RequeueExpired(u) = [Release(task[u], verdict) EXCEPT !.delay = 0]
      BY <2>3, Zenon DEF RequeueExpired, Exhausted
    <3>2. verdict \in {"dead", "queued"}
      BY Zenon
    <3> HIDE DEF verdict
    <3>3. /\ RequeueExpired(u) \in Row
          /\ RequeueExpired(u).attempts = task[u].attempts
          /\ RequeueExpired(u).status = verdict
          /\ RequeueExpired(u).worker = NoWorker
      <4>1. RequeueExpired(u) = [status |-> verdict, attempts |-> task[u].attempts,
                                 worker |-> NoWorker, lease |-> 0, delay |-> 0]
        BY <2>1, <3>1, ReleaseEffect, Zenon
      <4> QED
        BY <2>1, <3>2, <4>1 DEF Row
    <3> QED
      BY <2>3, <3>3, Zenon DEF Expired, verdict
  <2> QED
    BY <2>2, <2>3, Zenon
<1>2. rows \in [Tasks -> Row]
  BY <1>1, Zenon
<1>3. /\ rows[t].status = "queued"
      /\ task' = [rows EXCEPT ![t] = [rows[t] EXCEPT !.status = "running", !.worker = w,
                                                     !.attempts = @ + 1, !.lease = Lease]]
  BY Zenon DEF LeaseRow, Leasable, Sweep
<1>4. task[t].attempts < MaxAttempts /\ task[t].status \in {"queued", "running"}
  BY <1>1, <1>3, QueueAssumption DEF IInv, TypeOK, Row, AttemptBudget
<1>5. /\ rows[t] \in Row /\ rows[t].attempts + 1 \in 0..MaxAttempts
      /\ rows[t].attempts = task[t].attempts
  BY <1>1, <1>4, QueueAssumption DEF IInv, TypeOK, Row
<1> HIDE DEF rows
<1>6. /\ task'[t] = [rows[t] EXCEPT !.status = "running", !.worker = w,
                                    !.attempts = @ + 1, !.lease = Lease]
      /\ \A u \in Tasks \ {t} : task'[u] = rows[u]
      /\ task' = [u \in Tasks |-> IF u = t THEN task'[t] ELSE rows[u]]
  BY <1>2, <1>3, Zenon
<1>7. /\ task'[t] \in Row
      /\ task'[t].status = "running" /\ task'[t].worker = w
      /\ task'[t].attempts = task[t].attempts + 1
  <2>1. task'[t] = [status |-> "running", attempts |-> task[t].attempts + 1, worker |-> w,
                    lease |-> Lease, delay |-> rows[t].delay]
    BY <1>5, <1>6, ZenonT(30) DEF Row
  <2> QED
    BY <1>5, <2>1, QueueAssumption DEF Row
<1>8. task' \in [Tasks -> Row]
  BY <1>2, <1>6, <1>7, Zenon
<1>9. \A u \in Tasks \ {t} : task'[u] = RequeueExpired(u)
  BY <1>6, Zenon DEF rows
<1> QED
  BY <1>1, <1>4, <1>7, <1>8, <1>9, ZenonT(30)

\* One row is rewritten and no attempt is started: the shape of every statement
\* other than a lease.
RowWritten(t, row) == row \in Row /\ task' = [task EXCEPT ![t] = row]

\* No row is handed to a worker, or changes its attempts while a worker holds it.
RowsKept == \A u \in Tasks, v \in Workers :
                task'[u].status = "running" /\ task'[u].worker = v =>
                    Holds(v, u) /\ task'[u].attempts = task[u].attempts

\* No run is started.
RunsKept == \A v \in Workers : pc'[v] \in Busy =>
                pc[v] \in Busy /\ job'[v] = job[v] /\ attempt'[v] = attempt[v]

\* Fencing speaks of running rows and of runs; a step that adds to neither keeps
\* it.
LEMMA FencingKept ==
    ASSUME HasJob, Fencing, RowsKept, RunsKept
    PROVE  HasJob' /\ Fencing'
BY DEF HasJob, Fencing, RowsKept, RunsKept, Holds

\* A write of one row that neither starts a run nor takes it from its worker.
LEMMA RowWrittenEffect ==
    ASSUME IInv, NEW t \in Tasks, NEW row, RowWritten(t, row),
           row.attempts = task[t].attempts,
           row.status = "running" => task[t].status = "running" /\ row.worker = task[t].worker,
           row.status # "running" => row.worker = NoWorker,
           row.status \in {"absent", "queued"} => row.attempts < MaxAttempts,
           row.status = "completed" => row.attempts > 0,
           row.status = "dead" => row.attempts = MaxAttempts
    PROVE  task' \in [Tasks -> Row] /\ AttemptBudget' /\ RowsKept
<1>1. task' \in [Tasks -> Row] /\ task'[t] = row /\ \A u \in Tasks \ {t} : task'[u] = task[u]
  BY Zenon DEF RowWritten, IInv, TypeOK
<1>2. AttemptBudget'
  BY <1>1, QueueAssumption DEF IInv, AttemptBudget, TypeOK, Row
<1>3. RowsKept
  BY <1>1, QueueAssumption, Zenon DEF IInv, RowsKept, Holds
<1> QED
  BY <1>1, <1>2, <1>3, Zenon

\* The end of a run changes the worker's own state only, and leaves it idle.
LEMMA LeaveRunEffect ==
    ASSUME IInv, NEW w \in Workers, LeaveRun(w)
    PROVE  /\ RunsKept /\ VerdictFresh'
           /\ task' \in [Tasks -> Row] /\ submitting' \in SUBSET Tasks => TypeOK'
<1>1. \A v \in Workers : pc'[v] = IF v = w THEN (IF stopping[w] THEN "down" ELSE "poll") ELSE pc[v]
  BY Zenon DEF LeaveRun, IInv, TypeOK
<1>2. \A v \in Workers \ {w} : job'[v] = job[v] /\ attempt'[v] = attempt[v] /\ seen'[v] = seen[v]
  BY Zenon DEF LeaveRun, IInv, TypeOK
<1>3. RunsKept
  BY <1>1, <1>2, Zenon DEF RunsKept
<1>4. VerdictFresh'
  BY <1>1, <1>2, Zenon DEF VerdictFresh, IInv
<1>5. task' \in [Tasks -> Row] /\ submitting' \in SUBSET Tasks => TypeOK'
  BY QueueAssumption DEF LeaveRun, IInv, TypeOK
<1> QED
  BY <1>3, <1>4, <1>5, Zenon

\* The writes that release a held or queued row: finishTask, the requeue of
\* FailTask, CancelTask.
Released(t, to, pause) == [status |-> to, attempts |-> task[t].attempts, worker |-> NoWorker,
                           lease |-> 0, delay |-> pause]

\* A row that its worker, or the sweep, lets go.
LEMMA RowReleased ==
    ASSUME IInv, NEW t \in Tasks, NEW to \in {"completed", "dead", "queued", "canceled"},
           NEW pause \in Int,
           to \in {"completed", "dead"} => task[t].status = "running",
           to = "dead" => task[t].attempts = MaxAttempts,
           to = "queued" => task[t].attempts < MaxAttempts,
           task' = [task EXCEPT ![t] = Released(t, to, pause)]
    PROVE  task' \in [Tasks -> Row] /\ AttemptBudget' /\ RowsKept
<1> DEFINE row == Released(t, to, pause)
<1>1. task[t] \in Row
  BY Zenon DEF IInv, TypeOK
<1>2. row \in Row
  BY <1>1 DEF Row, Released
<1>3. RowWritten(t, row)
  BY <1>2, Zenon DEF RowWritten
<1>4. /\ row.attempts = task[t].attempts
      /\ row.status \notin {"absent", "running"} /\ row.worker = NoWorker
      /\ row.status = "queued" => row.attempts < MaxAttempts
      /\ row.status = "completed" => row.attempts > 0
      /\ row.status = "dead" => row.attempts = MaxAttempts
  BY Zenon DEF IInv, AttemptBudget, Released
<1> HIDE DEF row
<1> QED
  BY <1>3, <1>4, RowWrittenEffect, Zenon

\* finishTask keeps the invariant when the status fits the attempt.
LEMMA FinishTaskKept ==
    ASSUME IInv, NEW w \in Workers, pc[w] \in Busy, NEW to \in {"completed", "dead"},
           to = "dead" => attempt[w] = MaxAttempts, FinishTask(w, to)
    PROVE  IInv'
<1>1. job[w] \in Tasks /\ task[job[w]] \in Row
  BY Zenon DEF IInv, HasJob, TypeOK
<1>2. task' \in [Tasks -> Row] /\ AttemptBudget' /\ RowsKept
  <2>1. CASE Holds(w, job[w])
    <3>1. Release(task[job[w]], to) = Released(job[w], to, task[job[w]].delay)
      BY <1>1, ReleaseEffect, Zenon DEF Released
    <3>2. task' = [task EXCEPT ![job[w]] = Released(job[w], to, task[job[w]].delay)]
      BY <2>1, <3>1, Zenon DEF FinishTask
    <3>3. task[job[w]].delay \in Int /\ task[job[w]].attempts = attempt[w]
      BY <1>1, <2>1, Zenon DEF Row, IInv, Fencing
    <3> QED
      BY <1>1, <2>1, <3>3, <3>2, RowReleased, ZenonT(30) DEF Holds
  <2>2. CASE ~Holds(w, job[w])
    BY <2>2, Zenon DEF FinishTask, IInv, TypeOK, AttemptBudget, RowsKept, Holds
  <2> QED
    BY <2>1, <2>2, Zenon
<1>3. LeaveRun(w) /\ submitting' \in SUBSET Tasks
  BY Zenon DEF FinishTask, IInv, TypeOK
<1> QED
  BY <1>2, <1>3, LeaveRunEffect, FencingKept, ZenonT(30) DEF IInv
-----------------------------------------------------------------------------
\* The invariant holds at the start.
LEMMA InitInv == Init => IInv
BY QueueAssumption DEF Init, IInv, TypeOK, Row, HasJob, AttemptBudget, Fencing, VerdictFresh

\* A step that leaves the table alone and starts no run.
LEMMA TableUnchanged ==
    ASSUME IInv, UNCHANGED task
    PROVE  task' \in [Tasks -> Row] /\ AttemptBudget' /\ RowsKept
BY Zenon DEF IInv, TypeOK, AttemptBudget, RowsKept, Holds

\* A step that leaves the workers alone.
LEMMA WorkersUnchanged ==
    ASSUME IInv, UNCHANGED workerVars
    PROVE  /\ RunsKept /\ VerdictFresh'
           /\ task' \in [Tasks -> Row] /\ submitting' \in SUBSET Tasks => TypeOK'
BY Zenon DEF IInv, TypeOK, workerVars, RunsKept, VerdictFresh

\* EnqueueTask and CancelTask.
LEMMA TaskStepInv ==
    ASSUME IInv, NEW t \in Tasks, TaskStep(t)
    PROVE  IInv'
<1>1. UNCHANGED workerVars /\ submitting' \in SUBSET Tasks
  BY Zenon DEF TaskStep, CountPending, InsertTask, InsertError, CancelTask, IInv, TypeOK
<1>2. task[t] \in Row
  BY Zenon DEF IInv, TypeOK
<1>3. task' \in [Tasks -> Row] /\ AttemptBudget' /\ RowsKept
  <2>1. CASE CountPending(t) \/ InsertError(t)
    BY <2>1, TableUnchanged, Zenon DEF CountPending, InsertError
  <2>2. CASE InsertTask(t)
    <3> DEFINE row == [task[t] EXCEPT !.status = "queued"]
    <3>1. RowWritten(t, row)
      BY <1>2, <2>2, Zenon DEF InsertTask, RowWritten, Row
    <3>2. /\ row.status = "queued" /\ row.attempts = task[t].attempts
          /\ row.worker = task[t].worker
      BY <1>2, Zenon DEF Row
    <3> QED
      BY <1>2, <2>2, <3>1, <3>2, RowWrittenEffect, ZenonT(30)
      DEF InsertTask, IInv, AttemptBudget
  <2>3. CASE CancelTask(t)
    <3>1. Release(task[t], "canceled") = Released(t, "canceled", task[t].delay)
      BY <1>2, ReleaseEffect, Zenon DEF Released
    <3>2. task' = [task EXCEPT ![t] = Released(t, "canceled", task[t].delay)]
      BY <2>3, <3>1, Zenon DEF CancelTask
    <3>3. task[t].delay \in Int
      BY <1>2, Zenon DEF Row
    <3> QED
      BY <3>2, <3>3, RowReleased, Zenon
  <2> QED
    BY <2>1, <2>2, <2>3, Zenon DEF TaskStep
<1> QED
  BY <1>1, <1>3, WorkersUnchanged, FencingKept, ZenonT(30) DEF IInv

\* Leases, delivered to their worker or not.
LEMMA LeaseInv ==
    ASSUME IInv, NEW w \in Workers, LeaseTask(w) \/ LeaseLost(w)
    PROVE  IInv'
<1>1. PICK t \in Tasks : /\ LeaseRow(w, t)
                         /\ \/ LeaseLost(w)
                            \/ /\ LeaseTask(w)
                               /\ job' = [job EXCEPT ![w] = t]
                               /\ attempt' = [attempt EXCEPT ![w] = task'[t].attempts]
  BY Zenon DEF LeaseTask, ReceiveRow, LeaseLost
<1>2. /\ task' \in [Tasks -> Row]
      /\ task'[t].status = "running" /\ task'[t].worker = w
      /\ task'[t].attempts = task[t].attempts + 1
      /\ task[t].attempts < MaxAttempts
      /\ \A u \in Tasks \ {t} :
            \/ task'[u] = task[u]
            \/ /\ task[u].status = "running"
               /\ task'[u].status = IF task[u].attempts >= MaxAttempts THEN "dead" ELSE "queued"
               /\ task'[u].attempts = task[u].attempts
               /\ task'[u].worker = NoWorker
  BY <1>1, LeaseRowEffect, Zenon
<1>3. task[t].attempts \in 0..MaxAttempts /\ task'[t].attempts \in 0..MaxAttempts
  BY <1>2, QueueAssumption, Zenon DEF IInv, TypeOK, Row
<1>4. AttemptBudget'
  <2>1. \A u \in Tasks : task[u].attempts \in 0..MaxAttempts
    BY Zenon DEF IInv, TypeOK, Row
  <2> QED
    BY <1>2, <1>3, <2>1, QueueAssumption, SMTT(30) DEF IInv, AttemptBudget
<1>5. pc[w] = "poll"
  BY <1>1, Zenon DEF LeaseTask, LeaseLost
<1>6. /\ \A v \in Workers \ {w} : /\ pc'[v] = pc[v] /\ job'[v] = job[v]
                                  /\ attempt'[v] = attempt[v] /\ seen'[v] = seen[v]
      /\ pc'[w] \in {"poll", "run"}
      /\ pc'[w] = "run" => job'[w] = t /\ attempt'[w] = task'[t].attempts
  BY <1>1, <1>5, Zenon DEF LeaseTask, LeaseLost, workerVars, IInv, TypeOK
<1>7. TypeOK'
  BY <1>1, <1>2, <1>3, QueueAssumption, SMTT(30)
  DEF LeaseTask, LeaseLost, workerVars, IInv, TypeOK, BeatInterval
<1>8. HasJob' /\ VerdictFresh'
  BY <1>6, Zenon DEF IInv, HasJob, VerdictFresh
<1>9. Fencing'
  BY <1>2, <1>6, QueueAssumption DEF IInv, Fencing, HasJob, Holds
<1> QED
  BY <1>4, <1>7, <1>8, <1>9, ZenonT(30) DEF IInv

\* Heartbeats, answered or not, and the passing of time: no run starts or ends,
\* and of a row only its deadlines move.
LEMMA HeartbeatInv ==
    ASSUME IInv, NEW w \in Workers, Heartbeat(w) \/ HeartbeatError(w)
    PROVE  IInv'
<1>1. RunsKept /\ VerdictFresh' /\ submitting' = submitting
  BY Zenon DEF Heartbeat, HeartbeatError, RunsKept, IInv, VerdictFresh
<1>2. task' \in [Tasks -> Row] /\ AttemptBudget' /\ RowsKept
  <2>1. CASE UNCHANGED task
    BY <2>1, TableUnchanged, Zenon
  <2>2. CASE Heartbeat(w) /\ Holds(w, job[w])
    <3> DEFINE t == job[w]
               row == [task[t] EXCEPT !.lease = Lease]
    <3>1. t \in Tasks /\ task[t] \in Row
      BY <2>2, Zenon DEF Heartbeat, TickPending, IInv, HasJob, TypeOK
    <3>2. RowWritten(t, row)
      BY <2>2, <3>1, QueueAssumption DEF Heartbeat, Renew, RowWritten, Row
    <3>3. /\ row.status = task[t].status /\ row.attempts = task[t].attempts
          /\ row.worker = task[t].worker
      BY <3>1, Zenon DEF Row
    <3> HIDE DEF row, t
    <3>4. task[t].status = "running"
      BY <2>2, Zenon DEF Holds, t
    <3> QED
      BY <3>1, <3>2, <3>3, <3>4, RowWrittenEffect, ZenonT(30)
  <2> QED
    BY <2>1, <2>2, Zenon DEF Heartbeat, CancelRun, HeartbeatError
<1>3. TypeOK'
  <2>1. BeatInterval \in Int
    BY QueueAssumption DEF BeatInterval
  <2>2. beat' \in [Workers -> Int]
    BY <2>1 DEF Heartbeat, Renew, CancelRun, HeartbeatError, IInv, TypeOK
  <2>3. missed' \in [Workers -> Nat]
    <3>1. /\ missed \in [Workers -> Nat]
          /\ \/ missed' = missed
             \/ missed' = [missed EXCEPT ![w] = 0]
             \/ missed' = [missed EXCEPT ![w] = missed[w] + 1]
      BY Zenon DEF Heartbeat, Renew, CancelRun, HeartbeatError, IInv, TypeOK
    <3> QED
      BY <3>1
  <2>4. live' \in [Workers -> BOOLEAN]
    BY Zenon DEF Heartbeat, Renew, CancelRun, HeartbeatError, IInv, TypeOK
  <2> QED
    BY <1>1, <1>2, <2>2, <2>3, <2>4, ZenonT(30) DEF Heartbeat, Renew, CancelRun, HeartbeatError, IInv, TypeOK
<1> QED
  BY <1>1, <1>2, <1>3, FencingKept, ZenonT(30) DEF IInv

\* The runner returns, or its process is stopped, killed or started again.
LEMMA RunInv ==
    ASSUME IInv, NEW w \in Workers, RunnerReturns(w) \/ Stop(w) \/ Crash(w) \/ Restart(w)
    PROVE  IInv'
<1>1. task' \in [Tasks -> Row] /\ AttemptBudget' /\ RowsKept
  BY TableUnchanged, Zenon DEF RunnerReturns, Stop, Crash, Restart
<1>2. /\ \A v \in Workers \ {w} : /\ pc'[v] = pc[v] /\ job'[v] = job[v]
                                  /\ attempt'[v] = attempt[v] /\ seen'[v] = seen[v]
      /\ \/ pc'[w] \in {"poll", "down"}
         \/ /\ pc[w] \in Busy /\ job'[w] = job[w]
            /\ attempt'[w] = attempt[w] /\ seen'[w] = seen[w]
            /\ pc'[w] = pc[w] \/ pc'[w] \in {"complete", "fail"}
  BY Zenon DEF RunnerReturns, Stop, Crash, Restart, IInv, TypeOK
<1>3. RunsKept /\ VerdictFresh'
  BY <1>2 DEF RunsKept, IInv, VerdictFresh
<1>4. TypeOK'
  <2>1. CASE RunnerReturns(w)
    BY <2>1 DEF RunnerReturns, IInv, TypeOK
  <2>2. CASE Stop(w)
    BY <2>2, Zenon DEF Stop, IInv, TypeOK
  <2>3. CASE Crash(w)
    BY <2>3, QueueAssumption DEF Crash, IInv, TypeOK
  <2>4. CASE Restart(w)
    BY <2>4, Zenon DEF Restart, IInv, TypeOK
  <2> QED
    BY <2>1, <2>2, <2>3, <2>4, ZenonT(30)
<1> QED
  BY <1>1, <1>3, <1>4, FencingKept, ZenonT(30) DEF IInv

\* CompleteTask and FailTask.
LEMMA FinishInv ==
    ASSUME IInv, NEW w \in Workers, FinishStep(w)
    PROVE  IInv'
<1>1. CASE CompleteTask(w)
  BY <1>1, FinishTaskKept, Zenon DEF CompleteTask
<1>2. CASE BuryTask(w)
  <2>1. attempt[w] = MaxAttempts
    BY <1>2, Zenon DEF BuryTask, IInv, VerdictFresh
  <2> QED
    BY <1>2, <2>1, FinishTaskKept, Zenon DEF BuryTask
<1>3. CASE FinishError(w) \/ (FailTask(w) /\ LeaveRun(w))
  BY <1>3, TableUnchanged, LeaveRunEffect, FencingKept, ZenonT(30)
  DEF FinishError, FailTask, IInv, TypeOK
<1>4. CASE FailTask(w) /\ Holds(w, job[w])
  <2>1. job[w] \in Tasks /\ task[job[w]] \in Row /\ task[job[w]].attempts = attempt[w]
    BY <1>4, Zenon DEF FailTask, IInv, HasJob, TypeOK, Fencing
  <2>2. task[job[w]].attempts \in 0..MaxAttempts
    BY <2>1, Zenon DEF Row
  <2>3. /\ pc' = [pc EXCEPT ![w] = IF attempt[w] >= MaxAttempts THEN "bury" ELSE "requeue"]
        /\ seen' = [seen EXCEPT ![w] = attempt[w]]
        /\ UNCHANGED <<task, submitting, job, attempt, live, stopping, beat, missed>>
        /\ pc[w] = "fail"
    BY <1>4, <2>1, Zenon DEF FailTask, Exhausted
  <2>4. TypeOK'
    BY <2>3, Zenon DEF IInv, TypeOK
  <2>5. RunsKept
    BY <2>3, Zenon DEF RunsKept, IInv, TypeOK
  <2>6. VerdictFresh'
    BY <2>1, <2>2, <2>3, QueueAssumption, SMTT(30) DEF IInv, TypeOK, VerdictFresh
  <2> QED
    BY <2>3, <2>4, <2>5, <2>6, TableUnchanged, FencingKept, ZenonT(30) DEF IInv
<1>5. CASE RequeueTask(w)
  <2>1. task' \in [Tasks -> Row] /\ AttemptBudget' /\ RowsKept
    <3>1. job[w] \in Tasks /\ task[job[w]] \in Row
      BY <1>5, Zenon DEF RequeueTask, IInv, HasJob, TypeOK
    <3>2. CASE Holds(w, job[w])
      <4>1. task[job[w]].attempts = attempt[w] /\ attempt[w] < MaxAttempts /\ seen[w] \in Nat
        BY <1>5, <3>2, QueueAssumption DEF RequeueTask, IInv, Fencing, VerdictFresh, TypeOK
      <4>2. Backoff(seen[w]) \in Int
        BY <4>1, QueueAssumption DEF Backoff
      <4>3. [Release(task[job[w]], "queued") EXCEPT !.delay = Backoff(seen[w])]
               = Released(job[w], "queued", Backoff(seen[w]))
        BY <3>1, ReleaseEffect, Zenon DEF Released
      <4>4. task' = [task EXCEPT ![job[w]] = Released(job[w], "queued", Backoff(seen[w]))]
        BY <1>5, <3>2, <4>3, Zenon DEF RequeueTask
      <4> QED
        BY <3>1, <4>1, <4>2, <4>4, RowReleased, ZenonT(30)
    <3>3. CASE ~Holds(w, job[w])
      BY <1>5, <3>3, TableUnchanged, Zenon DEF RequeueTask
    <3> QED
      BY <3>2, <3>3, Zenon
  <2>2. LeaveRun(w) /\ submitting' \in SUBSET Tasks
    BY <1>5, Zenon DEF RequeueTask, IInv, TypeOK
  <2> QED
    BY <2>1, <2>2, LeaveRunEffect, FencingKept, ZenonT(30) DEF IInv
<1> QED
  BY <1>1, <1>2, <1>3, <1>4, <1>5, ZenonT(30) DEF FinishStep, FailTask

\* A second passes: of a row only its deadlines move.
LEMMA TickRow ==
    ASSUME IInv, Tick, NEW t \in Tasks
    PROVE  /\ task'[t] \in Row /\ task'[t].status = task[t].status
           /\ task'[t].attempts = task[t].attempts /\ task'[t].worker = task[t].worker
<1>1. task[t] \in Row
  BY Zenon DEF IInv, TypeOK
<1>2. PICK le \in Int, de \in Int : task'[t] = [task[t] EXCEPT !.lease = le, !.delay = de]
  <2> DEFINE le == IF task[t].status = "running" /\ task[t].lease >= 0
                   THEN task[t].lease - 1 ELSE task[t].lease
             de == IF task[t].delay > 0 THEN task[t].delay - 1 ELSE task[t].delay
  <2>1. task'[t] = [task[t] EXCEPT !.lease = le, !.delay = de]
    BY Zenon DEF Tick
  <2>2. le \in Int /\ de \in Int
    BY <1>1 DEF Row
  <2> QED
    BY <2>1, <2>2, Zenon
<1> QED
  BY <1>1, <1>2, Zenon DEF Row

\* A second passes.
LEMMA TickInv ==
    ASSUME IInv, Tick
    PROVE  IInv'
<1>1. /\ RunsKept /\ VerdictFresh' /\ submitting' = submitting
      /\ UNCHANGED <<pc, job, attempt, seen, live, stopping, missed>>
  BY Zenon DEF Tick, RunsKept, IInv, VerdictFresh
<1>2. \A t \in Tasks : /\ task'[t] \in Row /\ task'[t].status = task[t].status
                       /\ task'[t].attempts = task[t].attempts /\ task'[t].worker = task[t].worker
  BY TickRow, Zenon
<1>3. task' \in [Tasks -> Row]
  BY <1>2, Zenon DEF Tick
<1>4. AttemptBudget' /\ RowsKept
  BY <1>2, Zenon DEF IInv, AttemptBudget, RowsKept, Holds
<1>5. beat' \in [Workers -> Int]
  <2>1. beat' = [w \in Workers |-> IF pc[w] = "run" /\ live[w] THEN beat[w] - 1 ELSE beat[w]]
    BY Zenon DEF Tick
  <2>2. \A w \in Workers : beat[w] \in Int /\ beat[w] - 1 \in Int
    BY DEF IInv, TypeOK
  <2> QED
    BY <2>1, <2>2, Zenon
<1> QED
  BY <1>1, <1>3, <1>4, <1>5, FencingKept, ZenonT(30) DEF IInv, TypeOK

\* The invariant is inductive.
LEMMA NextInv == IInv /\ [Next]_vars => IInv'
<1> SUFFICES ASSUME IInv, [Next]_vars PROVE IInv'
  BY Zenon
<1>1. ASSUME NEW t \in Tasks, TaskStep(t) PROVE IInv'
  BY <1>1, TaskStepInv, Zenon
<1>2. ASSUME NEW w \in Workers, WorkerStep(w) PROVE IInv'
  BY <1>2, LeaseInv, HeartbeatInv, RunInv, FinishInv, ZenonT(30) DEF WorkerStep
<1>3. CASE Tick
  BY <1>3, TickInv, Zenon
<1>4. CASE UNCHANGED vars
  BY <1>4, TableUnchanged, WorkersUnchanged, FencingKept, ZenonT(30) DEF vars, IInv, TypeOK
<1> QED
  BY <1>1, <1>2, <1>3, <1>4, ZenonT(30) DEF Next

\* In every behaviour of the queue the invariant holds.
THEOREM Invariance == Spec => []IInv
BY InitInv, NextInv, PTL DEF Spec

\* The table and the workers stay well typed.
THEOREM TypeCorrect == Spec => []TypeOK
BY Invariance, PTL DEF IInv

\* No worker ever finishes or prolongs an attempt that is not its own, for any
\* number of workers and tasks and any pattern of crashes, expired leases and
\* database errors.
THEOREM FencingHolds == Spec => []Fencing
BY Invariance, PTL DEF IInv

\* Attempts are budgeted exactly: nothing is retried beyond max_attempts and
\* nothing is dead-lettered before.
THEOREM BudgetHolds == Spec => []AttemptBudget
BY Invariance, PTL DEF IInv

\* FailTask never acts on a stale read.
THEOREM VerdictHolds == Spec => []VerdictFresh
BY Invariance, PTL DEF IInv

\* Only the worker that runs the current attempt completes a task.
THEOREM CompletionIsCurrent == Spec => CompletedByItsAttempt
<1> DEFINE Current == \A t \in Tasks :
               task[t].status # "completed" /\ task'[t].status = "completed" =>
                  \E w \in Workers : /\ pc[w] = "complete" /\ job[w] = t
                                     /\ attempt[w] = task[t].attempts
<1>1. ASSUME IInv, [Next]_vars PROVE Current
  <2> SUFFICES ASSUME NEW t \in Tasks,
                      task[t].status # "completed", task'[t].status = "completed"
               PROVE  \E w \in Workers : /\ pc[w] = "complete" /\ job[w] = t
                                         /\ attempt[w] = task[t].attempts
    BY Zenon
  <2>1. ASSUME NEW u \in Tasks, TaskStep(u) PROVE FALSE
    BY <1>1, <2>1, ZenonT(30) DEF TaskStep, CountPending, InsertTask, InsertError, CancelTask,
                      IInv, TypeOK, Row, Release
  <2>2. ASSUME NEW w \in Workers, WorkerStep(w)
        PROVE  pc[w] = "complete" /\ job[w] = t /\ attempt[w] = task[t].attempts
    <3>1. ASSUME LeaseTask(w) \/ LeaseLost(w) PROVE FALSE
      <4>1. PICK u \in Tasks : LeaseRow(w, u)
        BY <3>1, Zenon DEF LeaseTask, LeaseLost
      <4> QED
        BY <1>1, <4>1, LeaseRowEffect, ZenonT(30)
    <3>2. task' # task
      BY Zenon
    <3>3. CASE Heartbeat(w)
      BY <1>1, <3>2, <3>3, SMTT(30) DEF Heartbeat, Renew, CancelRun, TickPending, IInv, HasJob, TypeOK, Row
    <3>4. CASE CompleteTask(w)
      <4>1. /\ pc[w] = "complete" /\ Holds(w, job[w]) /\ job[w] \in Tasks
            /\ task' = [task EXCEPT ![job[w]] = Release(task[job[w]], "completed")]
        BY <1>1, <3>2, <3>4, ZenonT(30) DEF CompleteTask, FinishTask, IInv, HasJob
      <4>2. t = job[w]
        BY <1>1, <4>1, Zenon DEF IInv, TypeOK
      <4> QED
        BY <1>1, <4>1, <4>2, ZenonT(30) DEF IInv, Fencing
    <3>5. CASE BuryTask(w) \/ RequeueTask(w)
      <4>1. job[w] \in Tasks /\ task[job[w]] \in Row
        BY <1>1, <3>5, Zenon DEF BuryTask, RequeueTask, IInv, HasJob, TypeOK
      <4>2. /\ Release(task[job[w]], "dead").status = "dead"
            /\ [Release(task[job[w]], "queued") EXCEPT !.delay = Backoff(seen[w])].status = "queued"
        BY <4>1, ReleaseEffect
      <4>3. \/ task' = [task EXCEPT ![job[w]] = Release(task[job[w]], "dead")]
            \/ task' = [task EXCEPT ![job[w]] = [Release(task[job[w]], "queued")
                                                   EXCEPT !.delay = Backoff(seen[w])]]
        BY <3>2, <3>5, Zenon DEF BuryTask, RequeueTask, FinishTask
      <4> QED
        BY <1>1, <4>1, <4>2, <4>3, ZenonT(30) DEF IInv, TypeOK
    <3> QED
      BY <2>2, <3>1, <3>2, <3>3, <3>4, <3>5, ZenonT(30)
      DEF WorkerStep, FinishStep, HeartbeatError, RunnerReturns, FailTask, FinishError,
          Stop, Crash, Restart
  <2>3. ~Tick
    BY <1>1, TickRow, Zenon
  <2>4. ~UNCHANGED vars
    BY Zenon DEF vars
  <2> QED
    BY <1>1, <2>1, <2>2, <2>3, <2>4, ZenonT(30) DEF Next
<1>2. IInv /\ [Next]_vars => [Current]_vars
  BY <1>1, Zenon
<1> QED
  BY <1>2, Invariance, PTL DEF Spec, CompletedByItsAttempt
-----------------------------------------------------------------------------
(* The refinement of the contract.                                         *)

\* What a step other than its insertion may do to one row.
RowMove(t) ==
    LET old == task[t]
        new == task'[t]
    IN  \/ new.status = old.status /\ new.attempts = old.attempts
        \/ /\ new.attempts = old.attempts
           /\ \/ old.status \in Active /\ new.status = "canceled"
              \/ old.status = "running" /\ new.status = "completed"
              \/ old.status = "running" /\ new.status = "queued" /\ old.attempts < MaxAttempts
              \/ old.status = "running" /\ new.status = "dead" /\ old.attempts = MaxAttempts
        \/ /\ old.status \in Active /\ new.status = "running"
           /\ old.attempts < MaxAttempts /\ new.attempts = old.attempts + 1

\* Rewriting the row of a running task to st is a move when st fits its attempt.
LEMMA ReleaseMoves ==
    ASSUME IInv, NEW w \in Workers, pc[w] \in Busy, NEW st \in {"completed", "dead", "queued"},
           st = "dead" => attempt[w] = MaxAttempts,
           st = "queued" => attempt[w] < MaxAttempts,
           NEW row, row.status = st, row.attempts = task[job[w]].attempts,
           \/ UNCHANGED task
           \/ Holds(w, job[w]) /\ task' = [task EXCEPT ![job[w]] = row]
    PROVE  \A t \in Tasks : RowMove(t)
BY Zenon DEF IInv, TypeOK, HasJob, Fencing, Holds, RowMove

\* Every step inserts a row or moves the rows as the contract allows.
LEMMA RowsMove ==
    ASSUME IInv, [Next]_vars
    PROVE  \A t \in Tasks : InsertTask(t) \/ RowMove(t)
<1>1. ASSUME UNCHANGED task PROVE \A t \in Tasks : RowMove(t)
  BY <1>1, Zenon DEF RowMove
<1>2. ASSUME NEW u \in Tasks, TaskStep(u) PROVE \A t \in Tasks : InsertTask(t) \/ RowMove(t)
  <2>1. task[u] \in Row
    BY Zenon DEF IInv, TypeOK
  <2>2. CASE InsertTask(u)
    BY <2>1, <2>2, Zenon DEF InsertTask, IInv, TypeOK, Row, RowMove
  <2>3. CASE CancelTask(u)
    <3>1. /\ Release(task[u], "canceled").status = "canceled"
          /\ Release(task[u], "canceled").attempts = task[u].attempts
      BY <2>1, ReleaseEffect, SMTT(30)
    <3> QED
      BY <2>3, <3>1, Zenon DEF CancelTask, IInv, TypeOK, RowMove
  <2> QED
    BY <1>1, <1>2, <2>2, <2>3, ZenonT(30) DEF TaskStep, CountPending, InsertError
<1>3. ASSUME NEW w \in Workers, WorkerStep(w) PROVE \A t \in Tasks : RowMove(t)
  <2>1. CASE LeaseTask(w) \/ LeaseLost(w)
    <3>1. PICK u \in Tasks : LeaseRow(w, u)
      BY <2>1, Zenon DEF LeaseTask, LeaseLost
    <3>2. \A t \in Tasks : task[t].attempts \in 0..MaxAttempts
      BY Zenon DEF IInv, TypeOK, Row
    <3> QED
      BY <3>1, <3>2, LeaseRowEffect, QueueAssumption, SMTT(30) DEF RowMove
  <2>2. CASE Heartbeat(w)
    <3>1. job[w] \in Tasks /\ task[job[w]] \in Row
      BY <2>2, Zenon DEF Heartbeat, TickPending, IInv, HasJob, TypeOK
    <3> QED
      BY <2>2, <3>1 DEF Heartbeat, Renew, CancelRun, IInv, TypeOK, Row, RowMove
  <2>3. CASE CompleteTask(w) \/ BuryTask(w) \/ RequeueTask(w)
    <3>1. task[job[w]] \in Row
      BY <2>3, Zenon DEF CompleteTask, BuryTask, RequeueTask, IInv, HasJob, TypeOK
    <3>2. CASE CompleteTask(w)
      <4> DEFINE row == Release(task[job[w]], "completed")
      <4>1. row.status = "completed" /\ row.attempts = task[job[w]].attempts
        BY <3>1, ReleaseEffect
      <4> QED
        BY <3>2, <4>1, ReleaseMoves, Zenon DEF CompleteTask, FinishTask
    <3>3. CASE BuryTask(w)
      <4> DEFINE row == Release(task[job[w]], "dead")
      <4>1. row.status = "dead" /\ row.attempts = task[job[w]].attempts
        BY <3>1, ReleaseEffect
      <4>2. attempt[w] = MaxAttempts
        BY <3>3, Zenon DEF BuryTask, IInv, VerdictFresh
      <4> QED
        BY <3>3, <4>1, <4>2, ReleaseMoves, ZenonT(30) DEF BuryTask, FinishTask
    <3>4. CASE RequeueTask(w)
      <4> DEFINE row == [Release(task[job[w]], "queued") EXCEPT !.delay = Backoff(seen[w])]
      <4>1. row.status = "queued" /\ row.attempts = task[job[w]].attempts
        BY <3>1, ReleaseEffect
      <4>2. attempt[w] < MaxAttempts
        BY <3>4, QueueAssumption DEF RequeueTask, IInv, VerdictFresh, TypeOK
      <4> QED
        BY <3>4, <4>1, <4>2, ReleaseMoves, ZenonT(30) DEF RequeueTask
    <3> QED
      BY <2>3, <3>2, <3>3, <3>4, ZenonT(30)
  <2> QED
    BY <1>1, <1>3, <2>1, <2>2, <2>3, ZenonT(30)
    DEF WorkerStep, FinishStep, HeartbeatError, RunnerReturns, FailTask, FinishError,
        Stop, Crash, Restart
<1>4. ASSUME Tick PROVE \A t \in Tasks : RowMove(t)
  BY <1>4, TickRow, Zenon DEF RowMove
<1> QED
  BY <1>1, <1>2, <1>3, <1>4, ZenonT(30) DEF Next, vars

\* The queue implements TaskContract: nothing any worker, crash, expired lease or
\* database error does moves a row outside the life cycle the contract states.
THEOREM Refinement == Spec => ImplementsContract
<1>1. Init => Contract!CInit
  BY SMTT(30) DEF Init, Contract!CInit
<1>2. IInv /\ IInv' /\ [Next]_vars => [Contract!CNext]_(Contract!cvars)
  <2> SUFFICES ASSUME IInv, IInv', [Next]_vars PROVE Contract!CNext
    BY Zenon
  <2>1. task' \in [Tasks -> Row]
    BY Zenon DEF IInv, TypeOK
  <2>2. /\ [t \in Tasks |-> task'[t].status] \in [Tasks -> Contract!Phases]
        /\ [t \in Tasks |-> task'[t].attempts] \in [Tasks -> 0..MaxAttempts]
    BY <2>1, Zenon DEF Row, Contract!Phases
  <2>3. \A t \in Tasks : InsertTask(t) \/ RowMove(t)
    BY RowsMove, Zenon
  <2>4. \A t \in Tasks : InsertTask(t) =>
            /\ task[t].status = "absent" /\ task'[t].status = "queued"
            /\ task'[t].attempts = task[t].attempts
    BY DEF InsertTask, IInv, TypeOK, Row
  <2> QED
    BY <2>2, <2>3, <2>4, SMTT(30)
    DEF RowMove, Contract!CNext, Contract!Moves, Contract!Submit, Contract!Start,
        Contract!Retry, Contract!Complete, Contract!Bury, Contract!Cancel, Contract!Stay
<1> QED
  BY <1>1, <1>2, Invariance, PTL DEF Spec, ImplementsContract, Contract!CSpec
-----------------------------------------------------------------------------
(* The bound on pending tasks.                                             *)

\* EnqueueTask counts before it inserts, in transactions that may overlap: the
\* tasks queued, running or about to be inserted never exceed MaxPending by
\* more than the other open transactions.
THEOREM PendingBounded == Spec => []PendingBound
<1> DEFINE P == Cardinality(Pending)
           S == Cardinality(submitting)
<1>1. Init => PendingBound
  <2> SUFFICES ASSUME Init PROVE PendingBound
    BY Zenon
  <2>1. Pending = {} /\ submitting = {}
    BY Zenon DEF Init, Pending
  <2> QED
    BY <2>1, FS_EmptySet, QueueAssumption, SMTT(30) DEF PendingBound
<1>2. ASSUME IInv, IInv', PendingBound, [Next]_vars PROVE PendingBound'
  <2> USE QueueAssumption
  <2>1. /\ IsFiniteSet(Pending) /\ IsFiniteSet(submitting) /\ P \in Nat /\ S \in Nat
        /\ IsFiniteSet(Pending') /\ IsFiniteSet(submitting') /\ P' \in Nat /\ S' \in Nat
    <3>1. Pending \subseteq Tasks /\ submitting \subseteq Tasks
      BY <1>2, Zenon DEF Pending, IInv, TypeOK
    <3>2. Pending' \subseteq Tasks /\ submitting' \subseteq Tasks
      BY <1>2, Zenon DEF Pending, IInv, TypeOK
    <3> QED
      BY <3>1, <3>2, FS_Subset, FS_CardinalityType, ZenonT(30)
  <2>2. ASSUME NEW t \in Tasks, InsertTask(t) PROVE PendingBound'
    <3>1. Pending' = Pending \cup {t} /\ t \notin Pending
      BY <1>2, <2>2 DEF InsertTask, Pending, IInv, TypeOK, Row
    <3>2. submitting' = submitting \ {t} /\ t \in submitting
      BY <2>2, Zenon DEF InsertTask
    <3>3. P' = P + 1
      BY <2>1, <3>1, FS_AddElement, ZenonT(30)
    <3>4. S' = S - 1
      BY <2>1, <3>2, FS_RemoveElement, ZenonT(30)
    <3> QED
      BY <1>2, <2>1, <3>3, <3>4, SMTT(30) DEF PendingBound
  <2>3. ASSUME \A t \in Tasks : ~InsertTask(t) PROVE PendingBound'
    <3>1. Pending' \subseteq Pending
      BY <1>2, <2>3, RowsMove, ZenonT(30) DEF RowMove, Pending
    <3>2. P' <= P
      BY <2>1, <3>1, FS_Subset, ZenonT(30)
    <3>3. CASE submitting' \subseteq submitting
      <4>1. S' <= S
        BY <2>1, <3>3, FS_Subset, ZenonT(30)
      <4> QED
        BY <1>2, <2>1, <3>2, <4>1, SMTT(30) DEF PendingBound
    <3>4. ASSUME NEW t \in Tasks, CountPending(t) PROVE PendingBound'
      <4>1. submitting' = submitting \cup {t} /\ t \notin submitting
        BY <3>4, Zenon DEF CountPending
      <4>2. S' = S + 1
        BY <2>1, <4>1, FS_AddElement, ZenonT(30)
      <4>3. S < SubmitSlots /\ (MaxPending > 0 => P < MaxPending)
        BY <2>1, <3>4 DEF CountPending, QueueFull
      <4> QED
        BY <2>1, <3>2, <4>2, <4>3, SMTT(30) DEF PendingBound
    <3>5. \/ submitting' \subseteq submitting
          \/ \E t \in Tasks : CountPending(t)
      BY <1>2, Zenon DEF Next, vars, TaskStep, InsertTask, InsertError, CancelTask, WorkerStep, LeaseTask,
                  LeaseLost, Heartbeat, HeartbeatError, RunnerReturns, FinishStep,
                  CompleteTask, FailTask, RequeueTask, BuryTask, FinishTask, FinishError,
                  Stop, Crash, Restart, Tick
    <3> QED
      BY <3>3, <3>4, <3>5, ZenonT(30)
  <2> QED
    BY <2>2, <2>3, Zenon
<1> QED
  BY <1>1, <1>2, Invariance, PTL DEF Spec
-----------------------------------------------------------------------------
(* No early takeover.  A row has time left in proportion to the renewals   *)
(* that may still fail: the lease started, or was renewed, missed[w]       *)
(* heartbeats and a part of the current interval ago.                      *)

\* Failed heartbeats are counted within one run.
CountsOwnRun == \A w \in Workers : pc[w] # "run" => missed[w] = 0

\* A due heartbeat of a live run is attempted in time.
BeatOnTime == \A w \in Workers : pc[w] = "run" /\ live[w] => beat[w] >= -Late

\* The row of a live run is canceled, or its own with enough of the lease left.
Covered(w) ==
    \/ task[job[w]].status = "canceled"
    \/ /\ Holds(w, job[w])
       /\ task[job[w]].lease >= Lease + beat[w] - (missed[w] + 1) * BeatInterval

LeaseCovers ==
    \A w \in Workers : pc[w] = "run" /\ live[w] /\ missed[w] < Tolerance => Covered(w)

TInv == CountsOwnRun /\ BeatOnTime /\ LeaseCovers

\* heartbeat fires at least every second, and Tolerance intervals fit the lease.
LEMMA Intervals ==
    /\ BeatInterval \in Nat \ {0} /\ Tolerance \in Int
    /\ \A n \in Nat : n < Tolerance => (n + 1) * BeatInterval <= Lease - Late
<1>1. BeatInterval \in Nat \ {0}
  BY QueueAssumption DEF BeatInterval
<1>2. Lease - Late \in Int
  BY QueueAssumption
<1>3. \A k \in Int, b \in Nat \ {0} : (k \div b) \in Int /\ b * (k \div b) <= k
  OBVIOUS
<1>4. Tolerance \in Int /\ BeatInterval * Tolerance <= Lease - Late
  BY <1>1, <1>2, <1>3, ZenonT(30) DEF Tolerance
<1>5. \A n \in Nat, k \in Int, b \in Nat \ {0} : n < k => (n + 1) * b <= b * k
  OBVIOUS
<1>6. ASSUME NEW n \in Nat, n < Tolerance PROVE (n + 1) * BeatInterval <= Lease - Late
  <2>1. (n + 1) * BeatInterval <= BeatInterval * Tolerance
    BY <1>1, <1>4, <1>5, <1>6, ZenonT(30)
  <2>2. (n + 1) * BeatInterval \in Int /\ BeatInterval * Tolerance \in Int
    BY <1>1, <1>4
  <2> QED
    BY <1>2, <1>4, <2>1, <2>2, SMTT(30)
<1> QED
  BY <1>1, <1>4, <1>6, ZenonT(30)

\* A covered run that is not canceled holds a row that has not expired.
LEMMA CoveredIsLeased ==
    ASSUME IInv, TInv, NEW w \in Workers, pc[w] = "run", live[w], missed[w] < Tolerance
    PROVE  /\ job[w] \in Tasks
           /\ \/ task[job[w]].status = "canceled"
              \/ Holds(w, job[w]) /\ ~Expired(job[w])
<1>1. job[w] \in Tasks /\ task[job[w]].lease \in Int /\ beat[w] \in Int /\ missed[w] \in Nat
  BY Zenon DEF IInv, TypeOK, HasJob, Row
<1>2. (missed[w] + 1) * BeatInterval <= Lease - Late /\ (missed[w] + 1) * BeatInterval \in Int
  <2>1. BeatInterval \in Nat
    BY Intervals, Zenon
  <2>2. (missed[w] + 1) * BeatInterval \in Int
    BY <1>1, <2>1
  <2>3. (missed[w] + 1) * BeatInterval <= Lease - Late
    BY <1>1, Intervals, Zenon
  <2> QED
    BY <2>2, <2>3, Zenon
<1>3. beat[w] >= -Late /\ Covered(w)
  BY Zenon DEF TInv, BeatOnTime, LeaseCovers
<1> QED
  BY <1>1, <1>2, <1>3, QueueAssumption, SMTT(30) DEF Covered, Expired

\* A lease transaction spares the rows that are neither queued nor expired.
LEMMA LeaseSpares ==
    ASSUME IInv, NEW w \in Workers, NEW t \in Tasks, LeaseRow(w, t)
    PROVE  /\ task'[t].lease = Lease
           /\ \A u \in Tasks : ~Expired(u) /\ task[u].status # "queued" => task'[u] = task[u]
<1> DEFINE rows == [u \in Tasks |-> RequeueExpired(u)]
<1>1. /\ rows[t].status = "queued"
      /\ task' = [rows EXCEPT ![t] = [rows[t] EXCEPT !.status = "running", !.worker = w,
                                                     !.attempts = @ + 1, !.lease = Lease]]
  BY Zenon DEF LeaseRow, Leasable, Sweep
<1>2. \A u \in Tasks : ~Expired(u) => rows[u] = task[u]
  BY Zenon DEF RequeueExpired
<1>3. ASSUME NEW u \in Tasks, ~Expired(u), task[u].status # "queued" PROVE task'[u] = task[u]
  BY <1>1, <1>2, <1>3, ZenonT(30)
<1>4. task'[t].lease = Lease
  <2>1. rows[t] \in Row
    <3>1. task[t] \in Row
      BY Zenon DEF IInv, TypeOK
    <3>2. CASE ~Expired(t)
      BY <1>2, <3>1, <3>2, ZenonT(30)
    <3>3. CASE Expired(t)
      <4>1. RequeueExpired(t) = [status |-> "queued", attempts |-> task[t].attempts,
                                 worker |-> NoWorker, lease |-> 0, delay |-> 0]
        <5>1. PICK to : RequeueExpired(t) = [Release(task[t], to) EXCEPT !.delay = 0]
          BY <3>3, Zenon DEF RequeueExpired
        <5>2. RequeueExpired(t) = [status |-> to, attempts |-> task[t].attempts,
                                   worker |-> NoWorker, lease |-> 0, delay |-> 0]
          BY <3>1, <5>1, ReleaseEffect, ZenonT(30)
        <5> QED
          BY <1>1, <5>2
      <4> QED
        BY <3>1, <4>1 DEF Row
    <3> QED
      BY <3>2, <3>3, Zenon
  <2>2. task'[t] = [rows[t] EXCEPT !.status = "running", !.worker = w,
                                   !.attempts = @ + 1, !.lease = Lease]
    BY <1>1, Zenon
  <2> HIDE DEF rows
  <2> QED
    BY <2>1, <2>2, Zenon DEF Row
<1> QED
  BY <1>3, <1>4, Zenon

\* Apart from its own heartbeat and the clock, nothing but CancelTask touches the
\* unexpired row that a run holds, and nothing revives a canceled row.
LEMMA RowSpared ==
    ASSUME IInv, NEW v \in Workers, pc[v] = "run", job[v] \in Tasks,
           \/ \E t \in Tasks : TaskStep(t)
           \/ \E w \in Workers : WorkerStep(w)
    PROVE  /\ task[job[v]].status = "canceled" => task'[job[v]].status = "canceled"
           /\ Holds(v, job[v]) /\ ~Expired(job[v]) /\ ~Heartbeat(v) =>
                 task'[job[v]] = task[job[v]] \/ task'[job[v]].status = "canceled"
<1> DEFINE u == job[v]
<1>1. ASSUME NEW t \in Tasks, TaskStep(t)
      PROVE  /\ task[u].status = "canceled" => task'[u].status = "canceled"
             /\ Holds(v, u) => task'[u] = task[u] \/ task'[u].status = "canceled"
  <2>1. task[t] \in Row
    BY Zenon DEF IInv, TypeOK
  <2>2. Release(task[t], "canceled").status = "canceled"
    BY <2>1, ReleaseEffect, SMTT(30)
  <2> QED
    BY <1>1, <2>2, Zenon DEF TaskStep, CountPending, InsertTask, InsertError, CancelTask, Holds, IInv, TypeOK
<1>2. ASSUME NEW w \in Workers, WorkerStep(w)
      PROVE  /\ task[u].status = "canceled" => task'[u].status = "canceled"
             /\ Holds(v, u) /\ ~Expired(u) /\ ~Heartbeat(v) => task'[u] = task[u]
  <2>1. CASE LeaseTask(w) \/ LeaseLost(w)
    <3>1. PICK t \in Tasks : LeaseRow(w, t)
      BY <2>1, Zenon DEF LeaseTask, LeaseLost
    <3> QED
      BY <3>1, LeaseSpares, Zenon DEF Holds, Expired
  <2>2. CASE Heartbeat(w) \/ FinishStep(w)
    <3>1. \/ UNCHANGED task
          \/ /\ pc[w] # "run" \/ Heartbeat(w)
             /\ Holds(w, job[w])
             /\ \E row : task' = [task EXCEPT ![job[w]] = row]
      BY <2>2, Zenon DEF Heartbeat, Renew, CancelRun, FinishStep, CompleteTask, FailTask, RequeueTask,
                  BuryTask, FinishTask, FinishError
    <3> QED
      BY <3>1, SMTT(30) DEF Holds, IInv, TypeOK
  <2> QED
    BY <1>2, <2>1, <2>2, ZenonT(30) DEF WorkerStep, HeartbeatError, RunnerReturns, Stop, Crash, Restart
<1> QED
  BY <1>1, <1>2, Zenon

\* What a step other than a tick of the clock does to a run: nothing, or it ends
\* or loses it, or it starts it, or its heartbeat was answered or failed.
LEMMA RunStep ==
    ASSUME IInv, TInv, NEW v \in Workers, pc'[v] = "run", live'[v],
           \/ \E t \in Tasks : TaskStep(t)
           \/ \E w \in Workers : WorkerStep(w)
    PROVE  \/ /\ pc[v] = "run" /\ live[v] /\ job'[v] = job[v] /\ ~Heartbeat(v)
              /\ \/ beat'[v] = beat[v] /\ missed'[v] = missed[v]
                 \/ /\ HeartbeatError(v)
                    /\ beat'[v] = beat[v] + BeatInterval
                    /\ missed'[v] = IF missed[v] < Tolerance THEN missed[v] + 1 ELSE missed[v]
           \/ /\ \E t \in Tasks : LeaseRow(v, t) /\ job'[v] = t
              /\ beat'[v] = BeatInterval /\ missed'[v] = 0
           \/ /\ Heartbeat(v) /\ Holds(v, job[v]) /\ Renew(v) /\ live[v] /\ job'[v] = job[v]
              /\ pc[v] = "run" /\ beat[v] <= 0
              /\ beat'[v] = beat[v] + BeatInterval /\ missed'[v] = 0
<1>1. ASSUME NEW t \in Tasks, TaskStep(t) PROVE UNCHANGED workerVars
  BY <1>1, Zenon DEF TaskStep, CountPending, InsertTask, InsertError, CancelTask
<1>2. ASSUME NEW w \in Workers, w # v, WorkerStep(w)
      PROVE  /\ pc'[v] = pc[v] /\ live'[v] = live[v] /\ job'[v] = job[v]
             /\ beat'[v] = beat[v] /\ missed'[v] = missed[v]
  <2>1. CASE FinishStep(w)
    BY <1>2, <2>1, ZenonT(30) DEF FinishStep, CompleteTask, FailTask, RequeueTask, BuryTask, FinishTask,
                      FinishError, LeaveRun, IInv, TypeOK
  <2>2. CASE Heartbeat(w) \/ HeartbeatError(w)
    BY <1>2, <2>2, ZenonT(30) DEF Heartbeat, Renew, CancelRun, HeartbeatError, IInv, TypeOK
  <2>3. CASE LeaseTask(w) \/ LeaseLost(w)
    BY <1>2, <2>3, Zenon DEF LeaseTask, LeaseLost, ReceiveRow, workerVars, IInv, TypeOK
  <2>4. CASE RunnerReturns(w) \/ Stop(w) \/ Crash(w) \/ Restart(w)
    BY <1>2, <2>4, ZenonT(30) DEF RunnerReturns, Stop, Crash, Restart, IInv, TypeOK
  <2> QED
    BY <1>2, <2>1, <2>2, <2>3, <2>4, ZenonT(30) DEF WorkerStep
<1>3. CASE Heartbeat(v)
  <2>1. Holds(v, job[v]) /\ Renew(v) /\ pc[v] = "run" /\ beat[v] <= 0 /\ job' = job
    BY <1>3, ZenonT(30) DEF Heartbeat, CancelRun, TickPending, IInv, TypeOK
  <2> QED
    BY <1>3, <2>1, Zenon DEF Renew, IInv, TypeOK
<1>4. ASSUME WorkerStep(v), ~Heartbeat(v)
      PROVE  \/ HeartbeatError(v)
             \/ LeaseTask(v)
  <2>1. ~FinishStep(v)
    BY Zenon DEF FinishStep, CompleteTask, FailTask, RequeueTask, BuryTask, FinishTask,
           FinishError, LeaveRun, IInv, TypeOK
  <2>2. ~LeaseLost(v)
    BY Zenon DEF LeaseLost, workerVars
  <2>3. ~(RunnerReturns(v) \/ Stop(v) \/ Crash(v) \/ Restart(v))
    BY Zenon DEF RunnerReturns, Stop, Crash, Restart, IInv, TypeOK
  <2> QED
    BY <1>4, <2>1, <2>2, <2>3, ZenonT(30) DEF WorkerStep
<1>5. CASE HeartbeatError(v) /\ ~Heartbeat(v)
  BY <1>5, ZenonT(30) DEF HeartbeatError, TickPending, IInv, TypeOK
<1>6. CASE LeaseTask(v)
  <2>1. missed[v] = 0
    BY <1>6, ZenonT(30) DEF LeaseTask, TInv, CountsOwnRun
  <2> QED
    BY <1>6, <2>1, ZenonT(30) DEF LeaseTask, ReceiveRow, IInv, TypeOK
<1> QED
  BY <1>1, <1>2, <1>3, <1>4, <1>5, <1>6, ZenonT(30) DEF workerVars

\* A second costs the lease, and the time to the next heartbeat, one second.
LEMMA TickCovers ==
    ASSUME IInv, TInv, Tick
    PROVE  TInv'
<1>1. CountsOwnRun'
  BY Zenon DEF Tick, TInv, CountsOwnRun
<1>2. \A w \in Workers : pc[w] = "run" /\ live[w] => beat'[w] = beat[w] - 1 /\ beat[w] > -Late
  BY Zenon DEF Tick
<1>3. BeatOnTime'
  <2>1. \A b \in Int : b > -Late => b - 1 >= -Late
    BY QueueAssumption
  <2>2. UNCHANGED <<pc, live>> /\ \A w \in Workers : beat[w] \in Int
    BY Zenon DEF Tick, IInv, TypeOK
  <2> QED
    BY <1>2, <2>1, <2>2, ZenonT(30) DEF BeatOnTime
<1>4. ASSUME NEW w \in Workers, pc'[w] = "run", live'[w], missed'[w] < Tolerance
      PROVE  Covered(w)'
  <2>1. UNCHANGED <<pc, job, live, missed>>
    BY Zenon DEF Tick
  <2> DEFINE t == job[w]
  <2>2. /\ t \in Tasks /\ Covered(w) /\ task[t] \in Row /\ task[t].lease \in Int
        /\ beat[w] \in Int /\ missed[w] \in Nat
    BY <1>4, <2>1, ZenonT(30) DEF IInv, TypeOK, HasJob, TInv, LeaseCovers, Row
  <2>3. task'[t].status = task[t].status /\ task'[t].worker = task[t].worker
    BY <2>2, TickRow, Zenon
  <2>4. task'[t].lease \in Int /\ task'[t].lease >= task[t].lease - 1
    <3> DEFINE le == IF task[t].status = "running" /\ task[t].lease >= 0
                     THEN task[t].lease - 1 ELSE task[t].lease
               de == IF task[t].delay > 0 THEN task[t].delay - 1 ELSE task[t].delay
    <3>1. task'[t] = [task[t] EXCEPT !.lease = le, !.delay = de]
      BY <2>2, Zenon DEF Tick
    <3>2. le \in Int /\ le >= task[t].lease - 1
      BY <2>2
    <3> HIDE DEF le, de, t
    <3> QED
      BY <2>2, <3>1, <3>2, ZenonT(30) DEF Row
  <2>5. beat'[w] = beat[w] - 1
    BY <1>2, <1>4, <2>1, ZenonT(30)
  <2> DEFINE gap == (missed[w] + 1) * BeatInterval
  <2>6. gap \in Int /\ Lease \in Int
    BY <2>2, Intervals, QueueAssumption, SMTT(30)
  <2>7. task[t].status = "canceled" \/ (Holds(w, t) /\ task[t].lease >= Lease + beat[w] - gap)
    BY <2>2, Zenon DEF Covered
  <2> HIDE DEF gap, t
  <2>8. \/ task'[t].status = "canceled"
        \/ /\ task'[t].status = "running" /\ task'[t].worker = w
           /\ task'[t].lease >= Lease + beat'[w] - gap
    BY <2>2, <2>3, <2>4, <2>5, <2>6, <2>7, SMTT(30) DEF Holds
  <2> QED
    BY <2>1, <2>8, Zenon DEF Covered, Holds, gap, t
<1> QED
  BY <1>1, <1>3, <1>4, ZenonT(30) DEF TInv, LeaseCovers

\* Every other step keeps the runs that go on covered, and starts a run covered.
LEMMA StepCovers ==
    ASSUME IInv, TInv, NEW v \in Workers, pc'[v] = "run", live'[v],
           \/ \E t \in Tasks : TaskStep(t)
           \/ \E w \in Workers : WorkerStep(w)
    PROVE  beat'[v] >= -Late /\ (missed'[v] < Tolerance => Covered(v)')
<1>1. /\ beat[v] \in Int /\ missed[v] \in Nat /\ Late \in Nat /\ Lease \in Nat
      /\ BeatInterval \in Nat \ {0} /\ Tolerance \in Int
  BY QueueAssumption, Intervals, Zenon DEF IInv, TypeOK
<1>2. CASE \E t \in Tasks : LeaseRow(v, t) /\ job'[v] = t /\ beat'[v] = BeatInterval /\ missed'[v] = 0
  <2>1. PICK t \in Tasks : LeaseRow(v, t) /\ job'[v] = t /\ beat'[v] = BeatInterval /\ missed'[v] = 0
    BY <1>2, ZenonT(30)
  <2>2. task'[t].status = "running" /\ task'[t].worker = v /\ task'[t].lease = Lease
    BY <2>1, LeaseRowEffect, LeaseSpares, SMTT(30)
  <2> QED
    BY <1>1, <2>1, <2>2, SMTT(30) DEF Covered, Holds
<1>3. CASE /\ Holds(v, job[v]) /\ Renew(v) /\ job'[v] = job[v] /\ live[v]
           /\ pc[v] = "run" /\ beat[v] <= 0
           /\ beat'[v] = beat[v] + BeatInterval /\ missed'[v] = 0
  <2>1. job[v] \in Tasks /\ task[job[v]] \in Row /\ beat[v] >= -Late
    BY <1>3, Zenon DEF IInv, TypeOK, HasJob, TInv, BeatOnTime
  <2>2. task'[job[v]] = [task[job[v]] EXCEPT !.lease = Lease]
    BY <1>3, <2>1, Zenon DEF Renew, IInv, TypeOK
  <2>3. task'[job[v]].status = "running" /\ task'[job[v]].worker = v /\ task'[job[v]].lease = Lease
    BY <1>3, <2>1, <2>2, ZenonT(30) DEF Holds, Row
  <2> QED
    BY <1>1, <1>3, <2>1, <2>3, SMTT(30) DEF Covered, Holds
<1>4. CASE /\ pc[v] = "run" /\ live[v] /\ job'[v] = job[v] /\ ~Heartbeat(v)
           /\ \/ beat'[v] = beat[v] /\ missed'[v] = missed[v]
              \/ /\ beat'[v] = beat[v] + BeatInterval
                 /\ missed'[v] = IF missed[v] < Tolerance THEN missed[v] + 1 ELSE missed[v]
  <2>1. beat[v] >= -Late
    BY <1>4, Zenon DEF TInv, BeatOnTime
  <2>2. beat'[v] >= -Late
    BY <1>1, <1>4, <2>1, SMTT(30)
  <2>3. ASSUME missed'[v] < Tolerance PROVE Covered(v)'
    <3>1. missed[v] < Tolerance
      BY <1>1, <1>4, <2>3, ZenonT(30)
    <3>2. /\ job[v] \in Tasks
          /\ task[job[v]].status = "canceled" \/ (Holds(v, job[v]) /\ ~Expired(job[v]))
      BY <1>4, <3>1, CoveredIsLeased, ZenonT(30)
    <3>3. \/ task'[job[v]].status = "canceled"
          \/ task'[job[v]] = task[job[v]]
      BY <1>4, <3>2, RowSpared, ZenonT(30)
    <3>4. Lease + beat'[v] - (missed'[v] + 1) * BeatInterval
             = Lease + beat[v] - (missed[v] + 1) * BeatInterval
      <4>1. (missed[v] + 1 + 1) * BeatInterval = (missed[v] + 1) * BeatInterval + BeatInterval
        BY <1>1
      <4>2. (missed[v] + 1) * BeatInterval \in Int
        BY <1>1
      <4> QED
        BY <1>1, <1>4, <3>1, <4>1, <4>2, SMTT(30)
    <3>5. Covered(v)
      BY <1>4, <3>1, Zenon DEF TInv, LeaseCovers
    <3> QED
      BY <1>4, <3>3, <3>4, <3>5, ZenonT(30) DEF Covered, Holds
  <2> QED
    BY <2>2, <2>3, Zenon
<1> QED
  BY <1>2, <1>3, <1>4, RunStep, ZenonT(30)

\* Outside a run nothing is counted.
LEMMA StepCounts ==
    ASSUME IInv, TInv, NEW w \in Workers, WorkerStep(w)
    PROVE  CountsOwnRun'
<1>1. CASE FinishStep(w)
  BY <1>1, Zenon DEF FinishStep, CompleteTask, FailTask, RequeueTask, BuryTask, FinishTask,
              FinishError, LeaveRun, IInv, TypeOK, TInv, CountsOwnRun
<1>2. CASE Heartbeat(w) \/ HeartbeatError(w)
  BY <1>2, Zenon DEF Heartbeat, Renew, CancelRun, HeartbeatError, TickPending, IInv, TypeOK, TInv, CountsOwnRun
<1>3. CASE LeaseTask(w) \/ LeaseLost(w)
  BY <1>3, Zenon DEF LeaseTask, LeaseLost, workerVars, IInv, TypeOK, TInv, CountsOwnRun
<1>4. CASE RunnerReturns(w) \/ Stop(w) \/ Crash(w) \/ Restart(w)
  BY <1>4, Zenon DEF RunnerReturns, Stop, Crash, Restart, IInv, TypeOK, TInv, CountsOwnRun
<1> QED
  BY <1>1, <1>2, <1>3, <1>4, ZenonT(30) DEF WorkerStep

\* The sweep of LeaseTask takes a row from a live run only after Tolerance
\* consecutive renewals of it failed, for every lease, lateness and crowd.
THEOREM NoTakeover == Spec => []NoEarlyTakeover
<1>1. Init => TInv
  BY Zenon DEF Init, TInv, CountsOwnRun, BeatOnTime, LeaseCovers
<1>2. IInv /\ TInv /\ [Next]_vars => TInv'
  <2> SUFFICES ASSUME IInv, TInv, [Next]_vars PROVE TInv'
    BY Zenon
  <2>1. CASE Tick
    BY <2>1, TickCovers, Zenon
  <2>2. CASE (\E t \in Tasks : TaskStep(t)) \/ (\E w \in Workers : WorkerStep(w))
    <3>1. BeatOnTime' /\ LeaseCovers'
      BY <2>2, StepCovers, Zenon DEF BeatOnTime, LeaseCovers
    <3>2. ASSUME NEW t \in Tasks, TaskStep(t) PROVE CountsOwnRun'
      BY <3>2, Zenon DEF TaskStep, CountPending, InsertTask, InsertError, CancelTask, workerVars,
                  TInv, CountsOwnRun
    <3> QED
      BY <2>2, <3>1, <3>2, StepCounts, ZenonT(30) DEF TInv
  <2>3. CASE UNCHANGED vars
    BY <2>3, Zenon DEF vars, workerVars, TInv, CountsOwnRun, BeatOnTime, LeaseCovers, Covered, Holds
  <2> QED
    BY <2>1, <2>2, <2>3, ZenonT(30) DEF Next
<1>3. IInv /\ TInv => NoEarlyTakeover
  <2> SUFFICES ASSUME IInv, TInv, NEW w \in Workers, pc[w] = "run", live[w],
                      ~Holds(w, job[w]), task[job[w]].status # "canceled"
               PROVE  missed[w] >= Tolerance
    BY Zenon DEF NoEarlyTakeover
  <2>1. missed[w] \in Int /\ Tolerance \in Int
    BY Intervals DEF IInv, TypeOK
  <2>2. ~(missed[w] < Tolerance)
    BY CoveredIsLeased, Zenon
  <2> QED
    BY <2>1, <2>2
<1> QED
  BY <1>1, <1>2, <1>3, Invariance, PTL DEF Spec
=============================================================================
