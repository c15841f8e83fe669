---------------------------- MODULE JobLifecycle ----------------------------
(***************************************************************************)
(* Jobs over the durable queue: Service.Submit and the cancel handlers in  *)
(* the API process, Service.RunQueuedTask in the workers of every process, *)
(* and the jobs table they all write.  The queue itself is seen through    *)
(* its contract (TaskContract, implemented by TaskQueue): a row may be     *)
(* leased, released, buried, canceled or taken over after its lease, at    *)
(* any time the contract allows.  Job rows are read from the database      *)
(* whenever it is configured, so the in-memory copies are left out.        *)
(***************************************************************************)
EXTENDS TaskContract, FiniteSets

CONSTANTS Workers, NoWorker,
          Processes,
          Api,          \* the process that serves HTTP
          Home,         \* Home[w]: the process worker w runs in
          NoTask

ASSUME LifecycleAssumption ==
    /\ Api \in Processes /\ Home \in [Workers -> Processes]
    /\ IsFiniteSet(Workers) /\ NoWorker \notin Workers /\ NoTask \notin Tasks
    /\ MaxAttempts \in Nat \ {0}

VARIABLES holder,   \* holder[t]: the worker_id column
          row,      \* row[t]: the status column of jobs, "absent" before INSERT
          submit,   \* submit[t]: where Service.Submit is with it
          aborting, \* tasks between CancelJobID and CancelTask of the cancel handler
          pc,       \* where RunQueuedTask of each worker is
          job,      \* its task
          live,     \* the context of its run has not been canceled
          result,   \* j.Status when the run is over
          active,   \* active[p][t]: the run Service.active of process p names
          calm      \* no run of t overlapped another, no write of Submit came late

queueVars == <<phase, tries, holder>>
runVars == <<pc, job, live, result>>
vars == <<queueVars, row, submit, aborting, runVars, active, calm>>

JobStatus == {"absent", "pending", "running", "completed", "failed", "canceled"}
\* Control points of startNow and RunQueuedTask; Registered: the run is in active.
Registered == {"save", "begin", "work", "leave"}
Running == {"start"} \cup Registered \cup {"complete", "fail"}

Here(p) == {w \in Workers : Home[w] = p}
MaxJobsOne(p) == 1   \* mutant
\* NewWithOptions: one job per embedded worker, at least one.
MaxJobs(p) == IF Cardinality(Here(p)) > 1 THEN Cardinality(Here(p)) ELSE 1

TypeOK == /\ phase \in [Tasks -> Phases] /\ tries \in [Tasks -> 0..MaxAttempts]
          /\ holder \in [Tasks -> Workers \cup {NoWorker}]
          /\ row \in [Tasks -> JobStatus]
          /\ submit \in [Tasks -> {"none", "saved", "queued", "done"}]
          /\ aborting \subseteq Tasks
          /\ pc \in [Workers -> {"poll"} \cup Running]
          /\ job \in [Workers -> Tasks \cup {NoTask}]
          /\ live \in [Workers -> BOOLEAN]
          /\ result \in [Workers -> JobStatus]
          /\ active \in [Processes -> [Tasks -> Workers \cup {NoWorker}]]
          /\ calm \in [Tasks -> BOOLEAN]

Init == /\ CInit
        /\ holder = [t \in Tasks |-> NoWorker]
        /\ row = [t \in Tasks |-> "absent"]
        /\ submit = [t \in Tasks |-> "none"]
        /\ aborting = {}
        /\ pc = [w \in Workers |-> "poll"]
        /\ job = [w \in Workers |-> NoTask]
        /\ live = [w \in Workers |-> TRUE]
        /\ result = [w \in Workers |-> "absent"]
        /\ active = [p \in Processes |-> [t \in Tasks |-> NoWorker]]
        /\ calm = [t \in Tasks |-> TRUE]
-----------------------------------------------------------------------------
(* Service.Submit                                                          *)

\* db.SaveJob, an upsert.
SaveUnlessOver(t, st) ==   \* mutant
    row' = IF row[t] \in {"failed", "canceled"} THEN row ELSE [row EXCEPT ![t] = st]
SaveJob(t, st) == row' = [row EXCEPT ![t] = st]
\* updateJob, and the SaveJob of startNow: an error is only logged.
UpdateJob(t, st) == SaveJob(t, st) \/ UNCHANGED row

\* newJob and the first SaveJob, whose error ends Submit.
SaveNewJob(t) ==
    /\ submit[t] = "none"
    /\ \/ SaveJob(t, "pending") /\ submit' = [submit EXCEPT ![t] = "saved"]
       \/ UNCHANGED row /\ submit' = [submit EXCEPT ![t] = "done"]
    /\ UNCHANGED <<queueVars, aborting, runVars, active, calm>>

\* EnqueueTask, or its error (ErrQueueFull) and the fail that reports it.
EnqueueTask(t) ==
    /\ submit[t] = "saved"
    /\ \/ /\ phase' = [phase EXCEPT ![t] = "queued"]
          /\ submit' = [submit EXCEPT ![t] = "queued"]
          /\ UNCHANGED row
       \/ /\ UpdateJob(t, "failed")
          /\ submit' = [submit EXCEPT ![t] = "done"]
          /\ UNCHANGED phase
    /\ UNCHANGED <<tries, holder, aborting, runVars, active, calm>>

\* The updateJob(JobPending) at the end of Submit: by now a worker may have
\* started, or even finished, the task.
MarkQueued(t) ==
    /\ submit[t] = "queued"
    /\ submit' = [submit EXCEPT ![t] = "done"]
    /\ UpdateJob(t, "pending")
    /\ calm' = [calm EXCEPT ![t] = @ /\ row[t] = "pending"]
    /\ UNCHANGED <<queueVars, aborting, runVars, active>>
-----------------------------------------------------------------------------
(* The queue, as far as its contract tells.                                *)

Others(w, t) == {v \in Workers \ {w} : pc[v] \in Running /\ job[v] = t}

AttemptLeft(t) == tries[t] < MaxAttempts

\* LeaseTask returns t to w: out of the queue, or after an expired lease.
LeaseTask(w, t) ==
    /\ pc[w] = "poll"
    /\ phase[t] \in {"queued", "running"} /\ AttemptLeft(t)
    /\ phase' = [phase EXCEPT ![t] = "running"]
    /\ tries' = [tries EXCEPT ![t] = @ + 1]
    /\ holder' = [holder EXCEPT ![t] = w]
    /\ pc' = [pc EXCEPT ![w] = "start"]
    /\ job' = [job EXCEPT ![w] = t]
    /\ calm' = [calm EXCEPT ![t] = @ /\ Others(w, t) = {}]
    /\ UNCHANGED <<row, submit, aborting, live, result, active>>

\* A lease that expired is swept while another task is leased.
Expire(t) ==
    /\ phase[t] = "running"
    /\ phase' = [phase EXCEPT ![t] = IF AttemptLeft(t) THEN "queued" ELSE "dead"]
    /\ holder' = [holder EXCEPT ![t] = NoWorker]
    /\ UNCHANGED <<tries, row, submit, aborting, runVars, active, calm>>

Holds(w, t) == phase[t] = "running" /\ holder[t] = w

\* A heartbeat finds the lease lost and cancels the context of the run.
LoseLease(w) ==
    /\ pc[w] \in Running \ {"complete", "fail"} /\ ~Holds(w, job[w])
    /\ live' = [live EXCEPT ![w] = FALSE]
    /\ UNCHANGED <<queueVars, row, submit, aborting, pc, job, result, active, calm>>
-----------------------------------------------------------------------------
(* Service.RunQueuedTask                                                   *)

Step(w, from, to) == pc[w] = from /\ pc' = [pc EXCEPT ![w] = to]

Load(p) == Cardinality({t \in Tasks : active[p][t] # NoWorker})

\* startNow under mu: the run is entered in active, where it replaces an earlier
\* run of the same task.  The refusal at the limit is left out because it is never
\* taken for a leased task (NeverRefused).
StartNow(w) ==
    /\ Load(Home[w]) < MaxJobs(Home[w])
    /\ Step(w, "start", "save")
    /\ active' = [active EXCEPT ![Home[w]][job[w]] = w]
    /\ UNCHANGED <<queueVars, row, submit, aborting, job, live, result, calm>>

\* newJob and SaveJob: the row starts again from "pending".
SaveRun(w) ==
    /\ Step(w, "save", "begin")
    /\ UpdateJob(job[w], "pending")
    /\ UNCHANGED <<queueVars, submit, aborting, job, live, result, active, calm>>

\* updateJob(JobRunning) at the start, and after each phase of the job.
Begin(w) ==
    /\ Step(w, "begin", "work") \/ Step(w, "work", "work")
    /\ UpdateJob(job[w], "running")
    /\ UNCHANGED <<queueVars, submit, aborting, job, live, result, active, calm>>

\* complete or fail; a run whose context was canceled reports that, another
\* error, or still completes.  updateJob only logs a SaveJob that fails.
Finish(w) ==
    LET t == job[w] IN
    /\ Step(w, "work", "leave")
    /\ \E st \in {"completed", "failed"} \cup (IF live[w] THEN {} ELSE {"canceled"}) :
          /\ result' = [result EXCEPT ![w] = st]
          /\ \/ SaveJob(t, st) /\ UNCHANGED calm
             \/ calm' = [calm EXCEPT ![t] = FALSE] /\ UNCHANGED row
    /\ UNCHANGED <<queueVars, submit, aborting, job, live, active>>

\* The deferred end of run: the entry of the task is deleted, whoever made it.
LeaveEntry(w) ==   \* mutant
    /\ Step(w, "leave", IF result[w] = "completed" THEN "complete" ELSE "fail")
    /\ active' = IF result[w] = "canceled" THEN active
                 ELSE [active EXCEPT ![Home[w]][job[w]] = NoWorker]
    /\ UNCHANGED <<queueVars, row, submit, aborting, job, live, result, calm>>
Leave(w) ==
    /\ Step(w, "leave", IF result[w] = "completed" THEN "complete" ELSE "fail")
    /\ active' = [active EXCEPT ![Home[w]][job[w]] = NoWorker]
    /\ UNCHANGED <<queueVars, row, submit, aborting, job, live, result, calm>>

Idle(w) == /\ job' = [job EXCEPT ![w] = NoTask]
           /\ live' = [live EXCEPT ![w] = TRUE]
           /\ result' = [result EXCEPT ![w] = "absent"]

\* queue.run: CompleteTask or FailTask, for the holder of the row only.
FinishTask(w) ==
    LET t == job[w]
        done == IF pc[w] = "complete" THEN "completed"
                ELSE IF AttemptLeft(t) THEN "queued" ELSE "dead"
    IN  /\ Step(w, "complete", "poll") \/ Step(w, "fail", "poll")
        /\ IF Holds(w, t)
           THEN /\ phase' = [phase EXCEPT ![t] = done]
                /\ holder' = [holder EXCEPT ![t] = NoWorker]
           ELSE UNCHANGED <<phase, holder>>
        /\ Idle(w)
        /\ UNCHANGED <<tries, row, submit, aborting, active, calm>>
-----------------------------------------------------------------------------
(* Canceling, stopping, crashing.                                          *)

Cut(runs) == live' = [w \in Workers |-> live[w] /\ w \notin runs]

\* handleAdminCancelTask, as far as CancelJobID: the job exists, and the run
\* that active names, if any, is canceled.
CancelJobID(t) ==
    /\ row[t] # "absent" /\ t \notin aborting
    /\ aborting' = aborting \cup {t}
    /\ Cut({active[Api][t]})
    /\ UNCHANGED <<queueVars, row, submit, pc, job, result, active, calm>>

CancelableEver(t) == phase[t] # "absent"   \* mutant
Cancelable(t) == phase[t] \in {"queued", "running"}

\* handleAdminCancelTask, CancelTask on the table.
CancelTask(t) ==
    /\ t \in aborting
    /\ aborting' = aborting \ {t}
    /\ IF Cancelable(t)
       THEN /\ phase' = [phase EXCEPT ![t] = "canceled"]
            /\ holder' = [holder EXCEPT ![t] = NoWorker]
       ELSE UNCHANGED <<phase, holder>>
    /\ UNCHANGED <<tries, row, submit, runVars, active, calm>>

\* POST /api/jobs/cancel: the runs in active of the API process are canceled.
CancelJob ==
    LET named == {t \in Tasks : active[Api][t] # NoWorker} IN
    /\ named # {}
    /\ Cut({active[Api][t] : t \in named})
    /\ UNCHANGED <<queueVars, row, submit, aborting, pc, job, result, active, calm>>

\* Queue.Stop cancels every run of the process and waits for them.
StopProcess(p) ==
    /\ \E w \in Here(p) : pc[w] \in Running /\ live[w]
    /\ Cut({w \in Here(p) : pc[w] \in Running})
    /\ UNCHANGED <<queueVars, row, submit, aborting, pc, job, result, active, calm>>

\* The process dies: its runs, its active map and, in the API, the handlers that
\* are in the middle of a request are gone.
CrashProcess(p) ==
    /\ pc' = [w \in Workers |-> IF w \in Here(p) THEN "poll" ELSE pc[w]]
    /\ job' = [w \in Workers |-> IF w \in Here(p) THEN NoTask ELSE job[w]]
    /\ live' = [w \in Workers |-> w \in Here(p) \/ live[w]]
    /\ result' = [w \in Workers |-> IF w \in Here(p) THEN "absent" ELSE result[w]]
    /\ active' = [active EXCEPT ![p] = [t \in Tasks |-> NoWorker]]
    /\ IF p = Api
       THEN /\ submit' = [t \in Tasks |-> IF submit[t] = "none" THEN "none" ELSE "done"]
            /\ aborting' = {}
       ELSE UNCHANGED <<submit, aborting>>
    /\ UNCHANGED <<queueVars, row, calm>>
-----------------------------------------------------------------------------
TaskStep(t) == \/ SaveNewJob(t) \/ EnqueueTask(t) \/ MarkQueued(t) \/ Expire(t)
               \/ CancelJobID(t) \/ CancelTask(t)

WorkerStep(w) == \/ \E t \in Tasks : LeaseTask(w, t)
                 \/ LoseLease(w) \/ StartNow(w) \/ SaveRun(w) \/ Begin(w)
                 \/ Finish(w) \/ Leave(w) \/ FinishTask(w)

Next == \/ \E t \in Tasks : TaskStep(t)
        \/ \E w \in Workers : WorkerStep(w)
        \/ CancelJob
        \/ \E p \in Processes : StopProcess(p) \/ CrashProcess(p)

Spec == Init /\ [][Next]_vars
-----------------------------------------------------------------------------
\* The active map names the runs: an entry is always a run of that task in that
\* process, so a cancel never reaches a run of another task and WaitForJob never
\* waits for one that is over; and every run has its entry, so a cancel reaches
\* it, unless two runs of the task overlapped (the end of the first deletes the
\* entry of the second).
ActiveIsRuns ==
    /\ \A p \in Processes, t \in Tasks : LET w == active[p][t] IN
          w # NoWorker => Home[w] = p /\ pc[w] \in Registered /\ job[w] = t
    /\ \A w \in Workers : pc[w] \in Registered /\ calm[job[w]] => active[Home[w]][job[w]] = w

\* The limit of startNow never turns down a leased task, which would cost it an
\* attempt and, at the last one, its life: when a worker gets to startNow, its
\* process has room for one more run.
NeverRefused == \A w \in Workers : pc[w] = "start" => Load(Home[w]) < MaxJobs(Home[w])

AtRest(t) == submit[t] = "done" /\ \A w \in Workers : job[w] # t

\* The two tables agree in the end: when nobody works on a completed task any
\* more its job is "completed" as well.  Only three things can part them: a run
\* that overlapped another one, the last write of Submit when it came after the
\* first write of the worker, and a SaveJob that failed.
TablesAgree == \A t \in Tasks : AtRest(t) /\ calm[t] /\ phase[t] = "completed" => row[t] = "completed"

\* Submit, the workers and the cancel handlers keep to the contract of the queue.
KeepsContract == CSpec
=============================================================================
