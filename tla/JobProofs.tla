----------------------------- MODULE JobProofs ------------------------------
(***************************************************************************)
(* The jobs, for any jobs, workers and processes, and the pages in which   *)
(* the tables of jobs, nodes, alerts and the others are listed.            *)
(***************************************************************************)
EXTENDS JobLifecycle, Paging, OrderedProofs

-----------------------------------------------------------------------------
(* The jobs over the queue, for any tasks, workers and processes and any   *)
(* placement of the workers.  The two halves of ActiveIsRuns hold each     *)
(* other up only with the knowledge that a calm task has one run at a      *)
(* time; TablesAgree needs, on top of that, to follow the status of a job  *)
(* from the write of complete to the write of CompleteTask.                *)

\* A run has a task, which was submitted; an idle worker has none.
RunsHaveTasks ==
    \A w \in Workers : IF pc[w] = "poll" THEN job[w] = NoTask
                       ELSE job[w] \in Tasks /\ phase[job[w]] # "absent"

\* Submit writes the row of jobs before the row of task_queue.
RowFirst == \A t \in Tasks : submit[t] \in {"none", "saved"} => phase[t] = "absent"

\* A calm task has at most one run.
OneRun == \A v, w \in Workers :
             pc[v] # "poll" /\ pc[w] # "poll" /\ job[v] = job[w] /\ calm[job[v]] => v = w

\* The status that complete wrote is there until CompleteTask, and stays.
ResultKept ==
    /\ \A w \in Workers :
          /\ pc[w] = "complete" \/ (pc[w] = "leave" /\ result[w] = "completed")
          /\ calm[job[w]]
          => row[job[w]] = "completed"
    /\ \A t \in Tasks : phase[t] = "completed" /\ calm[t] =>
          row[t] = "completed" /\ \A w \in Workers : job[w] # t

LInv == TypeOK /\ RunsHaveTasks /\ RowFirst /\ OneRun /\ ActiveIsRuns /\ ResultKept

USE DEF queueVars, runVars, Registered, Running, Phases, JobStatus
-----------------------------------------------------------------------------
\* Before anything is submitted the invariant holds.
LEMMA InitInv == Init => LInv
BY LifecycleAssumption
DEF Init, CInit, LInv, TypeOK, RunsHaveTasks, RowFirst, OneRun, ActiveIsRuns, ResultKept

\* SaveJob and updateJob write one row of jobs, or none.
LEMMA UpdateJobEffect ==
    ASSUME TypeOK, NEW t \in Tasks, NEW st \in JobStatus, UpdateJob(t, st)
    PROVE  /\ row' \in [Tasks -> JobStatus]
           /\ row'[t] \in {st, row[t]}
           /\ \A u \in Tasks \ {t} : row'[u] = row[u]
<1>1. CASE SaveJob(t, st)
  BY <1>1, Zenon DEF TypeOK, SaveJob
<1>2. CASE UNCHANGED row
  BY <1>2, Zenon DEF TypeOK
<1> QED
  BY <1>1, <1>2, Zenon DEF UpdateJob

\* A step that moves no run and writes neither of the two rows of a task.
LEMMA RunsAlone ==
    ASSUME LInv, UNCHANGED <<phase, row, pc, job, result, active, calm>>
    PROVE  RunsHaveTasks' /\ OneRun' /\ ActiveIsRuns' /\ ResultKept'
BY DEF LInv, RunsHaveTasks, OneRun, ActiveIsRuns, ResultKept

\* A step that leaves the runs alone keeps what only speaks of them.
LEMMA RunsUnchanged ==
    ASSUME LInv, UNCHANGED <<pc, job, active>>, \A t \in Tasks : calm'[t] => calm[t]
    PROVE  OneRun' /\ ActiveIsRuns'
<1>1. \A w \in Workers : pc[w] # "poll" => job[w] \in Tasks
  BY Zenon DEF LInv, RunsHaveTasks
<1>2. OneRun'
  BY <1>1, Zenon DEF LInv, OneRun
<1>3. ActiveIsRuns'
  BY <1>1 DEF LInv, TypeOK, ActiveIsRuns
<1> QED
  BY <1>2, <1>3, Zenon

\* Service.Submit, the expiry of leases, and the two halves of canceling a task.
LEMMA TaskStepInv ==
    ASSUME LInv, NEW t \in Tasks, TaskStep(t)
    PROVE  LInv'
<1> USE LifecycleAssumption
<1>1. CASE SaveNewJob(t)
  <2>1. /\ row' \in [Tasks -> JobStatus]
        /\ \A u \in Tasks \ {t} : row'[u] = row[u]
    BY <1>1, UpdateJobEffect, Zenon DEF LInv, SaveNewJob, UpdateJob
  <2>2. PICK to \in {"saved", "done"} : submit' = [submit EXCEPT ![t] = to]
    BY <1>1, Zenon DEF SaveNewJob
  <2>3. TypeOK' /\ RunsHaveTasks' /\ OneRun' /\ ActiveIsRuns'
    BY <1>1, <2>1, <2>2, RunsUnchanged, ZenonT(30) DEF LInv, TypeOK, RunsHaveTasks, SaveNewJob
  <2>4. RowFirst'
    BY <1>1 DEF LInv, TypeOK, RowFirst, SaveNewJob
  <2>5. ResultKept'
    BY <1>1, <2>1 DEF LInv, TypeOK, RunsHaveTasks, RowFirst, ResultKept, SaveNewJob
  <2> QED
    BY <2>3, <2>4, <2>5, Zenon DEF LInv
<1>2. CASE EnqueueTask(t)
  <2>1. /\ row' \in [Tasks -> JobStatus]
        /\ \A u \in Tasks \ {t} : row'[u] = row[u]
    BY <1>2, UpdateJobEffect, Zenon DEF LInv, EnqueueTask, UpdateJob
  <2>2. PICK to \in {"queued", "done"} : submit' = [submit EXCEPT ![t] = to]
    BY <1>2, Zenon DEF EnqueueTask
  <2>3. phase' \in [Tasks -> Phases]
    BY <1>2, Zenon DEF LInv, TypeOK, EnqueueTask
  <2>4. TypeOK' /\ OneRun' /\ ActiveIsRuns'
    BY <1>2, <2>1, <2>2, <2>3, RunsUnchanged, ZenonT(30) DEF LInv, TypeOK, EnqueueTask
  <2>5. RunsHaveTasks' /\ RowFirst'
    <3>1. /\ \A u \in Tasks : phase'[u] \in {phase[u], "queued"}
          /\ \A u \in Tasks \ {t} : phase'[u] = phase[u] /\ submit'[u] = submit[u]
          /\ submit'[t] \in {"queued", "done"}
      BY <1>2, <2>2 DEF LInv, TypeOK, EnqueueTask
    <3>2. UNCHANGED <<pc, job>>
      BY <1>2, Zenon DEF EnqueueTask
    <3>3. RunsHaveTasks'
      BY <3>1, <3>2, Zenon DEF LInv, RunsHaveTasks
    <3>4. RowFirst'
      BY <3>1, Zenon DEF LInv, RowFirst
    <3> QED
      BY <3>3, <3>4, Zenon
  <2>6. ResultKept'
    BY <1>2, <2>1 DEF LInv, TypeOK, RunsHaveTasks, RowFirst, ResultKept, EnqueueTask
  <2> QED
    BY <2>4, <2>5, <2>6, Zenon DEF LInv
<1>3. CASE MarkQueued(t)
  <2>1. row' \in [Tasks -> JobStatus] /\ \A u \in Tasks \ {t} : row'[u] = row[u]
    BY <1>3, UpdateJobEffect, Zenon DEF LInv, MarkQueued
  <2>2. /\ calm' \in [Tasks -> BOOLEAN]
        /\ \A u \in Tasks : calm'[u] => calm[u]
        /\ calm'[t] => row[t] = "pending"
    BY <1>3, Zenon DEF LInv, TypeOK, MarkQueued
  <2>3. TypeOK' /\ RunsHaveTasks' /\ RowFirst' /\ OneRun' /\ ActiveIsRuns'
    BY <1>3, <2>1, <2>2, RunsUnchanged, SMTT(30) DEF LInv, TypeOK, RunsHaveTasks, RowFirst, MarkQueued
  <2>4. ResultKept'
    <3>1. UNCHANGED <<pc, job, result, phase>>
      BY <1>3, Zenon DEF MarkQueued
    <3>2. \A w \in Workers : pc[w] \in {"leave", "complete"} => job[w] \in Tasks
      BY Zenon DEF LInv, RunsHaveTasks
    <3>3. calm'[t] => ~(/\ phase[t] = "completed"
                        /\ calm[t])
      BY <2>2, Zenon DEF LInv, ResultKept
    <3> QED
      BY <2>1, <2>2, <3>1, <3>2, <3>3, SMTT(30) DEF LInv, ResultKept
  <2> QED
    BY <2>3, <2>4, Zenon DEF LInv
<1>4. CASE Expire(t)
  <2>1. TypeOK' /\ RunsHaveTasks' /\ RowFirst' /\ OneRun' /\ ActiveIsRuns'
    BY <1>4, RunsUnchanged, Zenon DEF LInv, TypeOK, RunsHaveTasks, RowFirst, Expire
  <2>2. ResultKept'
    BY <1>4, Zenon DEF LInv, TypeOK, ResultKept, Expire
  <2> QED
    BY <2>1, <2>2, Zenon DEF LInv
<1>5. CASE CancelJobID(t)
  BY <1>5, RunsAlone, Zenon DEF LInv, TypeOK, RowFirst, CancelJobID, Cut
<1>6. CASE CancelTask(t)
  <2>1. TypeOK' /\ OneRun' /\ ActiveIsRuns'
    BY <1>6, RunsUnchanged, ZenonT(30) DEF LInv, TypeOK, CancelTask
  <2>2. RunsHaveTasks' /\ RowFirst'
    BY <1>6 DEF LInv, TypeOK, RunsHaveTasks, RowFirst, CancelTask, Cancelable
  <2>3. ResultKept'
    BY <1>6 DEF LInv, TypeOK, ResultKept, CancelTask
  <2> QED
    BY <2>2, <2>3, <2>1, Zenon DEF LInv
<1> QED
  BY <1>1, <1>2, <1>3, <1>4, <1>5, <1>6, ZenonT(30) DEF TaskStep

\* A worker leases a task: the only step that starts a run.
LEMMA LeaseInv ==
    ASSUME LInv, NEW w \in Workers, NEW t \in Tasks, LeaseTask(w, t)
    PROVE  LInv'
<1> USE LifecycleAssumption
<1>1. TypeOK'
  BY DEF LInv, TypeOK, LeaseTask, AttemptLeft
<1>2. RunsHaveTasks' /\ RowFirst'
  BY DEF LInv, TypeOK, RunsHaveTasks, RowFirst, LeaseTask
<1>3. /\ pc[w] = "poll" /\ job[w] = NoTask
      /\ \A v \in Workers \ {w} : pc'[v] = pc[v] /\ job'[v] = job[v]
      /\ job'[w] = t /\ pc'[w] = "start"
      /\ \A u \in Tasks : calm'[u] => calm[u]
      /\ calm'[t] => \A v \in Workers \ {w} : pc[v] # "poll" => job[v] # t
      /\ UNCHANGED <<row, result, active>>
  BY ZenonT(30) DEF LInv, TypeOK, RunsHaveTasks, LeaseTask, Others
<1>4. \A v \in Workers : pc[v] # "poll" => job[v] \in Tasks
  BY Zenon DEF LInv, RunsHaveTasks
<1>5. OneRun'
  BY <1>3, <1>4 DEF LInv, OneRun
<1>6. ActiveIsRuns'
  <2>1. \A p \in Processes, u \in Tasks : active[p][u] \in Workers \cup {NoWorker}
    BY DEF LInv, TypeOK
  <2>2. \A p \in Processes, u \in Tasks : active[p][u] # w
    BY <1>3 DEF LInv, ActiveIsRuns
  <2> QED
    BY <1>3, <1>4, <2>1, <2>2, SMTT(30) DEF LInv, ActiveIsRuns
<1>7. ResultKept'
  <2>1. phase' = [phase EXCEPT ![t] = "running"]
    BY Zenon DEF LeaseTask
  <2> QED
    BY <1>3, <1>4, <2>1 DEF LInv, TypeOK, ResultKept
<1> QED
  BY <1>1, <1>2, <1>5, <1>6, <1>7, ZenonT(30) DEF LInv

\* A run that moves on by itself: its task is the same, and so is every other run.
LEMMA RunMoves ==
    ASSUME LInv, NEW w \in Workers, NEW to \in Running, pc[w] # "poll",
           pc' = [pc EXCEPT ![w] = to], UNCHANGED <<phase, submit, job>>,
           \A t \in Tasks : calm'[t] => calm[t]
    PROVE  /\ pc' \in [Workers -> {"poll"} \cup Running]
           /\ RunsHaveTasks' /\ RowFirst' /\ OneRun'
           /\ job[w] \in Tasks
           /\ \A v \in Workers \ {w} : pc[v] # "poll" /\ calm'[job[w]] => job[v] # job[w]
<1>1. pc'[w] = to /\ \A v \in Workers \ {w} : pc'[v] = pc[v]
  BY Zenon DEF LInv, TypeOK
<1>2. \A v \in Workers : pc[v] # "poll" => job[v] \in Tasks
  BY Zenon DEF LInv, RunsHaveTasks
<1>3. pc' \in [Workers -> {"poll"} \cup Running] /\ RunsHaveTasks' /\ RowFirst'
  BY <1>1 DEF LInv, TypeOK, RunsHaveTasks, RowFirst
<1>4. OneRun'
  BY <1>1, <1>2 DEF LInv, OneRun
<1>5. \A v \in Workers \ {w} : pc[v] # "poll" /\ calm'[job[w]] => job[v] # job[w]
  BY <1>2, Zenon DEF LInv, OneRun
<1> QED
  BY <1>2, <1>3, <1>4, <1>5, ZenonT(30)

\* A run that enters itself in active, or deletes the entry of its task.
LEMMA EntryWritten ==
    ASSUME LInv, NEW w \in Workers, job[w] \in Tasks, NEW to \in Running, NEW e \in {w, NoWorker},
           pc' = [pc EXCEPT ![w] = to], UNCHANGED <<job, calm>>,
           active' = [active EXCEPT ![Home[w]][job[w]] = e],
           to \in Registered <=> e = w,
           pc[w] \notin Registered \/ e = NoWorker,
           \A v \in Workers \ {w} : pc[v] # "poll" /\ calm[job[w]] => job[v] # job[w]
    PROVE  ActiveIsRuns' /\ active' \in [Processes -> [Tasks -> Workers \cup {NoWorker}]]
<1> USE LifecycleAssumption
<1>1. /\ active' \in [Processes -> [Tasks -> Workers \cup {NoWorker}]]
      /\ \A p \in Processes, t \in Tasks :
            active'[p][t] = IF p = Home[w] /\ t = job[w] THEN e ELSE active[p][t]
  BY ZenonT(30) DEF LInv, TypeOK
<1>2. pc'[w] = to /\ \A v \in Workers \ {w} : pc'[v] = pc[v]
  BY Zenon DEF LInv, TypeOK
<1>3. ASSUME NEW p \in Processes, NEW t \in Tasks, active'[p][t] # NoWorker
      PROVE  LET v == active'[p][t] IN Home[v] = p /\ pc'[v] \in Registered /\ job'[v] = t
  <2>1. CASE p = Home[w] /\ t = job[w]
    BY <1>1, <1>2, <1>3, <2>1, SMTT(30)
  <2>2. CASE ~(p = Home[w] /\ t = job[w])
    <3> DEFINE v == active[p][t]
    <3>1. active'[p][t] = v /\ v # NoWorker
      BY <1>1, <1>3, <2>2, Zenon
    <3>2. v \in Workers /\ Home[v] = p /\ pc[v] \in Registered /\ job[v] = t
      BY <3>1 DEF LInv, TypeOK, ActiveIsRuns
    <3>3. v # w
      BY <2>2, <3>2, Zenon
    <3> QED
      BY <1>2, <3>1, <3>2, <3>3, ZenonT(30)
  <2> QED
    BY <2>1, <2>2, Zenon
<1>4. ASSUME NEW v \in Workers, pc'[v] \in Registered, calm'[job'[v]]
      PROVE  active'[Home[v]][job'[v]] = v
  <2>1. CASE v = w
    BY <1>1, <1>2, <1>4, <2>1, Zenon
  <2>2. CASE v # w
    <3>1. pc[v] \in Registered /\ calm[job[v]]
      BY <1>2, <1>4, <2>2, Zenon
    <3>2. job[v] \in Tasks /\ active[Home[v]][job[v]] = v
      BY <3>1, Zenon DEF LInv, RunsHaveTasks, ActiveIsRuns
    <3>3. job[v] # job[w]
      BY <2>2, <3>1, Zenon
    <3> QED
      BY <1>1, <3>2, <3>3, ZenonT(30)
  <2> QED
    BY <2>1, <2>2, Zenon
<1> QED
  BY <1>1, <1>3, <1>4, ZenonT(30) DEF ActiveIsRuns

\* Service.RunQueuedTask, and the heartbeat that cancels it.
LEMMA RunInv ==
    ASSUME LInv, NEW w \in Workers,
           LoseLease(w) \/ StartNow(w) \/ SaveRun(w) \/ Begin(w) \/ Finish(w) \/ Leave(w)
    PROVE  LInv'
<1> USE LifecycleAssumption
<1>1. CASE LoseLease(w)
  BY <1>1, RunsAlone, Zenon DEF LInv, TypeOK, RowFirst, LoseLease
<1>2. CASE StartNow(w)
  <2>1. /\ pc[w] = "start" /\ pc' = [pc EXCEPT ![w] = "save"]
        /\ active' = [active EXCEPT ![Home[w]][job[w]] = w]
        /\ UNCHANGED <<queueVars, row, submit, aborting, job, live, result, calm>>
    BY <1>2, Zenon DEF StartNow, Step
  <2>2. /\ pc' \in [Workers -> {"poll"} \cup Running]
        /\ RunsHaveTasks' /\ RowFirst' /\ OneRun' /\ job[w] \in Tasks
        /\ \A v \in Workers \ {w} : pc[v] # "poll" /\ calm[job[w]] => job[v] # job[w]
    BY <2>1, RunMoves, Zenon
  <2>3. ActiveIsRuns' /\ active' \in [Processes -> [Tasks -> Workers \cup {NoWorker}]]
    BY <2>1, <2>2, EntryWritten, Zenon
  <2>4. TypeOK'
    BY <2>1, <2>2, <2>3, ZenonT(30) DEF LInv, TypeOK
  <2>5. ResultKept'
    BY <2>1 DEF LInv, TypeOK, ResultKept
  <2> QED
    BY <2>2, <2>3, <2>4, <2>5, ZenonT(30) DEF LInv
<1>3. CASE SaveRun(w) \/ Begin(w)
  <2>1. PICK to \in {"begin", "work"}, st \in {"pending", "running"} :
           /\ pc[w] \in {"save", "begin", "work"} /\ pc' = [pc EXCEPT ![w] = to]
           /\ UpdateJob(job[w], st)
           /\ UNCHANGED <<queueVars, submit, aborting, job, live, result, active, calm>>
    BY <1>3, Zenon DEF SaveRun, Begin, Step
  <2>2. /\ pc' \in [Workers -> {"poll"} \cup Running]
        /\ RunsHaveTasks' /\ RowFirst' /\ OneRun' /\ job[w] \in Tasks
        /\ \A v \in Workers \ {w} : pc[v] # "poll" /\ calm[job[w]] => job[v] # job[w]
    BY <2>1, RunMoves, Zenon
  <2>3. row' \in [Tasks -> JobStatus] /\ \A u \in Tasks \ {job[w]} : row'[u] = row[u]
    <3>1. TypeOK /\ st \in JobStatus
      BY <2>1, Zenon DEF LInv, JobStatus
    <3> QED
      BY <2>1, <2>2, <3>1, UpdateJobEffect, Zenon
  <2>4. pc'[w] = to /\ \A v \in Workers \ {w} : pc'[v] = pc[v]
    BY <2>1, Zenon DEF LInv, TypeOK
  <2>5. TypeOK'
    BY <2>1, <2>2, <2>3, ZenonT(30) DEF LInv, TypeOK
  <2>6. ActiveIsRuns'
    BY <2>1, <2>4, SMTT(30) DEF LInv, TypeOK, ActiveIsRuns
  <2>7. ResultKept'
    BY <2>1, <2>2, <2>3, <2>4, SMTT(30) DEF LInv, RunsHaveTasks, ResultKept
  <2> QED
    BY <2>2, <2>5, <2>6, <2>7, ZenonT(30) DEF LInv
<1>4. CASE Finish(w)
  <2>1. PICK st \in {"completed", "failed", "canceled"} :
           /\ pc[w] = "work" /\ pc' = [pc EXCEPT ![w] = "leave"]
           /\ result' = [result EXCEPT ![w] = st]
           /\ \/ SaveJob(job[w], st) /\ UNCHANGED calm
              \/ calm' = [calm EXCEPT ![job[w]] = FALSE] /\ UNCHANGED row
           /\ UNCHANGED <<queueVars, submit, aborting, job, live, active>>
    BY <1>4, Zenon DEF Finish, Step
  <2>2. job[w] \in Tasks
    BY <2>1, ZenonT(30) DEF LInv, RunsHaveTasks
  <2>3. /\ calm' \in [Tasks -> BOOLEAN]
        /\ \A u \in Tasks : calm'[u] => calm[u]
        /\ \A u \in Tasks \ {job[w]} : calm'[u] = calm[u]
    <3>1. CASE UNCHANGED calm
      BY <3>1, Zenon DEF LInv, TypeOK
    <3>2. CASE calm' = [calm EXCEPT ![job[w]] = FALSE]
      BY <2>2, <3>2, Zenon DEF LInv, TypeOK
    <3> QED
      BY <2>1, <3>1, <3>2, ZenonT(30)
  <2>4. /\ row' \in [Tasks -> JobStatus]
        /\ \A u \in Tasks \ {job[w]} : row'[u] = row[u]
        /\ calm'[job[w]] => row'[job[w]] = st
    <3>1. CASE SaveJob(job[w], st)
      BY <2>2, <3>1, SMTT(30) DEF SaveJob, LInv, TypeOK
    <3>2. CASE calm' = [calm EXCEPT ![job[w]] = FALSE] /\ UNCHANGED row
      BY <2>2, <3>2, Zenon DEF LInv, TypeOK
    <3> QED
      BY <2>1, <3>1, <3>2, ZenonT(30)
  <2>5. /\ pc' \in [Workers -> {"poll"} \cup Running]
        /\ RunsHaveTasks' /\ RowFirst' /\ OneRun'
        /\ \A v \in Workers \ {w} : pc[v] # "poll" /\ calm'[job[w]] => job[v] # job[w]
    BY <2>1, <2>3, RunMoves, Zenon
  <2>6. /\ pc'[w] = "leave" /\ result'[w] = st
        /\ \A v \in Workers \ {w} : pc'[v] = pc[v] /\ result'[v] = result[v]
    BY <2>1, Zenon DEF LInv, TypeOK
  <2>7. TypeOK'
    BY <2>1, <2>3, <2>4, <2>5, ZenonT(30) DEF LInv, TypeOK
  <2>8. ActiveIsRuns'
    <3>1. \A v \in Workers : pc[v] # "poll" => job[v] \in Tasks
      BY Zenon DEF LInv, RunsHaveTasks
    <3> QED
      BY <2>1, <2>3, <2>6, <3>1, SMTT(30) DEF LInv, TypeOK, ActiveIsRuns
  <2>9. ResultKept'
    <3>1. ASSUME NEW v \in Workers,
                 pc'[v] = "complete" \/ (pc'[v] = "leave" /\ result'[v] = "completed"),
                 calm'[job'[v]]
          PROVE  row'[job'[v]] = "completed"
      <4>1. CASE v = w
        BY <2>1, <2>4, <2>6, <3>1, <4>1, ZenonT(30)
      <4>2. CASE v # w
        <5>1. job[v] \in Tasks
          BY <2>6, <3>1, <4>2, ZenonT(30) DEF LInv, RunsHaveTasks
        <5>2. row[job[v]] = "completed" /\ job[v] # job[w]
          BY <2>1, <2>3, <2>5, <2>6, <3>1, <4>2, <5>1, SMTT(30) DEF LInv, ResultKept
        <5> QED
          BY <2>1, <2>4, <5>1, <5>2, ZenonT(30)
      <4> QED
        BY <4>1, <4>2, Zenon
    <3>2. ASSUME NEW t \in Tasks, phase'[t] = "completed", calm'[t]
          PROVE  row'[t] = "completed" /\ \A v \in Workers : job'[v] # t
      <4>1. phase[t] = "completed" /\ calm[t] /\ job' = job
        BY <2>1, <2>3, <3>2, Zenon
      <4>2. row[t] = "completed" /\ \A v \in Workers : job[v] # t
        BY <4>1, Zenon DEF LInv, ResultKept
      <4> QED
        BY <2>4, <4>1, <4>2, Zenon
    <3> QED
      BY <3>1, <3>2, Zenon DEF ResultKept
  <2> QED
    BY <2>5, <2>7, <2>8, <2>9, ZenonT(30) DEF LInv
<1>5. CASE Leave(w)
  <2>1. PICK to \in {"complete", "fail"} :
           /\ pc[w] = "leave" /\ pc' = [pc EXCEPT ![w] = to]
           /\ to = "complete" => result[w] = "completed"
           /\ active' = [active EXCEPT ![Home[w]][job[w]] = NoWorker]
           /\ UNCHANGED <<queueVars, row, submit, aborting, job, live, result, calm>>
    BY <1>5, Zenon DEF Leave, Step
  <2>2. /\ pc' \in [Workers -> {"poll"} \cup Running]
        /\ RunsHaveTasks' /\ RowFirst' /\ OneRun' /\ job[w] \in Tasks
        /\ \A v \in Workers \ {w} : pc[v] # "poll" /\ calm[job[w]] => job[v] # job[w]
    BY <2>1, RunMoves, Zenon
  <2>3. ActiveIsRuns' /\ active' \in [Processes -> [Tasks -> Workers \cup {NoWorker}]]
    BY <2>1, <2>2, EntryWritten, Zenon
  <2>4. pc'[w] = to /\ \A v \in Workers \ {w} : pc'[v] = pc[v]
    BY <2>1, Zenon DEF LInv, TypeOK
  <2>5. TypeOK'
    BY <2>1, <2>2, <2>3, ZenonT(30) DEF LInv, TypeOK
  <2>6. ResultKept'
    BY <2>1, <2>4, Zenon DEF LInv, ResultKept
  <2> QED
    BY <2>2, <2>3, <2>5, <2>6, ZenonT(30) DEF LInv
<1> QED
  BY <1>1, <1>2, <1>3, <1>4, <1>5, ZenonT(30)

\* CompleteTask or FailTask at the end of queue.run.
LEMMA FinishTaskInv ==
    ASSUME LInv, NEW w \in Workers, FinishTask(w)
    PROVE  LInv'
<1> USE LifecycleAssumption
<1>1. /\ pc[w] \in {"complete", "fail"} /\ pc' = [pc EXCEPT ![w] = "poll"]
      /\ job' = [job EXCEPT ![w] = NoTask]
      /\ live' = [live EXCEPT ![w] = TRUE] /\ result' = [result EXCEPT ![w] = "absent"]
      /\ UNCHANGED <<tries, row, submit, aborting, active, calm>>
  BY ZenonT(30) DEF FinishTask, Step, Idle
<1>2. job[w] \in Tasks /\ phase[job[w]] # "absent"
  BY <1>1, Zenon DEF LInv, RunsHaveTasks
<1>3. PICK to \in {"completed", "queued", "dead"} :
         /\ to = "completed" => pc[w] = "complete"
         /\ \/ Holds(w, job[w]) /\ phase' = [phase EXCEPT ![job[w]] = to]
                                /\ holder' = [holder EXCEPT ![job[w]] = NoWorker]
            \/ UNCHANGED <<phase, holder>>
  BY Zenon DEF FinishTask
<1>4. /\ phase' \in [Tasks -> Phases] /\ holder' \in [Tasks -> Workers \cup {NoWorker}]
      /\ phase'[job[w]] \in {to, phase[job[w]]}
      /\ \A t \in Tasks \ {job[w]} : phase'[t] = phase[t]
  <2>1. CASE phase' = [phase EXCEPT ![job[w]] = to] /\ holder' = [holder EXCEPT ![job[w]] = NoWorker]
    BY <1>2, <2>1, Zenon DEF LInv, TypeOK
  <2>2. CASE UNCHANGED <<phase, holder>>
    BY <1>2, <2>2, Zenon DEF LInv, TypeOK
  <2> QED
    BY <1>3, <2>1, <2>2, ZenonT(30)
<1>5. /\ pc'[w] = "poll" /\ job'[w] = NoTask
      /\ \A v \in Workers \ {w} : pc'[v] = pc[v] /\ job'[v] = job[v] /\ result'[v] = result[v]
  BY <1>1, Zenon DEF LInv, TypeOK
<1>6. TypeOK'
  BY <1>1, <1>4, Zenon DEF LInv, TypeOK
<1>7. RunsHaveTasks'
  BY <1>2, <1>4, <1>5, SMTT(30) DEF LInv, RunsHaveTasks
<1>8. RowFirst'
  BY <1>1, <1>2, <1>4, ZenonT(30) DEF LInv, RowFirst
<1>9. OneRun'
  BY <1>1, <1>5 DEF LInv, OneRun
<1>10. ActiveIsRuns'
  <2>1. \A p \in Processes, t \in Tasks : active[p][t] # w
    BY <1>1 DEF LInv, ActiveIsRuns
  <2>2. \A p \in Processes, t \in Tasks : active[p][t] \in Workers \cup {NoWorker}
    BY DEF LInv, TypeOK
  <2> QED
    BY <1>1, <1>5, <2>1, <2>2, SMTT(30) DEF LInv, ActiveIsRuns
<1>11. ResultKept'
  <2>1. ASSUME NEW v \in Workers,
               pc'[v] = "complete" \/ (pc'[v] = "leave" /\ result'[v] = "completed"),
               calm'[job'[v]]
        PROVE  row'[job'[v]] = "completed"
    BY <1>1, <1>5, <2>1, SMTT(30) DEF LInv, ResultKept
  <2>2. ASSUME NEW t \in Tasks, phase'[t] = "completed", calm'[t]
        PROVE  row'[t] = "completed" /\ \A v \in Workers : job'[v] # t
    <3>1. CASE phase[t] = "completed"
      BY <1>1, <1>5, <2>2, <3>1, SMTT(30) DEF LInv, ResultKept
    <3>2. CASE phase[t] # "completed"
      <4>1. t = job[w] /\ pc[w] = "complete"
        BY <1>3, <1>4, <2>2, <3>2, ZenonT(30)
      <4>2. \A v \in Workers \ {w} : job[v] # t
        <5>1. \A v \in Workers : job[v] = t => pc[v] # "poll"
          BY Zenon DEF LInv, RunsHaveTasks
        <5> QED
          BY <1>1, <2>2, <4>1, <5>1, ZenonT(30) DEF LInv, OneRun
      <4> QED
        BY <1>1, <1>5, <2>2, <4>1, <4>2, SMTT(30) DEF LInv, ResultKept
    <3> QED
      BY <3>1, <3>2, Zenon
  <2> QED
    BY <2>1, <2>2, Zenon DEF ResultKept
<1> QED
  BY <1>6, <1>7, <1>8, <1>9, <1>10, <1>11, ZenonT(30) DEF LInv

\* Queue.Stop, and the death of a process, which takes its runs along.
LEMMA ProcessInv ==
    ASSUME LInv, NEW p \in Processes, StopProcess(p) \/ CrashProcess(p)
    PROVE  LInv'
<1> USE LifecycleAssumption
<1>1. CASE StopProcess(p)
  BY <1>1, RunsAlone, Zenon DEF LInv, TypeOK, RowFirst, StopProcess, Cut
<1>2. CASE CrashProcess(p)
  <2>1. \A w \in Workers : \/ /\ Home[w] = p /\ pc'[w] = "poll" /\ job'[w] = NoTask
                           \/ /\ Home[w] # p /\ pc'[w] = pc[w] /\ job'[w] = job[w]
                              /\ result'[w] = result[w]
    BY <1>2, Zenon DEF CrashProcess, Here
  <2>2. UNCHANGED <<phase, row, calm>>
    BY <1>2, Zenon DEF CrashProcess
  <2>3. \A t \in Tasks : submit'[t] \in {submit[t], "done"}
    BY <1>2, Zenon DEF LInv, TypeOK, CrashProcess
  <2>4. TypeOK'
    BY <1>2, SMTT(30) DEF LInv, TypeOK, CrashProcess, Here
  <2>5. RunsHaveTasks' /\ RowFirst'
    BY <2>1, <2>2, <2>3, ZenonT(30) DEF LInv, RunsHaveTasks, RowFirst
  <2>6. OneRun'
    <3> SUFFICES ASSUME NEW v \in Workers, NEW w \in Workers, pc'[v] # "poll", pc'[w] # "poll",
                        job'[v] = job'[w], calm'[job'[v]]
                 PROVE  v = w
      BY Zenon DEF OneRun
    <3>1. pc[v] # "poll" /\ pc[w] # "poll" /\ job[v] = job[w] /\ calm[job[v]]
      BY <2>1, <2>2, Zenon
    <3> QED
      BY <3>1, Zenon DEF LInv, OneRun
  <2>7. ActiveIsRuns'
    <3>1. \A q \in Processes, t \in Tasks :
             active'[q][t] = IF q = p THEN NoWorker ELSE active[q][t]
      BY <1>2, Zenon DEF LInv, TypeOK, CrashProcess
    <3>2. \A q \in Processes, t \in Tasks : active[q][t] \in Workers \cup {NoWorker}
      BY SMTT(30) DEF LInv, TypeOK
    <3>3. \A v \in Workers : pc[v] # "poll" => job[v] \in Tasks
      BY Zenon DEF LInv, RunsHaveTasks
    <3> QED
      BY <2>1, <2>2, <3>1, <3>2, <3>3, SMTT(30) DEF LInv, ActiveIsRuns
  <2>8. ResultKept'
    BY <2>1, <2>2 DEF LInv, ResultKept
  <2> QED
    BY <2>4, <2>5, <2>6, <2>7, <2>8, ZenonT(30) DEF LInv
<1> QED
  BY <1>1, <1>2, Zenon

\* Every step keeps the invariant.
LEMMA NextInv == LInv /\ [Next]_vars => LInv'
<1> SUFFICES ASSUME LInv, [Next]_vars PROVE LInv'
  BY Zenon
<1>1. ASSUME NEW w \in Workers, WorkerStep(w) PROVE LInv'
  BY <1>1, LeaseInv, RunInv, FinishTaskInv, ZenonT(30) DEF WorkerStep
<1>2. CASE CancelJob
  BY <1>2, RunsAlone, Zenon DEF LInv, TypeOK, RowFirst, CancelJob, Cut
<1>3. CASE UNCHANGED vars
  BY <1>3, RunsAlone, Zenon DEF LInv, TypeOK, RowFirst, vars
<1> QED
  BY <1>1, <1>2, <1>3, TaskStepInv, ProcessInv, ZenonT(30) DEF Next

\* The strengthened invariant holds in every reachable state.
THEOREM Invariance == Spec => []LInv
BY InitInv, NextInv, PTL DEF Spec

\* Service.active names exactly the runs: a cancel never reaches the run of
\* another task, and reaches every run whose task was never run twice at once.
THEOREM ActiveExact == Spec => []ActiveIsRuns
BY Invariance, PTL DEF LInv

\* The status of the job and the status of the queue row agree on completion.
THEOREM StatusAgrees == Spec => []TablesAgree
<1>1. LInv => TablesAgree
  BY Zenon DEF LInv, ResultKept, TablesAgree
<1> QED
  BY <1>1, Invariance, PTL
-----------------------------------------------------------------------------
\* An entry of active belongs to a run of its own that is past startNow, so a
\* process with a run still before startNow has fewer entries than workers.
LEMMA RoomForOne == LInv => NeverRefused
<1> SUFFICES ASSUME LInv, NEW w \in Workers, pc[w] = "start"
             PROVE  Load(Home[w]) < MaxJobs(Home[w])
  BY Zenon DEF NeverRefused
<1> DEFINE p == Home[w]
           named == {t \in Tasks : active[p][t] # NoWorker}
           free == Here(p) \ {w}
           f == [t \in named |-> active[p][t]]
<1>1. p \in Processes /\ w \in Here(p) /\ IsFiniteSet(Here(p))
  BY FS_Subset, LifecycleAssumption, Zenon DEF Here
<1>2. f \in Injection(named, free)
  <2>1. \A t \in named : active[p][t] \in free /\ job[active[p][t]] = t
    <3> TAKE t \in named
    <3>1. active[p][t] \in Workers
      BY <1>1 DEF LInv, TypeOK
    <3>2. Home[active[p][t]] = p /\ pc[active[p][t]] # "start" /\ job[active[p][t]] = t
      BY <1>1, <3>1, LifecycleAssumption, SMTT(30) DEF LInv, ActiveIsRuns
    <3> QED
      BY <3>1, <3>2, Zenon DEF Here
  <2> HIDE DEF named, free, p
  <2>2. f \in [named -> free]
    BY <2>1, Zenon
  <2>3. \A t, u \in named : f[t] = f[u] => t = u
    BY <2>1, Zenon
  <2> QED
    BY <2>2, <2>3, Zenon DEF Injection, IsInjective
<1>3. /\ IsFiniteSet(free) /\ Cardinality(free) = Cardinality(Here(p)) - 1
      /\ Cardinality(Here(p)) \in Nat
  BY <1>1, FS_RemoveElement, FS_CardinalityType, ZenonT(30)
<1>4. IsFiniteSet(named) /\ Cardinality(named) <= Cardinality(free)
  BY <1>2, <1>3, FS_Injection, Zenon
<1>5. Cardinality(named) \in Nat
  BY <1>4, FS_CardinalityType, Zenon
<1>6. Cardinality(named) < Cardinality(Here(p))
  BY <1>3, <1>4, <1>5, SMTT(30)
<1> QED
  BY <1>3, <1>5, <1>6, SMTT(30) DEF Load, MaxJobs

\* startNow never refuses a leased task for want of room, in any placement of the
\* workers, so no attempt is spent on a refusal.
THEOREM NothingRefused == Spec => []NeverRefused
BY Invariance, RoomForOne, PTL
-----------------------------------------------------------------------------
\* Submit, the runs, the cancel handlers, stops and crashes drive every row of
\* task_queue through the life cycle of its contract only.
THEOREM ContractKept == Spec => KeepsContract
<1>1. Init => CInit
  BY Zenon DEF Init
<1>2. LInv /\ LInv' /\ [Next]_vars => [CNext]_cvars
  <2> SUFFICES ASSUME LInv, LInv', [Next]_vars PROVE [CNext]_cvars
    BY Zenon
  <2> USE LifecycleAssumption
  <2>1. phase' \in [Tasks -> Phases] /\ tries' \in [Tasks -> 0..MaxAttempts]
    BY Zenon DEF LInv, TypeOK
  <2>2. ASSUME NEW t \in Tasks, NEW to, phase' = [phase EXCEPT ![t] = to], UNCHANGED tries,
               \/ phase[t] = "absent" /\ to = "queued"
               \/ /\ phase[t] = "running"
                  /\ \/ to = "completed"
                     \/ to = "queued" /\ tries[t] < MaxAttempts
                     \/ to = "dead" /\ tries[t] = MaxAttempts
               \/ phase[t] \in {"queued", "running"} /\ to = "canceled"
        PROVE  CNext
    <3>1. phase'[t] = to /\ \A u \in Tasks \ {t} : phase'[u] = phase[u]
      BY <2>2 DEF LInv, TypeOK
    <3> QED
      BY <2>1, <2>2, <3>1, ZenonT(30) DEF CNext, Moves, Submit, Complete, Retry, Bury, Cancel, Stay
  <2>3. \A t \in Tasks : ~AttemptLeft(t) => tries[t] = MaxAttempts
    <3>1. \A t \in Tasks : tries[t] \in 0..MaxAttempts
      BY ZenonT(30) DEF LInv, TypeOK
    <3> QED
      BY <3>1 DEF AttemptLeft
  <2>4. ASSUME NEW t \in Tasks, TaskStep(t) PROVE CNext \/ UNCHANGED cvars
    <3>1. CASE EnqueueTask(t)
      BY <2>2, <3>1, Zenon DEF EnqueueTask, LInv, RowFirst, cvars
    <3>2. CASE Expire(t)
      BY <2>2, <2>3, <3>2, Zenon DEF Expire, AttemptLeft
    <3>3. CASE CancelTask(t)
      BY <2>2, <3>3, Zenon DEF CancelTask, Cancelable, cvars
    <3> QED
      BY <2>4, <3>1, <3>2, <3>3, ZenonT(30) DEF TaskStep, SaveNewJob, MarkQueued, CancelJobID, cvars
  <2>5. ASSUME NEW w \in Workers, WorkerStep(w) PROVE CNext \/ UNCHANGED cvars
    <3>1. ASSUME NEW t \in Tasks, LeaseTask(w, t) PROVE CNext
      <4>1. /\ phase[t] \in {"queued", "running"} /\ tries[t] < MaxAttempts
            /\ phase'[t] = "running" /\ tries'[t] = tries[t] + 1
            /\ \A u \in Tasks \ {t} : phase'[u] = phase[u] /\ tries'[u] = tries[u]
        BY <3>1, SMTT(30) DEF LeaseTask, AttemptLeft, LInv, TypeOK
      <4> QED
        BY <2>1, <4>1, Zenon DEF CNext, Moves, Start, Stay
    <3>2. CASE FinishTask(w)
      <4>1. job[w] \in Tasks
        BY <3>2, Zenon DEF FinishTask, Step, LInv, RunsHaveTasks
      <4> QED
        BY <2>2, <2>3, <3>2, <4>1, ZenonT(30) DEF FinishTask, Holds, AttemptLeft, cvars
    <3> QED
      BY <2>5, <3>1, <3>2, ZenonT(30)
      DEF WorkerStep, LoseLease, StartNow, SaveRun, Begin, Finish, Leave, cvars
  <2> QED
    BY <2>4, <2>5, Zenon DEF Next, vars, cvars, CancelJob, StopProcess, CrashProcess
<1> QED
  BY <1>1, <1>2, Invariance, PTL DEF Spec, KeepsContract, CSpec

HIDE DEF queueVars, runVars, Registered, Running, Phases, JobStatus
-----------------------------------------------------------------------------
(* Walks over the pages of a list.                                         *)

PagingSpec == PagingInit /\ [][PagingNext]_pagingVars

\* The order of the list, and the rows that have a place in it.
Before(i, j) == CASE table \in {"jobs", "tokens", "tasks"} -> NewestFirst(i, j)
                  [] table \in {"audit", "memory_jobs"} -> NumberDown(i, j)
                  [] table = "users" -> NameUp(i, j)
                  [] table \in Alerts -> ActiveFirst(i, j)
                  [] table \in Scored -> BestFirst(i, j)
Order == {p \in RowIds \X RowIds : Before(p[1], p[2])}
Placed(i) == Exists(i) \/ table = "audit"

\* The cursors that are accepted, and the rows after one.
Found(c) == CASE table = "tasks" -> OwnTask(c)
              [] table = "audit" -> TRUE
              [] table \in {"jobs", "tokens", "users"} -> Own(c)
              [] table \in {"active", "nodes"} -> Shown(c)
              [] table \in {"alerts", "sources", "memory_jobs"} -> Exists(c)
After(c) == {i \in RowIds : Listed(i) /\ (c = 0 \/ Before(c, i))}

PagingTypeOK ==
    /\ table \in Tables
    /\ rows \in [RowIds -> Row \cup {Absent, Deleted}]
    /\ clock \in 0..MaxClock
    /\ walk \in [pc : {"idle", "more", "done", "refused"}, cursor : RowIds \cup {0},
                 got : [RowIds -> Nat], steady : SUBSET RowIds, moved : BOOLEAN]

\* A row that exists has its columns.
LEMMA RowExists ==
    ASSUME PagingTypeOK, NEW i \in RowIds
    PROVE  /\ Exists(i) <=> rows[i] \in Row
           /\ rows[i].at \in Int
           /\ Exists(i) => rows[i].own \in BOOLEAN /\ rows[i].shown \in BOOLEAN /\ rows[i].stored \in BOOLEAN
<1>1. \A r \in Row : r.at \in Nat
  BY PagingAssumption DEF Row
<1>2. Absent.at = -1 /\ Deleted.at = -2
  BY Zenon DEF Absent, Deleted
<1>3. Absent \notin Row /\ Deleted \notin Row
  BY <1>1, <1>2
<1>4. rows[i] \in Row \cup {Absent, Deleted}
  BY Zenon DEF PagingTypeOK
<1> QED
  BY <1>1, <1>2, <1>3, <1>4 DEF Exists, Row

\* The order is one of all rows that have a place.
LEMMA PlacedOrder ==
    ASSUME PagingTypeOK
    PROVE  /\ \A i, j \in RowIds : <<i, j>> \in Order <=> Before(i, j)
           /\ \A i \in RowIds : Placed(i) => ~Before(i, i)
           /\ \A i, j \in RowIds : Placed(i) /\ Placed(j) /\ i # j => Before(i, j) \/ Before(j, i)
           /\ \A i, j, k \in RowIds : Placed(i) /\ Placed(j) /\ Placed(k) /\ Before(i, j) /\ Before(j, k) => Before(i, k)
<1>1. RowIds \subseteq Nat
  BY PagingAssumption, Zenon
<1>2. \A i \in RowIds : /\ rows[i].at \in Int
                        /\ Exists(i) => rows[i].shown \in BOOLEAN
  BY RowExists, Zenon
<1>3. \A i, j \in RowIds : <<i, j>> \in Order <=> Before(i, j)
  BY Zenon DEF Order
<1>4. CASE table \in {"jobs", "tokens", "tasks"}
  <2>1. \A i, j : Before(i, j) <=> NewestFirst(i, j)
    BY <1>4, Zenon DEF Before, Alerts, Scored
  <2> QED
    BY <1>1, <1>2, <1>3, <2>1 DEF NewestFirst
<1>5. CASE table \in {"audit", "memory_jobs"}
  <2>1. \A i, j : Before(i, j) <=> NumberDown(i, j)
    BY <1>5, Zenon DEF Before, Alerts, Scored
  <2> QED
    BY <1>1, <1>3, <2>1 DEF NumberDown
<1>6. CASE table = "users"
  <2>1. \A i, j : Before(i, j) <=> NameUp(i, j)
    BY <1>6, Zenon DEF Before, Alerts, Scored
  <2> QED
    BY <1>1, <1>3, <2>1 DEF NameUp
<1>7. CASE table \in Alerts
  <2>1. \A i, j : Before(i, j) <=> ActiveFirst(i, j)
    BY <1>7, Zenon DEF Before, Alerts, Scored
  <2>2. \A i : Placed(i) => Exists(i)
    BY <1>7, Zenon DEF Placed, Alerts
  <2> QED
    BY <1>1, <1>2, <1>3, <2>1, <2>2 DEF ActiveFirst, NewestFirst
<1>8. CASE table \in Scored
  <2>1. \A i, j : Before(i, j) <=> BestFirst(i, j)
    BY <1>8, Zenon DEF Before, Alerts, Scored
  <2>2. \A i, j \in RowIds : i \in Nat /\ j \in Nat /\ rows[i].at \in Int /\ rows[j].at \in Int
    BY <1>1, <1>2, Zenon
  <2>3. \A i, j \in RowIds : ~BestFirst(i, i) /\ (i # j => BestFirst(i, j) \/ BestFirst(j, i))
    BY <2>2 DEF BestFirst
  <2>4. \A i, j, k \in RowIds : BestFirst(i, j) /\ BestFirst(j, k) => BestFirst(i, k)
    BY <2>2 DEF BestFirst
  <2> QED
    BY <1>3, <2>1, <2>3, <2>4, Zenon
<1> QED
  BY <1>4, <1>5, <1>6, <1>7, <1>8, PagingAssumption, Zenon DEF PagingTypeOK, Alerts, Scored

\* What a page is: the first rows after the cursor, and where the next one starts.
IsLast(S, i) == i \in S /\ \A j \in S \ {i} : <<j, i>> \in Order
PageIs(page, c, l) ==
    /\ page.ok <=> c = 0 \/ Found(c)
    /\ page.ok => /\ page.rows = FirstIn(Order, After(c), l)
                  /\ page.more <=> Cardinality(After(c)) > l
                  /\ page.more => IsLast(page.rows, page.next)
                  /\ ~page.more => page.next = 0

\* The rows after a cursor.
LEMMA AfterOrdered ==
    ASSUME PagingTypeOK, NEW c
    PROVE  /\ After(c) \in SUBSET RowIds /\ IsFiniteSet(After(c)) /\ Cardinality(After(c)) \in Nat
           /\ Orders(Order, After(c)) /\ Cardinality(After(c)) <= Cardinality(RowIds)
<1>1. After(c) \in SUBSET RowIds /\ \A i \in After(c) : i \in RowIds /\ Placed(i)
  BY Zenon DEF After, Listed, Placed
<1>2. IsFiniteSet(After(c)) /\ Cardinality(After(c)) <= Cardinality(RowIds) /\ Cardinality(After(c)) \in Nat
  BY <1>1, PagingAssumption, FS_Subset, FS_CardinalityType, Zenon
<1>3. Orders(Order, After(c))
  BY <1>1, PlacedOrder, Zenon DEF Orders
<1> QED
  BY <1>1, <1>2, <1>3, Zenon

\* Reading one row more than the page, or all rows, shows whether there are more.
LEMMA Window ==
    ASSUME PagingTypeOK, NEW c, NEW l \in Nat \ {0}, NEW limit \in Nat, NEW page,
           limit = l + 1 \/ Cardinality(After(c)) <= limit,
           page.ok <=> c = 0 \/ Found(c),
           page.ok => /\ page.rows = FirstIn(Order, FirstIn(Order, After(c), limit), l)
                      /\ page.more <=> Cardinality(FirstIn(Order, After(c), limit)) > l
                      /\ page.more /\ (\E i : IsLast(page.rows, i)) => IsLast(page.rows, page.next)
                      /\ ~page.more => page.next = 0
    PROVE  PageIs(page, c, l)
<1> DEFINE A == After(c)
<1>1. IsFiniteSet(A) /\ Cardinality(A) \in Nat /\ Orders(Order, A)
  BY AfterOrdered, Zenon
<1> HIDE DEF A
<1>2. Cardinality(FirstIn(Order, A, limit)) = IF Cardinality(A) <= limit THEN Cardinality(A) ELSE limit
  BY <1>1, FirstFacts
<1>3. FirstIn(Order, FirstIn(Order, A, limit), l) = FirstIn(Order, A, l)
  <2>1. CASE l <= limit
    BY <1>1, <2>1, FirstOfFirst
  <2>2. CASE ~(l <= limit)
    <3>1. Cardinality(A) <= limit
      BY <2>2 DEF A
    <3>2. FirstIn(Order, A, limit) = A
      BY <1>1, <3>1, FirstFacts, Zenon
    <3> QED
      BY <3>2, Zenon
  <2> QED
    BY <2>1, <2>2, Zenon
<1>4. Cardinality(FirstIn(Order, A, limit)) > l <=> Cardinality(A) > l
  <2>1. limit = l + 1 \/ Cardinality(A) <= limit
    BY Zenon DEF A
  <2> QED
    BY <1>1, <1>2, <2>1
<1>5. ASSUME Cardinality(A) > l
      PROVE  \E i : IsLast(FirstIn(Order, A, l), i)
  <2>1. FirstIn(Order, A, l) \in SUBSET A
    BY Zenon DEF FirstIn
  <2>2. IsFiniteSet(FirstIn(Order, A, l)) /\ Orders(Order, FirstIn(Order, A, l))
    BY <1>1, <2>1, FS_Subset, Zenon DEF Orders
  <2>3. Cardinality(FirstIn(Order, A, l)) = l
    BY <1>1, <1>5, FirstFacts
  <2>4. FirstIn(Order, A, l) # {}
    BY <2>3, FS_EmptySet, Zenon
  <2>5. \E i \in FirstIn(Order, A, l) : \A j \in FirstIn(Order, A, l) \ {i} : <<j, i>> \in Order
    BY <2>2, <2>4, LastExists, Zenon
  <2> QED
    BY <2>5, Zenon DEF IsLast
<1> QED
  BY <1>3, <1>4, <1>5, Zenon DEF PageIs, A

\* pageWindow, of what a query returned, whatever the order is called.
LEMMA OrderedSame ==
    ASSUME PagingTypeOK, NEW S \in SUBSET RowIds, NEW n
    PROVE  /\ table \in {"jobs", "tokens", "tasks"} =>
                 /\ First(S, NewestFirst, n) = FirstIn(Order, S, n)
                 /\ (\E i : IsLast(S, i)) => IsLast(S, LastOf(S, NewestFirst))
           /\ table \in {"audit", "memory_jobs"} =>
                 /\ First(S, NumberDown, n) = FirstIn(Order, S, n)
                 /\ (\E i : IsLast(S, i)) => IsLast(S, LastOf(S, NumberDown))
           /\ table = "users" =>
                 /\ First(S, NameUp, n) = FirstIn(Order, S, n)
                 /\ (\E i : IsLast(S, i)) => IsLast(S, LastOf(S, NameUp))
           /\ table \in Alerts =>
                 /\ First(S, ActiveFirst, n) = FirstIn(Order, S, n)
                 /\ (\E i : IsLast(S, i)) => IsLast(S, LastOf(S, ActiveFirst))
           /\ table \in Scored =>
                 /\ First(S, BestFirst, n) = FirstIn(Order, S, n)
                 /\ (\E i : IsLast(S, i)) => IsLast(S, LastOf(S, BestFirst))
<1>1. \A i, j \in RowIds : <<i, j>> \in Order <=> Before(i, j)
  BY PlacedOrder, Zenon
<1>2. CASE table \in {"jobs", "tokens", "tasks"}
  <2>1. \A i, j : Before(i, j) <=> NewestFirst(i, j)
    BY <1>2, Zenon DEF Before, Alerts, Scored
  <2>2. \A i, j \in S : <<i, j>> \in Order <=> NewestFirst(i, j)
    BY <1>1, <2>1, Zenon
  <2>3. First(S, NewestFirst, n) = FirstIn(Order, S, n)
    BY <2>2, Zenon DEF First, FirstIn, Ahead
  <2>4. (\E i : IsLast(S, i)) => IsLast(S, LastOf(S, NewestFirst))
    BY <2>2, Zenon DEF LastOf, IsLast
  <2> QED
    BY <1>2, <2>3, <2>4, Zenon DEF Alerts, Scored
<1>3. CASE table \in {"audit", "memory_jobs"}
  <2>1. \A i, j : Before(i, j) <=> NumberDown(i, j)
    BY <1>3, Zenon DEF Before, Alerts, Scored
  <2>2. \A i, j \in S : <<i, j>> \in Order <=> NumberDown(i, j)
    BY <1>1, <2>1, Zenon
  <2>3. First(S, NumberDown, n) = FirstIn(Order, S, n)
    BY <2>2, Zenon DEF First, FirstIn, Ahead
  <2>4. (\E i : IsLast(S, i)) => IsLast(S, LastOf(S, NumberDown))
    BY <2>2, Zenon DEF LastOf, IsLast
  <2> QED
    BY <1>3, <2>3, <2>4, Zenon DEF Alerts, Scored
<1>4. CASE table = "users"
  <2>1. \A i, j : Before(i, j) <=> NameUp(i, j)
    BY <1>4, Zenon DEF Before, Alerts, Scored
  <2>2. \A i, j \in S : <<i, j>> \in Order <=> NameUp(i, j)
    BY <1>1, <2>1, Zenon
  <2>3. First(S, NameUp, n) = FirstIn(Order, S, n)
    BY <2>2, Zenon DEF First, FirstIn, Ahead
  <2>4. (\E i : IsLast(S, i)) => IsLast(S, LastOf(S, NameUp))
    BY <2>2, Zenon DEF LastOf, IsLast
  <2> QED
    BY <1>4, <2>3, <2>4, Zenon DEF Alerts, Scored
<1>5. CASE table \in Alerts
  <2>1. \A i, j : Before(i, j) <=> ActiveFirst(i, j)
    BY <1>5, Zenon DEF Before, Alerts, Scored
  <2>2. \A i, j \in S : <<i, j>> \in Order <=> ActiveFirst(i, j)
    BY <1>1, <2>1, Zenon
  <2>3. First(S, ActiveFirst, n) = FirstIn(Order, S, n)
    BY <2>2, Zenon DEF First, FirstIn, Ahead
  <2>4. (\E i : IsLast(S, i)) => IsLast(S, LastOf(S, ActiveFirst))
    BY <2>2, Zenon DEF LastOf, IsLast
  <2> QED
    BY <1>5, <2>3, <2>4, Zenon DEF Alerts, Scored
<1>6. CASE table \in Scored
  <2>1. \A i, j : Before(i, j) <=> BestFirst(i, j)
    BY <1>6, Zenon DEF Before, Alerts, Scored
  <2>2. \A i, j \in S : <<i, j>> \in Order <=> BestFirst(i, j)
    BY <1>1, <2>1, Zenon
  <2>3. First(S, BestFirst, n) = FirstIn(Order, S, n)
    BY <2>2, Zenon DEF First, FirstIn, Ahead
  <2>4. (\E i : IsLast(S, i)) => IsLast(S, LastOf(S, BestFirst))
    BY <2>2, Zenon DEF LastOf, IsLast
  <2> QED
    BY <1>6, <2>3, <2>4, Zenon DEF Alerts, Scored
<1> QED
  BY <1>2, <1>3, <1>4, <1>5, <1>6, PagingAssumption, Zenon DEF PagingTypeOK, Alerts, Scored

\* The page that pageWindow makes of the rows that were read.
LEMMA WindowRight ==
    ASSUME PagingTypeOK, NEW c, NEW l \in Nat \ {0}, NEW limit \in Nat, NEW list,
           limit = l + 1 \/ Cardinality(After(c)) <= limit,
           list.ok <=> c = 0 \/ Found(c),
           list.ok => list.rows = FirstIn(Order, After(c), limit)
    PROVE  /\ table \in {"jobs", "tokens", "tasks"} => PageIs(pageWindow(list, NewestFirst, l), c, l)
           /\ table \in {"audit", "memory_jobs"} => PageIs(pageWindow(list, NumberDown, l), c, l)
           /\ table = "users" => PageIs(pageWindow(list, NameUp, l), c, l)
           /\ table \in Alerts => PageIs(pageWindow(list, ActiveFirst, l), c, l)
           /\ table \in Scored => PageIs(pageWindow(list, BestFirst, l), c, l)
<1>1. /\ FirstIn(Order, After(c), limit) \in SUBSET RowIds
      /\ FirstIn(Order, FirstIn(Order, After(c), limit), l) \in SUBSET RowIds
  BY AfterOrdered, Zenon DEF FirstIn
<1>2. ASSUME table \in {"jobs", "tokens", "tasks"}
      PROVE  PageIs(pageWindow(list, NewestFirst, l), c, l)
  <2> DEFINE page == pageWindow(list, NewestFirst, l)
  <2>1. /\ page.ok <=> list.ok
        /\ page.rows = First(list.rows, NewestFirst, l)
        /\ page.more <=> Cardinality(list.rows) > l
        /\ page.more => page.next = LastOf(page.rows, NewestFirst)
        /\ ~page.more => page.next = 0
    BY Zenon DEF pageWindow, nextCursor
  <2> HIDE DEF page
  <2>2. list.ok => /\ page.rows = FirstIn(Order, FirstIn(Order, After(c), limit), l)
                   /\ (\E i : IsLast(page.rows, i)) => IsLast(page.rows, LastOf(page.rows, NewestFirst))
    <3> SUFFICES ASSUME list.ok
                 PROVE  /\ page.rows = FirstIn(Order, list.rows, l)
                        /\ (\E i : IsLast(page.rows, i)) => IsLast(page.rows, LastOf(page.rows, NewestFirst))
      BY Zenon
    <3>1. list.rows \in SUBSET RowIds /\ FirstIn(Order, list.rows, l) \in SUBSET RowIds
      BY <1>1, Zenon
    <3>2. First(list.rows, NewestFirst, l) = FirstIn(Order, list.rows, l)
      BY <1>2, <3>1, OrderedSame, Zenon
    <3>3. page.rows \in SUBSET RowIds
      BY <2>1, <3>1, <3>2, Zenon
    <3>4. (\E i : IsLast(page.rows, i)) => IsLast(page.rows, LastOf(page.rows, NewestFirst))
      BY <1>2, <3>3, OrderedSame, Zenon
    <3> QED
      BY <2>1, <3>2, <3>4, Zenon
  <2>3. PageIs(page, c, l)
    BY <2>1, <2>2, Window, Zenon
  <2> QED
    BY <2>3, Zenon DEF page
<1>3. ASSUME table \in {"audit", "memory_jobs"}
      PROVE  PageIs(pageWindow(list, NumberDown, l), c, l)
  <2> DEFINE page == pageWindow(list, NumberDown, l)
  <2>1. /\ page.ok <=> list.ok
        /\ page.rows = First(list.rows, NumberDown, l)
        /\ page.more <=> Cardinality(list.rows) > l
        /\ page.more => page.next = LastOf(page.rows, NumberDown)
        /\ ~page.more => page.next = 0
    BY Zenon DEF pageWindow, nextCursor
  <2> HIDE DEF page
  <2>2. list.ok => /\ page.rows = FirstIn(Order, FirstIn(Order, After(c), limit), l)
                   /\ (\E i : IsLast(page.rows, i)) => IsLast(page.rows, LastOf(page.rows, NumberDown))
    <3> SUFFICES ASSUME list.ok
                 PROVE  /\ page.rows = FirstIn(Order, list.rows, l)
                        /\ (\E i : IsLast(page.rows, i)) => IsLast(page.rows, LastOf(page.rows, NumberDown))
      BY Zenon
    <3>1. list.rows \in SUBSET RowIds /\ FirstIn(Order, list.rows, l) \in SUBSET RowIds
      BY <1>1, Zenon
    <3>2. First(list.rows, NumberDown, l) = FirstIn(Order, list.rows, l)
      BY <1>3, <3>1, OrderedSame, Zenon
    <3>3. page.rows \in SUBSET RowIds
      BY <2>1, <3>1, <3>2, Zenon
    <3>4. (\E i : IsLast(page.rows, i)) => IsLast(page.rows, LastOf(page.rows, NumberDown))
      BY <1>3, <3>3, OrderedSame, Zenon
    <3> QED
      BY <2>1, <3>2, <3>4, Zenon
  <2>3. PageIs(page, c, l)
    BY <2>1, <2>2, Window, ZenonT(30)
  <2> QED
    BY <2>3, Zenon DEF page
<1>4. ASSUME table = "users"
      PROVE  PageIs(pageWindow(list, NameUp, l), c, l)
  <2> DEFINE page == pageWindow(list, NameUp, l)
  <2>1. /\ page.ok <=> list.ok
        /\ page.rows = First(list.rows, NameUp, l)
        /\ page.more <=> Cardinality(list.rows) > l
        /\ page.more => page.next = LastOf(page.rows, NameUp)
        /\ ~page.more => page.next = 0
    BY Zenon DEF pageWindow, nextCursor
  <2> HIDE DEF page
  <2>2. list.ok => /\ page.rows = FirstIn(Order, FirstIn(Order, After(c), limit), l)
                   /\ (\E i : IsLast(page.rows, i)) => IsLast(page.rows, LastOf(page.rows, NameUp))
    <3> SUFFICES ASSUME list.ok
                 PROVE  /\ page.rows = FirstIn(Order, list.rows, l)
                        /\ (\E i : IsLast(page.rows, i)) => IsLast(page.rows, LastOf(page.rows, NameUp))
      BY Zenon
    <3>1. list.rows \in SUBSET RowIds /\ FirstIn(Order, list.rows, l) \in SUBSET RowIds
      BY <1>1, Zenon
    <3>2. First(list.rows, NameUp, l) = FirstIn(Order, list.rows, l)
      BY <1>4, <3>1, OrderedSame, Zenon
    <3>3. page.rows \in SUBSET RowIds
      BY <2>1, <3>1, <3>2, Zenon
    <3>4. (\E i : IsLast(page.rows, i)) => IsLast(page.rows, LastOf(page.rows, NameUp))
      BY <1>4, <3>3, OrderedSame, Zenon
    <3> QED
      BY <2>1, <3>2, <3>4, Zenon
  <2>3. PageIs(page, c, l)
    BY <2>1, <2>2, Window, Zenon
  <2> QED
    BY <2>3, Zenon DEF page
<1>5. ASSUME table \in Alerts
      PROVE  PageIs(pageWindow(list, ActiveFirst, l), c, l)
  <2> DEFINE page == pageWindow(list, ActiveFirst, l)
  <2>1. /\ page.ok <=> list.ok
        /\ page.rows = First(list.rows, ActiveFirst, l)
        /\ page.more <=> Cardinality(list.rows) > l
        /\ page.more => page.next = LastOf(page.rows, ActiveFirst)
        /\ ~page.more => page.next = 0
    BY Zenon DEF pageWindow, nextCursor
  <2> HIDE DEF page
  <2>2. list.ok => /\ page.rows = FirstIn(Order, FirstIn(Order, After(c), limit), l)
                   /\ (\E i : IsLast(page.rows, i)) => IsLast(page.rows, LastOf(page.rows, ActiveFirst))
    <3> SUFFICES ASSUME list.ok
                 PROVE  /\ page.rows = FirstIn(Order, list.rows, l)
                        /\ (\E i : IsLast(page.rows, i)) => IsLast(page.rows, LastOf(page.rows, ActiveFirst))
      BY Zenon
    <3>1. list.rows \in SUBSET RowIds /\ FirstIn(Order, list.rows, l) \in SUBSET RowIds
      BY <1>1, Zenon
    <3>2. First(list.rows, ActiveFirst, l) = FirstIn(Order, list.rows, l)
      BY <1>5, <3>1, OrderedSame, Zenon
    <3>3. page.rows \in SUBSET RowIds
      BY <2>1, <3>1, <3>2, Zenon
    <3>4. (\E i : IsLast(page.rows, i)) => IsLast(page.rows, LastOf(page.rows, ActiveFirst))
      BY <1>5, <3>3, OrderedSame, Zenon
    <3> QED
      BY <2>1, <3>2, <3>4, Zenon
  <2>3. PageIs(page, c, l)
    BY <2>1, <2>2, Window, Zenon
  <2> QED
    BY <2>3, Zenon DEF page
<1>6. ASSUME table \in Scored
      PROVE  PageIs(pageWindow(list, BestFirst, l), c, l)
  <2> DEFINE page == pageWindow(list, BestFirst, l)
  <2>1. /\ page.ok <=> list.ok
        /\ page.rows = First(list.rows, BestFirst, l)
        /\ page.more <=> Cardinality(list.rows) > l
        /\ page.more => page.next = LastOf(page.rows, BestFirst)
        /\ ~page.more => page.next = 0
    BY Zenon DEF pageWindow, nextCursor
  <2> HIDE DEF page
  <2>2. list.ok => /\ page.rows = FirstIn(Order, FirstIn(Order, After(c), limit), l)
                   /\ (\E i : IsLast(page.rows, i)) => IsLast(page.rows, LastOf(page.rows, BestFirst))
    <3> SUFFICES ASSUME list.ok
                 PROVE  /\ page.rows = FirstIn(Order, list.rows, l)
                        /\ (\E i : IsLast(page.rows, i)) => IsLast(page.rows, LastOf(page.rows, BestFirst))
      BY Zenon
    <3>1. list.rows \in SUBSET RowIds /\ FirstIn(Order, list.rows, l) \in SUBSET RowIds
      BY <1>1, Zenon
    <3>2. First(list.rows, BestFirst, l) = FirstIn(Order, list.rows, l)
      BY <1>6, <3>1, OrderedSame, Zenon
    <3>3. page.rows \in SUBSET RowIds
      BY <2>1, <3>1, <3>2, Zenon
    <3>4. (\E i : IsLast(page.rows, i)) => IsLast(page.rows, LastOf(page.rows, BestFirst))
      BY <1>6, <3>3, OrderedSame, Zenon
    <3> QED
      BY <2>1, <3>2, <3>4, Zenon
  <2>3. PageIs(page, c, l)
    BY <2>1, <2>2, Window, Zenon
  <2> QED
    BY <2>3, Zenon DEF page
<1> QED
  BY <1>2, <1>3, <1>4, <1>5, <1>6, Zenon

\* Every handler gives the page that its list and cursor ask for.
LEMMA PageRight ==
    ASSUME PagingTypeOK, NEW c \in RowIds \cup {0}, NEW l \in 1..PageCap
    PROVE  PageIs(Page(c, l), c, l)
<1>1. /\ l \in Nat \ {0} /\ l + 1 \in Nat /\ Limit(l + 1) = l + 1
      /\ (IF l + 1 <= 0 THEN 2 ELSE l + 1) = l + 1
  BY PagingAssumption DEF Limit
<1>2. After(c) \in SUBSET RowIds /\ \A n : FirstIn(Order, After(c), n) \in SUBSET RowIds
  BY AfterOrdered, Zenon DEF FirstIn
<1>3. Cardinality(RowIds) \in Nat /\ Cardinality(After(c)) <= Cardinality(RowIds)
  BY AfterOrdered, FS_CardinalityType, PagingAssumption, Zenon
<1>4. CASE table = "jobs"
  <2> DEFINE S == {i \in RowIds : Own(i) /\ (c = 0 \/ NewestFirst(c, i))}
             list == IF c # 0 /\ ~Own(c) THEN [ok |-> FALSE, rows |-> {}]
                     ELSE [ok |-> TRUE, rows |-> First(S, NewestFirst, l + 1)]
  <2>1. Page(c, l) = pageWindow(list, NewestFirst, l)
    BY <1>1, <1>4, Zenon DEF Page, handleJobs, ListJobsPageTenant, Query, Alerts
  <2>2. S = After(c) /\ (Found(c) <=> Own(c))
    BY <1>4, Zenon DEF After, Listed, Before, Found, Own, OwnTask, Shown, Exists, Alerts, Scored, InMemory
  <2>3. First(S, NewestFirst, l + 1) = FirstIn(Order, After(c), l + 1)
    BY <1>2, <1>4, <2>2, OrderedSame, Zenon DEF Alerts, Scored
  <2>4. (list.ok <=> c = 0 \/ Found(c)) /\ (list.ok => list.rows = FirstIn(Order, After(c), l + 1))
    BY <2>2, <2>3, Zenon
  <2> HIDE DEF list, S
  <2> QED
    BY <1>1, <1>4, <2>1, <2>4, WindowRight, Zenon DEF Alerts, Scored
<1>5. CASE table = "memory_jobs"
  <2> DEFINE S == {i \in RowIds : Exists(i) /\ (c = 0 \/ NumberDown(c, i))}
             list == IF c # 0 /\ ~Exists(c) THEN [ok |-> FALSE, rows |-> {}]
                     ELSE [ok |-> TRUE, rows |-> First(S, NumberDown, l + 1)]
  <2>1. Page(c, l) = pageWindow(list, NumberDown, l)
    BY <1>1, <1>5, Zenon DEF Page, handleMemoryJobs, ListJobsPage, Query, Alerts
  <2>2. S = After(c) /\ (Found(c) <=> Exists(c))
    BY <1>5, Zenon DEF After, Listed, Before, Found, Own, OwnTask, Shown, Exists, Alerts, Scored, InMemory
  <2>3. First(S, NumberDown, l + 1) = FirstIn(Order, After(c), l + 1)
    BY <1>2, <1>5, <2>2, OrderedSame, Zenon DEF Alerts, Scored
  <2>4. (list.ok <=> c = 0 \/ Found(c)) /\ (list.ok => list.rows = FirstIn(Order, After(c), l + 1))
    BY <2>2, <2>3, Zenon
  <2> HIDE DEF list, S
  <2> QED
    BY <1>1, <1>5, <2>1, <2>4, WindowRight, Zenon DEF Alerts, Scored
<1>6. CASE table = "tokens"
  <2> DEFINE S == {i \in RowIds : Own(i) /\ (c = 0 \/ NewestFirst(c, i))}
             list == IF c # 0 /\ ~Own(c) THEN [ok |-> FALSE, rows |-> {}]
                     ELSE [ok |-> TRUE, rows |-> First(S, NewestFirst, l + 1)]
  <2>1. Page(c, l) = pageWindow(list, NewestFirst, l)
    BY <1>1, <1>6, Zenon DEF Page, handleAdminListTokens, ListTokensPageTenant, Query, Alerts
  <2>2. S = After(c) /\ (Found(c) <=> Own(c))
    BY <1>6, Zenon DEF After, Listed, Before, Found, Own, OwnTask, Shown, Exists, Alerts, Scored, InMemory
  <2>3. First(S, NewestFirst, l + 1) = FirstIn(Order, After(c), l + 1)
    BY <1>2, <1>6, <2>2, OrderedSame, Zenon DEF Alerts, Scored
  <2>4. (list.ok <=> c = 0 \/ Found(c)) /\ (list.ok => list.rows = FirstIn(Order, After(c), l + 1))
    BY <2>2, <2>3, Zenon
  <2> HIDE DEF list, S
  <2> QED
    BY <1>1, <1>6, <2>1, <2>4, WindowRight, Zenon DEF Alerts, Scored
<1>7. CASE table = "tasks"
  <2> DEFINE S == {i \in RowIds : OwnTask(i) /\ rows[i].shown /\ (c = 0 \/ NewestFirst(c, i))}
             list == IF c # 0 /\ ~OwnTask(c) THEN [ok |-> FALSE, rows |-> {}]
                     ELSE [ok |-> TRUE, rows |-> First(S, NewestFirst, l + 1)]
  <2>1. Page(c, l) = pageWindow(list, NewestFirst, l)
    BY <1>1, <1>7, Zenon DEF Page, handleAdminTasks, ListTasksPageTenant, Query, Alerts
  <2>2. S = After(c) /\ (Found(c) <=> OwnTask(c))
    BY <1>7, Zenon DEF After, Listed, Before, Found, Own, OwnTask, Shown, Exists, Alerts, Scored, InMemory
  <2>3. First(S, NewestFirst, l + 1) = FirstIn(Order, After(c), l + 1)
    BY <1>2, <1>7, <2>2, OrderedSame, Zenon DEF Alerts, Scored
  <2>4. (list.ok <=> c = 0 \/ Found(c)) /\ (list.ok => list.rows = FirstIn(Order, After(c), l + 1))
    BY <2>2, <2>3, Zenon
  <2> HIDE DEF list, S
  <2> QED
    BY <1>1, <1>7, <2>1, <2>4, WindowRight, Zenon DEF Alerts, Scored
<1>8. CASE table = "audit"
  <2> DEFINE S == {i \in RowIds : Own(i) /\ (c = 0 \/ NumberDown(c, i))}
             list == IF c # 0 /\ ~TRUE THEN [ok |-> FALSE, rows |-> {}]
                     ELSE [ok |-> TRUE, rows |-> First(S, NumberDown, l + 1)]
  <2>1. Page(c, l) = pageWindow(list, NumberDown, l)
    BY <1>1, <1>8, Zenon DEF Page, handleAdminAudit, ListAuditPageTenantRange, Query, Alerts
  <2>2. S = After(c) /\ (Found(c) <=> TRUE)
    BY <1>8, Zenon DEF After, Listed, Before, Found, Own, OwnTask, Shown, Exists, Alerts, Scored, InMemory
  <2>3. First(S, NumberDown, l + 1) = FirstIn(Order, After(c), l + 1)
    BY <1>2, <1>8, <2>2, OrderedSame, Zenon DEF Alerts, Scored
  <2>4. (list.ok <=> c = 0 \/ Found(c)) /\ (list.ok => list.rows = FirstIn(Order, After(c), l + 1))
    BY <2>2, <2>3, Zenon
  <2> HIDE DEF list, S
  <2> QED
    BY <1>1, <1>8, <2>1, <2>4, WindowRight, Zenon DEF Alerts, Scored
<1>9. CASE table = "users"
  <2> DEFINE S == {i \in RowIds : Own(i) /\ (c = 0 \/ NameUp(c, i))}
             list == IF c # 0 /\ ~Own(c) THEN [ok |-> FALSE, rows |-> {}]
                     ELSE [ok |-> TRUE, rows |-> First(S, NameUp, l + 1)]
  <2>1. Page(c, l) = pageWindow(list, NameUp, l)
    BY <1>1, <1>9, Zenon DEF Page, handleAdminListUsers, ListUsersPage, Query, Alerts
  <2>2. S = After(c) /\ (Found(c) <=> Own(c))
    BY <1>9, Zenon DEF After, Listed, Before, Found, Own, OwnTask, Shown, Exists, Alerts, Scored, InMemory
  <2>3. First(S, NameUp, l + 1) = FirstIn(Order, After(c), l + 1)
    BY <1>2, <1>9, <2>2, OrderedSame, Zenon DEF Alerts, Scored
  <2>4. (list.ok <=> c = 0 \/ Found(c)) /\ (list.ok => list.rows = FirstIn(Order, After(c), l + 1))
    BY <2>2, <2>3, Zenon
  <2> HIDE DEF list, S
  <2> QED
    BY <1>1, <1>9, <2>1, <2>4, WindowRight, Zenon DEF Alerts, Scored
<1>10. CASE table = "alerts"
  <2> DEFINE S == {i \in RowIds : Exists(i) /\ (c = 0 \/ ActiveFirst(c, i))}
             list == IF c # 0 /\ ~Exists(c) THEN [ok |-> FALSE, rows |-> {}]
                     ELSE [ok |-> TRUE, rows |-> First(S, ActiveFirst, l + 1)]
  <2>1. Page(c, l) = pageWindow(list, ActiveFirst, l)
    BY <1>1, <1>10, Zenon DEF Page, handleAdminAlerts, ListAlertsPage, Query, Alerts
  <2>2. S = After(c) /\ (Found(c) <=> Exists(c))
    BY <1>10, Zenon DEF After, Listed, Before, Found, Own, OwnTask, Shown, Exists, Alerts, Scored, InMemory
  <2>3. First(S, ActiveFirst, l + 1) = FirstIn(Order, After(c), l + 1)
    BY <1>2, <1>10, <2>2, OrderedSame, Zenon DEF Alerts, Scored
  <2>4. (list.ok <=> c = 0 \/ Found(c)) /\ (list.ok => list.rows = FirstIn(Order, After(c), l + 1))
    BY <2>2, <2>3, Zenon
  <2> HIDE DEF list, S
  <2> QED
    BY <1>1, <1>10, <2>1, <2>4, WindowRight, Zenon DEF Alerts, Scored
<1>11. CASE table = "active"
  <2> DEFINE S == {i \in RowIds : Shown(i) /\ (c = 0 \/ ActiveFirst(c, i))}
             list == IF c # 0 /\ ~Shown(c) THEN [ok |-> FALSE, rows |-> {}]
                     ELSE [ok |-> TRUE, rows |-> First(S, ActiveFirst, l + 1)]
  <2>1. Page(c, l) = pageWindow(list, ActiveFirst, l)
    BY <1>1, <1>11, Zenon DEF Page, handleAdminAlerts, ListAlertsPage, Query, Alerts
  <2>2. S = After(c) /\ (Found(c) <=> Shown(c))
    BY <1>11, Zenon DEF After, Listed, Before, Found, Own, OwnTask, Shown, Exists, Alerts, Scored, InMemory
  <2>3. First(S, ActiveFirst, l + 1) = FirstIn(Order, After(c), l + 1)
    BY <1>2, <1>11, <2>2, OrderedSame, Zenon DEF Alerts, Scored
  <2>4. (list.ok <=> c = 0 \/ Found(c)) /\ (list.ok => list.rows = FirstIn(Order, After(c), l + 1))
    BY <2>2, <2>3, Zenon
  <2> HIDE DEF list, S
  <2> QED
    BY <1>1, <1>11, <2>1, <2>4, WindowRight, Zenon DEF Alerts, Scored
<1>12. CASE table = "sources"
  <2> DEFINE S == {i \in RowIds : Exists(i) /\ (c = 0 \/ BestFirst(c, i))}
             list == IF c # 0 /\ ~Exists(c) THEN [ok |-> FALSE, rows |-> {}]
                     ELSE [ok |-> TRUE, rows |-> First(S, BestFirst, Cardinality(RowIds))]
  <2>1. Page(c, l) = pageWindow(list, BestFirst, l)
    BY <1>1, <1>12, Zenon DEF Page, handleSources, pageSlice, Query, Alerts
  <2>2. S = After(c) /\ (Found(c) <=> Exists(c))
    BY <1>12, Zenon DEF After, Listed, Before, Found, Own, OwnTask, Shown, Exists, Alerts, Scored, InMemory
  <2>3. First(S, BestFirst, Cardinality(RowIds)) = FirstIn(Order, After(c), Cardinality(RowIds))
    BY <1>2, <1>12, <2>2, OrderedSame, Zenon DEF Alerts, Scored
  <2>4. (list.ok <=> c = 0 \/ Found(c)) /\ (list.ok => list.rows = FirstIn(Order, After(c), Cardinality(RowIds)))
    BY <2>2, <2>3, Zenon
  <2> HIDE DEF list, S
  <2> QED
    BY <1>1, <1>12, <2>1, <2>4, <1>3, WindowRight, Zenon DEF Alerts, Scored
<1>13. CASE table = "nodes"
  <2> DEFINE S == {i \in RowIds : Shown(i) /\ (c = 0 \/ BestFirst(c, i))}
             list == IF c # 0 /\ ~Shown(c) THEN [ok |-> FALSE, rows |-> {}]
                     ELSE [ok |-> TRUE, rows |-> First(S, BestFirst, Cardinality(RowIds))]
  <2>1. Page(c, l) = pageWindow(list, BestFirst, l)
    BY <1>1, <1>13, Zenon DEF Page, handleNodes, pageSlice, Query, Alerts
  <2>2. S = After(c) /\ (Found(c) <=> Shown(c))
    BY <1>13, Zenon DEF After, Listed, Before, Found, Own, OwnTask, Shown, Exists, Alerts, Scored, InMemory
  <2>3. First(S, BestFirst, Cardinality(RowIds)) = FirstIn(Order, After(c), Cardinality(RowIds))
    BY <1>2, <1>13, <2>2, OrderedSame, Zenon DEF Alerts, Scored
  <2>4. (list.ok <=> c = 0 \/ Found(c)) /\ (list.ok => list.rows = FirstIn(Order, After(c), Cardinality(RowIds)))
    BY <2>2, <2>3, Zenon
  <2> HIDE DEF list, S
  <2> QED
    BY <1>1, <1>13, <2>1, <2>4, <1>3, WindowRight, Zenon DEF Alerts, Scored
<1> QED
  BY <1>4, <1>5, <1>6, <1>7, <1>8, <1>9, <1>10, <1>11, <1>12, <1>13, PagingAssumption, Zenon DEF PagingTypeOK

\* The page of a walk, and how it divides the rows after the cursor.
LEMMA PageCuts ==
    ASSUME PagingTypeOK, NEW c \in RowIds \cup {0}, NEW l \in 1..PageCap, Page(c, l).ok
    PROVE  /\ c = 0 \/ Found(c)
           /\ Page(c, l).rows \in SUBSET After(c)
           /\ Page(c, l).more =>
                 /\ Page(c, l).next \in Page(c, l).rows
                 /\ \A i \in Page(c, l).rows : i = Page(c, l).next \/ Before(i, Page(c, l).next)
                 /\ \A i \in After(c) \ Page(c, l).rows : Before(Page(c, l).next, i)
           /\ ~Page(c, l).more => Page(c, l).rows = After(c) /\ Page(c, l).next = 0
<1> DEFINE page == Page(c, l)
<1>1. PageIs(page, c, l) /\ page.ok
  BY PageRight, Zenon
<1> HIDE DEF page
<1>2. /\ c = 0 \/ Found(c)
      /\ page.rows = FirstIn(Order, After(c), l)
      /\ page.more <=> Cardinality(After(c)) > l
      /\ page.more => IsLast(page.rows, page.next)
      /\ ~page.more => page.next = 0
  BY <1>1, Zenon DEF PageIs
<1>3. /\ After(c) \in SUBSET RowIds /\ IsFiniteSet(After(c)) /\ Cardinality(After(c)) \in Nat
      /\ Orders(Order, After(c)) /\ l \in Nat
  BY AfterOrdered, PagingAssumption
<1>4. /\ \A i \in page.rows, j \in After(c) \ page.rows : <<i, j>> \in Order
      /\ Cardinality(After(c)) <= l => page.rows = After(c)
  BY <1>2, <1>3, FirstFacts
<1>5. page.rows \in SUBSET After(c)
  BY <1>2, Zenon DEF FirstIn
<1>6. \A i, j \in RowIds : <<i, j>> \in Order <=> Before(i, j)
  BY PlacedOrder, Zenon
<1>7. page.more => /\ page.next \in page.rows
                   /\ \A i \in page.rows : i = page.next \/ Before(i, page.next)
                   /\ \A i \in After(c) \ page.rows : Before(page.next, i)
  BY <1>2, <1>3, <1>4, <1>5, <1>6, Zenon DEF IsLast
<1>8. ~page.more => page.rows = After(c) /\ page.next = 0
  BY <1>2, <1>3, <1>4
<1> QED
  BY <1>2, <1>5, <1>7, <1>8, Zenon DEF page

\* Between two pages of a walk: the rows listed all the time were delivered up to
\* the cursor, as long as the cursor is where it was.
StepByStep ==
    /\ walk.pc = "idle" => walk.cursor = 0 /\ \A i \in RowIds : walk.got[i] = 0
    /\ walk.pc = "more" => walk.cursor \in RowIds
    /\ \A i \in walk.steady : Listed(i)
    /\ walk.pc = "more" /\ ~walk.moved /\ Placed(walk.cursor) =>
          \A i \in walk.steady : \/ walk.got[i] = 1 /\ (i = walk.cursor \/ Before(i, walk.cursor))
                                 \/ walk.got[i] = 0 /\ Before(walk.cursor, i)
    /\ walk.pc = "done" /\ ~walk.moved => \A i \in walk.steady : walk.got[i] = 1

\* Where rows keep their place, a row that was delivered is never created again and
\* stays before the cursor.
NoneAgain ==
    /\ walk.pc = "more" => walk.got[walk.cursor] = 1
    /\ \A i \in RowIds : /\ walk.got[i] \in {0, 1}
                         /\ walk.got[i] = 1 => rows[i] # Absent
                         /\ walk.got[i] = 1 /\ walk.pc = "more" /\ Placed(i) /\ Placed(walk.cursor) =>
                               i = walk.cursor \/ Before(i, walk.cursor)

PInv == PagingTypeOK /\ StepByStep /\ (table \notin Alerts \cup Scored => NoneAgain)

\* A walk starts with nothing seen.
LEMMA PagingInitOK == PagingInit => PInv
<1> SUFFICES ASSUME PagingInit
             PROVE  PInv
  BY Zenon
<1>1. walk.pc = "idle" /\ walk.cursor = 0 /\ walk.steady = {} /\ \A i \in RowIds : walk.got[i] = 0
  BY Zenon DEF PagingInit, NoWalk
<1>2. PagingTypeOK
  <2>1. clock \in 0..MaxClock
    BY PagingAssumption DEF PagingInit
  <2>2. rows \in [RowIds -> Row \cup {Absent, Deleted}]
    BY Zenon DEF PagingInit
  <2> QED
    BY <2>1, <2>2, Zenon DEF PagingInit, NoWalk, PagingTypeOK
<1> QED
  BY <1>1, <1>2 DEF PInv, StepByStep, NoneAgain

\* A page delivers the rows between its cursor and the next one.
LEMMA ReadStep ==
    ASSUME PInv, NEW asked \in 0..PageCap + 1, ReadPage(asked)
    PROVE  PInv'
<1> DEFINE l == requestedPageLimit(asked)
           c == walk.cursor
           page == Page(c, l)
<1>1. PagingTypeOK /\ StepByStep
  BY Zenon DEF PInv
<1>2. l \in 1..PageCap /\ c \in RowIds \cup {0}
  BY <1>1, PagingAssumption DEF requestedPageLimit, PagingTypeOK
<1>3. /\ walk.pc \in {"idle", "more"} /\ page.ok /\ UNCHANGED <<table, rows, clock, changes>>
      /\ walk' = [walk EXCEPT !.pc = IF page.more THEN "more" ELSE "done",
                              !.got = [i \in RowIds |-> IF i \in page.rows THEN @[i] + 1 ELSE @[i]],
                              !.cursor = page.next,
                              !.steady = IF walk.pc = "idle" THEN {i \in RowIds : Listed(i)} ELSE @]
  BY Zenon DEF ReadPage
<1>4. /\ c = 0 \/ Found(c)
      /\ page.rows \in SUBSET After(c)
      /\ page.more => /\ page.next \in page.rows
                      /\ \A i \in page.rows : i = page.next \/ Before(i, page.next)
                      /\ \A i \in After(c) \ page.rows : Before(page.next, i)
      /\ ~page.more => page.rows = After(c) /\ page.next = 0
  BY <1>1, <1>2, <1>3, PageCuts, Zenon
<1> HIDE DEF page, l
<1>5. After(c) \in SUBSET RowIds
  BY Zenon DEF After
<1>6. /\ walk' \in [pc : {"idle", "more", "done", "refused"}, cursor : RowIds \cup {0},
                    got : [RowIds -> Nat], steady : SUBSET RowIds, moved : BOOLEAN]
      /\ walk'.pc = (IF page.more THEN "more" ELSE "done") /\ walk'.cursor = page.next /\ walk'.moved = walk.moved
      /\ walk'.steady = IF walk.pc = "idle" THEN {i \in RowIds : Listed(i)} ELSE walk.steady
      /\ \A i \in RowIds : walk'.got[i] = IF i \in page.rows THEN walk.got[i] + 1 ELSE walk.got[i]
  <2>1. page.next \in RowIds \cup {0}
    BY <1>4, <1>5, Zenon
  <2> DEFINE next == IF page.more THEN "more" ELSE "done"
             got == [i \in RowIds |-> IF i \in page.rows THEN walk.got[i] + 1 ELSE walk.got[i]]
             steady == IF walk.pc = "idle" THEN {i \in RowIds : Listed(i)} ELSE walk.steady
  <2>2. walk \in [pc : {"idle", "more", "done", "refused"}, cursor : RowIds \cup {0},
                  got : [RowIds -> Nat], steady : SUBSET RowIds, moved : BOOLEAN]
    BY <1>1, Zenon DEF PagingTypeOK
  <2>3. walk' = [walk EXCEPT !.pc = next, !.got = got, !.cursor = page.next, !.steady = steady]
    BY <1>3, Zenon
  <2>4. /\ next \in {"more", "done"} /\ got \in [RowIds -> Nat] /\ steady \in SUBSET RowIds
        /\ \A i \in RowIds : got[i] = IF i \in page.rows THEN walk.got[i] + 1 ELSE walk.got[i]
    BY <2>2
  <2> HIDE DEF next, got, steady
  <2>5. /\ walk' \in [pc : {"idle", "more", "done", "refused"}, cursor : RowIds \cup {0},
                      got : [RowIds -> Nat], steady : SUBSET RowIds, moved : BOOLEAN]
        /\ walk'.pc = next /\ walk'.cursor = page.next /\ walk'.moved = walk.moved
        /\ walk'.steady = steady /\ walk'.got = got
    BY <2>1, <2>2, <2>3, <2>4, Zenon
  <2> QED
    BY <2>4, <2>5, Zenon DEF next, steady
<1>7. PagingTypeOK'
  BY <1>1, <1>3, <1>6, Zenon DEF PagingTypeOK
<1>8. /\ \A i : Listed(i)' <=> Listed(i)
      /\ \A i : Placed(i)' <=> Placed(i)
      /\ \A i, j : Before(i, j)' <=> Before(i, j)
  BY <1>3 DEF Listed, Placed, Exists, Before, NewestFirst, NumberDown, NameUp, ActiveFirst, BestFirst
<1>9. /\ \A i \in After(c) : i \in RowIds /\ Listed(i) /\ Placed(i)
      /\ c \in RowIds => Placed(c)
      /\ c = 0 => \A i \in RowIds : Listed(i) => i \in After(c)
      /\ \A i \in RowIds : Listed(i) /\ Before(c, i) => i \in After(c)
      /\ c \in RowIds => \A i \in After(c) : Before(c, i)
  <2>1. \A i : Listed(i) => Placed(i)
    BY Zenon DEF Listed, Placed
  <2>2. c \in RowIds => Placed(c) /\ c # 0
    BY <1>1, <1>4, PagingAssumption, Zenon DEF Found, Placed, Own, OwnTask, Shown, PagingTypeOK
  <2> QED
    BY <2>1, <2>2, Zenon DEF After
<1>10. /\ \A i \in RowIds : Placed(i) => ~Before(i, i)
       /\ \A i, j, k \in RowIds : Placed(i) /\ Placed(j) /\ Placed(k) /\ Before(i, j) /\ Before(j, k) => Before(i, k)
  BY <1>1, PlacedOrder, Zenon
<1>11. walk.pc = "idle" => c = 0 /\ \A i \in RowIds : walk.got[i] = 0
  BY <1>1, Zenon DEF StepByStep
<1>12. walk.pc = "more" => c \in RowIds
  BY <1>1, Zenon DEF StepByStep
<1>13. \A i \in RowIds : walk.got[i] \in Nat
  BY <1>1, Zenon DEF PagingTypeOK
<1>14. c \in RowIds => \A i \in RowIds : Placed(i) /\ (i = c \/ Before(i, c)) => i \notin After(c)
  BY <1>9, <1>10, Zenon
<1>15. page.more => \A i \in RowIds : c \in RowIds /\ Placed(i) /\ (i = c \/ Before(i, c)) => Before(i, page.next)
  BY <1>4, <1>5, <1>9, <1>10, Zenon
<1>16. StepByStep'
  <2>1. \A i \in walk'.steady : i \in RowIds /\ Listed(i) /\ Placed(i)
    <3>1. \A i : Listed(i) => Placed(i)
      BY Zenon DEF Listed, Placed
    <3> QED
      BY <1>1, <1>6, <3>1, Zenon DEF StepByStep
  <2>2. ASSUME ~walk.moved, NEW i \in walk'.steady
        PROVE  \/ i \in After(c) /\ walk.got[i] = 0
               \/ /\ i \notin After(c) /\ walk.got[i] = 1
                  /\ page.more => Before(i, page.next)
    <3>1. CASE walk.pc = "idle"
      BY <1>9, <1>11, <2>1, <3>1, Zenon
    <3>2. CASE walk.pc = "more"
      <4>1. i \in walk.steady /\ c \in RowIds /\ Placed(c)
        BY <1>6, <1>9, <1>12, <2>2, <3>2, Zenon
      <4>2. \/ walk.got[i] = 1 /\ (i = c \/ Before(i, c))
            \/ walk.got[i] = 0 /\ Before(c, i)
        BY <1>1, <2>2, <3>2, <4>1, Zenon DEF StepByStep
      <4> QED
        BY <1>9, <1>14, <1>15, <2>1, <4>1, <4>2, Zenon
    <3> QED
      BY <1>3, <3>1, <3>2, Zenon
  <2>3. walk'.pc = "more" /\ ~walk'.moved =>
          \A i \in walk'.steady : \/ walk'.got[i] = 1 /\ (i = walk'.cursor \/ Before(i, walk'.cursor))
                                  \/ walk'.got[i] = 0 /\ Before(walk'.cursor, i)
    BY <1>4, <1>6, <2>1, <2>2
  <2>4. walk'.pc = "done" /\ ~walk'.moved => \A i \in walk'.steady : walk'.got[i] = 1
    BY <1>4, <1>6, <2>1, <2>2
  <2>5. walk'.pc # "idle" /\ (walk'.pc = "more" => walk'.cursor \in RowIds)
    BY <1>4, <1>5, <1>6, Zenon
  <2> QED
    BY <1>8, <2>1, <2>3, <2>4, <2>5, Zenon DEF StepByStep
<1>17. ASSUME table \notin Alerts \cup Scored
       PROVE  NoneAgain'
  <2>1. NoneAgain
    BY <1>17, Zenon DEF PInv
  <2>2. \A i \in RowIds : walk.got[i] = 1 /\ Placed(i) =>
           c \in RowIds /\ (i = c \/ Before(i, c)) /\ i \notin After(c)
    BY <1>3, <1>9, <1>11, <1>12, <1>14, <2>1 DEF NoneAgain
  <2>3. \A i \in page.rows : i \in RowIds /\ Placed(i) /\ walk.got[i] = 0 /\ rows[i] # Absent
    <3>1. \A i : Listed(i) => rows[i] # Absent
      BY Zenon DEF Listed, Exists
    <3> QED
      BY <1>4, <1>9, <2>1, <2>2, <3>1, Zenon DEF NoneAgain
  <2>4. \A i \in RowIds : walk'.got[i] \in {0, 1} /\ (walk'.got[i] = 1 => rows[i] # Absent)
    <3>1. \A i \in RowIds : walk.got[i] \in {0, 1} /\ (walk.got[i] = 1 => rows[i] # Absent)
      BY <2>1, Zenon DEF NoneAgain
    <3> QED
      BY <1>6, <2>3, <3>1
  <2>5. walk'.pc = "more" => walk'.got[walk'.cursor] = 1
    BY <1>4, <1>6, <2>3
  <2>6. ASSUME NEW i \in RowIds, walk'.got[i] = 1, walk'.pc = "more", Placed(i)
        PROVE  i = walk'.cursor \/ Before(i, walk'.cursor)
    BY <1>4, <1>6, <1>15, <2>2, <2>6, Zenon
  <2> QED
    BY <1>3, <1>8, <2>4, <2>5, <2>6, Zenon DEF NoneAgain
<1> QED
  BY <1>3, <1>7, <1>16, <1>17, Zenon DEF PInv

\* A write makes its row one that is not listed all the time.
LEMMA WriteStep ==
    ASSUME PInv, NEW i \in RowIds, NEW new \in Row \cup {Absent, Deleted}, Write(i, new),
           table \notin Alerts \cup Scored => \/ rows[i] = Absent /\ new \in Row
                                              \/ new = Deleted
                                              \/ Exists(i) /\ new \in Row /\ new.at = rows[i].at
    PROVE  PInv'
<1>1. PagingTypeOK /\ StepByStep
  BY Zenon DEF PInv
<1>2. /\ UNCHANGED <<table, clock>> /\ rows' = [rows EXCEPT ![i] = new]
      /\ walk' = [walk EXCEPT !.steady = @ \ {i},
                              !.moved = @ \/ (i = walk.cursor /\ new \notin {Absent, Deleted})]
  BY Zenon DEF Write
<1>3. /\ rows' \in [RowIds -> Row \cup {Absent, Deleted}]
      /\ rows'[i] = new /\ \A j \in RowIds \ {i} : rows'[j] = rows[j]
  BY <1>1, <1>2, Zenon DEF PagingTypeOK
<1>4. /\ walk' \in [pc : {"idle", "more", "done", "refused"}, cursor : RowIds \cup {0},
                    got : [RowIds -> Nat], steady : SUBSET RowIds, moved : BOOLEAN]
      /\ walk'.pc = walk.pc /\ walk'.cursor = walk.cursor /\ walk'.got = walk.got
      /\ walk'.steady = walk.steady \ {i}
      /\ walk'.moved <=> walk.moved \/ (i = walk.cursor /\ new \notin {Absent, Deleted})
  BY <1>1, <1>2, Zenon DEF PagingTypeOK
<1>5. PagingTypeOK'
  BY <1>1, <1>2, <1>3, <1>4, Zenon DEF PagingTypeOK
<1>6. /\ \A j \in RowIds \ {i} : (Listed(j)' <=> Listed(j)) /\ (Placed(j)' <=> Placed(j))
      /\ \A j, k \in RowIds \ {i} : Before(j, k)' <=> Before(j, k)
  <2>1. \A j \in RowIds \ {i} : (Listed(j)' <=> Listed(j)) /\ (Placed(j)' <=> Placed(j))
    BY <1>2, <1>3, Zenon DEF Listed, Placed, Exists
  <2>2. ASSUME NEW j \in RowIds \ {i}, NEW k \in RowIds \ {i}
        PROVE  /\ NewestFirst(j, k)' <=> NewestFirst(j, k) 
               /\ NumberDown(j, k)' <=> NumberDown(j, k)
               /\ NameUp(j, k)' <=> NameUp(j, k)
               /\ ActiveFirst(j, k)' <=> ActiveFirst(j, k)
               /\ BestFirst(j, k)' <=> BestFirst(j, k)
    BY <1>3, Zenon DEF NewestFirst, NumberDown, NameUp, ActiveFirst, BestFirst
  <2>3. \A j, k \in RowIds \ {i} : Before(j, k)' <=> Before(j, k)
    BY <1>1, <1>2, <2>2, PagingAssumption, Zenon DEF Before, PagingTypeOK, Alerts, Scored
  <2> QED
    BY <2>1, <2>3, Zenon
<1>7. table = "audit" => /\ \A j, k \in RowIds : Before(j, k)' <=> Before(j, k)
                         /\ \A j \in RowIds : Placed(j)
  BY <1>2, Zenon DEF Before, NumberDown, Alerts, Scored, Placed
<1>8. new \in {Absent, Deleted} => (Placed(i)' <=> table = "audit")
  BY <1>2, <1>3, Zenon DEF Placed, Exists
<1>9. StepByStep'
  <2>1. walk'.pc = "idle" => walk'.cursor = 0 /\ \A j \in RowIds : walk'.got[j] = 0
    BY <1>1, <1>4, Zenon DEF StepByStep
  <2>2. walk'.pc = "more" => walk'.cursor \in RowIds
    BY <1>1, <1>4, Zenon DEF StepByStep
  <2>3. \A j \in walk'.steady : Listed(j)' /\ j \in RowIds \ {i} /\ j \in walk.steady
    BY <1>1, <1>4, <1>6, Zenon DEF StepByStep, PagingTypeOK
  <2>4. walk'.pc = "done" /\ ~walk'.moved => \A j \in walk'.steady : walk'.got[j] = 1
    BY <1>1, <1>4 DEF StepByStep
  <2>5. ASSUME walk'.pc = "more", ~walk'.moved, Placed(walk.cursor)', NEW j \in walk'.steady
        PROVE  \/ walk.got[j] = 1 /\ (j = walk.cursor \/ Before(j, walk.cursor)')
               \/ walk.got[j] = 0 /\ Before(walk.cursor, j)'
    <3>1. /\ walk.cursor \in RowIds /\ j \in RowIds \ {i}
          /\ Placed(walk.cursor) => \/ walk.got[j] = 1 /\ (j = walk.cursor \/ Before(j, walk.cursor))
                                    \/ walk.got[j] = 0 /\ Before(walk.cursor, j)
      BY <1>1, <1>4, <2>3, <2>5, Zenon DEF StepByStep
    <3>2. CASE walk.cursor = i
      <4>1. table = "audit"
        BY <1>4, <1>8, <2>5, <3>2, Zenon
      <4> QED
        BY <1>4, <1>7, <3>1, <4>1, Zenon
    <3>3. CASE walk.cursor # i
      BY <1>4, <1>6, <2>5, <3>1, <3>3, Zenon
    <3> QED
      BY <3>2, <3>3, Zenon
  <2> QED
    BY <1>4, <2>1, <2>2, <2>3, <2>4, <2>5, Zenon DEF StepByStep
<1>10. ASSUME table \notin Alerts \cup Scored
       PROVE  NoneAgain'
  <2>1. NoneAgain
    BY <1>10, Zenon DEF PInv
  <2>2. Absent.at = -1 /\ Deleted.at = -2 /\ \A r \in Row : r.at \in Nat
    BY PagingAssumption DEF Absent, Deleted, Row
  <2>3. Absent # Deleted /\ Absent \notin Row /\ Deleted \notin Row
    BY <2>2
  <2>4. \A j \in RowIds : walk.got[j] \in {0, 1} /\ (walk.got[j] = 1 => rows'[j] # Absent)
    BY <1>3, <1>10, <2>1, <2>3, Zenon DEF NoneAgain
  <2>5. ASSUME walk.pc = "more", NEW j \in RowIds, walk.got[j] = 1, Placed(j)', Placed(walk.cursor)'
        PROVE  j = walk.cursor \/ Before(j, walk.cursor)'
    <3>1. /\ walk.cursor \in RowIds /\ walk.got[walk.cursor] = 1
          /\ Placed(j) /\ Placed(walk.cursor) => j = walk.cursor \/ Before(j, walk.cursor)
      BY <1>1, <2>1, <2>5, Zenon DEF StepByStep, NoneAgain
    <3>2. CASE i \notin {j, walk.cursor}
      BY <1>4, <1>6, <2>5, <3>1, <3>2, Zenon
    <3>3. CASE i \in {j, walk.cursor} /\ table = "audit"
      BY <1>4, <1>7, <3>1, <3>3, Zenon
    <3>4. CASE i \in {j, walk.cursor} /\ table # "audit"
      <4>1. rows[i] # Absent /\ Placed(i)'
        BY <1>4, <2>1, <2>5, <3>1, <3>4, Zenon DEF NoneAgain
      <4>2. Exists(i) /\ new \in Row /\ new.at = rows[i].at
        BY <1>8, <1>10, <3>4, <4>1, Zenon
      <4>3. \A k \in RowIds : rows'[k].at = rows[k].at
        BY <1>3, <4>2, Zenon
      <4>4. Before(j, walk.cursor)' <=> Before(j, walk.cursor)
        <5>1. /\ NewestFirst(j, walk.cursor)' <=> NewestFirst(j, walk.cursor) 
              /\ NumberDown(j, walk.cursor)' <=> NumberDown(j, walk.cursor)
              /\ NameUp(j, walk.cursor)' <=> NameUp(j, walk.cursor)
          BY <1>4, <3>1, <4>3, Zenon DEF NewestFirst, NumberDown, NameUp
        <5> QED
          BY <1>1, <1>2, <1>10, <5>1, PagingAssumption, Zenon DEF Before, PagingTypeOK, Alerts, Scored
      <4>5. Placed(j) /\ Placed(walk.cursor)
        <5>1. Placed(i)
          BY <4>2, Zenon DEF Placed
        <5> QED
          BY <1>4, <1>6, <2>5, <3>1, <5>1, Zenon
      <4> QED
        BY <1>4, <3>1, <4>4, <4>5, Zenon
    <3> QED
      BY <3>2, <3>3, <3>4, Zenon
  <2> QED
    BY <1>4, <2>1, <2>4, <2>5, Zenon DEF NoneAgain
<1> QED
  BY <1>2, <1>5, <1>9, <1>10, Zenon DEF PInv

\* The writes of the tables.
LEMMA TableStep ==
    ASSUME PInv, NEW i \in RowIds,
           CreateRow(i) \/ DeleteRow(i) \/ PruneJob(i) \/ RaiseRow(i) \/ HideRow(i) \/ Rescore(i)
    PROVE  PInv'
<1>1. PagingTypeOK
  BY Zenon DEF PInv
<1>2. ASSUME Exists(i)
      PROVE  /\ rows[i] \in Row
             /\ \A b \in BOOLEAN : /\ [rows[i] EXCEPT !.stored = b] \in Row /\ [rows[i] EXCEPT !.stored = b].at = rows[i].at
                                   /\ [rows[i] EXCEPT !.shown = b] \in Row /\ [rows[i] EXCEPT !.shown = b].at = rows[i].at
             /\ \A n \in 0..MaxClock : /\ [rows[i] EXCEPT !.shown = TRUE, !.at = n] \in Row
                                       /\ [rows[i] EXCEPT !.at = n] \in Row
  <2> DEFINE r == rows[i]
  <2>1. r \in Row
    BY <1>1, <1>2, RowExists, Zenon
  <2> HIDE DEF r
  <2>2. /\ \A b \in BOOLEAN : /\ [r EXCEPT !.stored = b] \in Row /\ [r EXCEPT !.stored = b].at = r.at
                              /\ [r EXCEPT !.shown = b] \in Row /\ [r EXCEPT !.shown = b].at = r.at
        /\ \A n \in 0..MaxClock : [r EXCEPT !.shown = TRUE, !.at = n] \in Row /\ [r EXCEPT !.at = n] \in Row
    BY <2>1, Zenon DEF Row
  <2> QED
    BY <2>1, <2>2, Zenon DEF r
<1>3. clock \in 0..MaxClock
  BY <1>1, Zenon DEF PagingTypeOK
<1>4. CASE CreateRow(i)
  <2>1. PICK own \in BOOLEAN : Write(i, [at |-> clock, own |-> own, shown |-> TRUE, stored |-> TRUE])
    BY <1>4, Zenon DEF CreateRow
  <2>2. [at |-> clock, own |-> own, shown |-> TRUE, stored |-> TRUE] \in Row /\ rows[i] = Absent
    BY <1>3, <1>4, Zenon DEF Row, CreateRow
  <2> QED
    BY <2>1, <2>2, WriteStep, Zenon
<1>5. CASE DeleteRow(i)
  <2>1. Write(i, IF table \in Alerts \cup {"nodes"} THEN Absent ELSE Deleted)
    BY <1>5, Zenon DEF DeleteRow
  <2>2. table \notin Alerts \cup Scored => (IF table \in Alerts \cup {"nodes"} THEN Absent ELSE Deleted) = Deleted
    BY Zenon DEF Scored
  <2> QED
    BY <2>1, <2>2, WriteStep, Zenon
<1>6. CASE PruneJob(i)
  BY <1>2, <1>6, WriteStep, Zenon DEF PruneJob
<1>7. CASE RaiseRow(i)
  BY <1>2, <1>3, <1>7, WriteStep, Zenon DEF RaiseRow
<1>8. CASE HideRow(i)
  BY <1>2, <1>8, WriteStep, Zenon DEF HideRow
<1>9. CASE Rescore(i)
  <2>1. PICK score \in 0..MaxClock : Write(i, [rows[i] EXCEPT !.at = score])
    BY <1>9, Zenon DEF Rescore
  <2> QED
    BY <1>2, <1>9, <2>1, WriteStep, Zenon DEF Rescore
<1> QED
  BY <1>4, <1>5, <1>6, <1>7, <1>8, <1>9, Zenon

\* A refused page ends the walk; the clock, or nothing, moves.
LEMMA RestStep ==
    ASSUME PInv, RefusePage \/ PagingTick \/ UNCHANGED pagingVars
    PROVE  PInv'
<1>1. /\ UNCHANGED <<table, rows>> /\ clock' \in 0..MaxClock
      /\ walk' = walk \/ walk' = [walk EXCEPT !.pc = "refused"]
  BY PagingAssumption DEF PInv, PagingTypeOK, RefusePage, PagingTick, pagingVars
<1>2. /\ PagingTypeOK' /\ walk'.cursor = walk.cursor /\ walk'.got = walk.got
      /\ walk'.steady = walk.steady /\ walk'.moved = walk.moved
      /\ walk'.pc = walk.pc \/ walk'.pc = "refused"
  BY <1>1, Zenon DEF PInv, PagingTypeOK
<1>3. /\ \A i : Listed(i)' <=> Listed(i)
      /\ \A i : Placed(i)' <=> Placed(i)
      /\ \A i, j : Before(i, j)' <=> Before(i, j)
  BY <1>1 DEF Listed, Placed, Exists, Before, NewestFirst, NumberDown, NameUp, ActiveFirst, BestFirst
<1>4. StepByStep'
  <2>1. StepByStep
    BY Zenon DEF PInv
  <2>2. walk'.pc \in {"idle", "more", "done"} => walk'.pc = walk.pc
    BY <1>2, Zenon
  <2>3. /\ walk'.pc = "idle" => walk'.cursor = 0 /\ \A i \in RowIds : walk'.got[i] = 0
        /\ walk'.pc = "more" => walk'.cursor \in RowIds
        /\ \A i \in walk'.steady : Listed(i)'
    BY <1>2, <1>3, <2>1, <2>2, Zenon DEF StepByStep
  <2>4. walk'.pc = "more" /\ ~walk'.moved /\ Placed(walk.cursor)' =>
           \A i \in walk'.steady : \/ walk'.got[i] = 1 /\ (i = walk.cursor \/ Before(i, walk.cursor)')
                                   \/ walk'.got[i] = 0 /\ Before(walk.cursor, i)'
    BY <1>2, <1>3, <2>1, <2>2 DEF StepByStep
  <2>5. walk'.pc = "done" /\ ~walk'.moved => \A i \in walk'.steady : walk'.got[i] = 1
    BY <1>2, <2>1, <2>2 DEF StepByStep
  <2> QED
    BY <1>2, <2>3, <2>4, <2>5, Zenon DEF StepByStep
<1>5. table \notin Alerts \cup Scored => NoneAgain'
  BY <1>1, <1>2, <1>3, Zenon DEF PInv, NoneAgain
<1> QED
  BY <1>1, <1>2, <1>4, <1>5, Zenon DEF PInv

\* For every list, any rows, any page size and whatever is written in between: a
\* walk along next_cursor delivers what was listed all the time exactly once, as
\* long as its cursor did not move, and repeats no row where rows keep their place.
THEOREM WalksAreExact == PagingSpec => []WalkExact
<1>1. PInv /\ [PagingNext]_pagingVars => PInv'
  BY ReadStep, TableStep, RestStep, Zenon DEF PagingNext
<1>2. PInv => WalkExact
  BY DEF PInv, StepByStep, NoneAgain, WalkExact
<1> QED
  BY <1>1, <1>2, PagingInitOK, PTL DEF PagingSpec
=============================================================================
