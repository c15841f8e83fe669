------------------------------ MODULE Alerting ------------------------------
(***************************************************************************)
(* Alerts of the job runner: runs of several workers end, compare what     *)
(* they found with the stored history and raise or resolve alerts, while   *)
(* operators acknowledge and resolve them by hand.  Every statement of the *)
(* database is an action.  ended_at has a resolution of one second.        *)
(***************************************************************************)
EXTENDS Ordered

CONSTANTS
    Runs,           \* identifiers of jobs, numbers in their order
    Threshold,      \* job_failure_threshold
    SharePercent,   \* country_share_percent
    DropPercent,    \* hq_drop_percent
    Qualities,      \* what a quality phase may find: [tested, alive, hq, dominant]
    MaxRunning,     \* bound: runs of all processes at a time
    Handled         \* bound: the alerts that operators handle

Kinds == {"consecutive-job-failures", "all-quality-probes-failed", "country-dominance", "high-quality-drop"}

ASSUME AlertAssumption ==
    /\ Runs \subseteq Nat /\ IsFiniteSet(Runs)
    /\ Threshold \in Nat /\ SharePercent \in Nat /\ DropPercent \in Nat
    /\ Qualities \subseteq [tested : Nat, alive : Nat, hq : Nat, dominant : Nat]
    /\ Handled \subseteq Kinds

VARIABLES
    alerts,         \* Kinds -> [active, acked], the table
    jobRow,         \* Runs -> the row of a job: [status, ended, quality, hq]
    run,            \* Runs -> [pc, quality: does it test quality, found]
    seconds,        \* the clock, when the last job ended
    streak,         \* failures in a row, as they happened
    lastHQ,         \* high_quality of the quality job that completed last, 0 when it
                    \* found no node due, -1 for none
    calm,           \* no two endings overlapped or fell into one second, no write failed
    expected,       \* Kinds -> what the last evaluation should have found
    byHand          \* alerts an operator resolved since they were last evaluated

alertVars == <<alerts, jobRow, run, seconds, streak, lastHQ, calm, expected, byHand>>
history == <<streak, lastHQ, calm>>

NoRow == [status |-> "absent", ended |-> 0, quality |-> FALSE, hq |-> 0]
NoFind == [tested |-> 0, alive |-> 0, hq |-> 0, dominant |-> 0]

AlertInit ==
    /\ alerts = [k \in Kinds |-> [active |-> FALSE, acked |-> FALSE]]
    /\ jobRow = [r \in Runs |-> NoRow]
    /\ run = [r \in Runs |-> [pc |-> "new", quality |-> FALSE, found |-> NoFind]]
    /\ seconds = 0
    /\ streak = 0
    /\ lastHQ = -1
    /\ calm = TRUE
    /\ expected = [k \in Kinds |-> FALSE]
    /\ byHand = {}

-----------------------------------------------------------------------------
(* The table of alerts.                                                    *)

\* RaiseAlert, an upsert: a raised alert starts anew.
RaiseAlert(alert) == [active |-> TRUE, acked |-> FALSE]

\* ResolveAlertIfActive keeps the acknowledgement of an alert that is over.
ResolveAlertIfActive(alert) == [alert EXCEPT !.active = FALSE]

\* Raise the alerts of bad and resolve those of good.  The webhook that is called
\* after RaiseAlert changes nothing here.
Evaluate(bad, good) ==
    /\ alerts' = [k \in Kinds |-> IF k \in bad THEN RaiseAlert(alerts[k])
                                 ELSE IF k \in good THEN ResolveAlertIfActive(alerts[k]) ELSE alerts[k]]
    /\ byHand' = byHand \ (bad \cup good)

\* History is kept only as long as it says something.
Expect(bad, good) == expected' = [k \in Kinds |-> calm /\ k \notin good /\ (k \in bad \/ expected[k])]

\* changeAlert: only active alerts are found.
AcknowledgeAlert(k) ==
    /\ alerts[k].active
    /\ alerts' = [alerts EXCEPT ![k].acked = TRUE]
    /\ UNCHANGED <<jobRow, run, seconds, history, expected, byHand>>

ResolveAlert(k) ==
    /\ alerts[k].active
    /\ alerts' = [alerts EXCEPT ![k].active = FALSE]
    /\ byHand' = byHand \cup {k}
    /\ UNCHANGED <<jobRow, run, seconds, history, expected>>

-----------------------------------------------------------------------------
(* The history of jobs.                                                    *)

\* Newest first: ORDER BY ended_at DESC, id DESC.
Newer(a, b) == \/ jobRow[a].ended > jobRow[b].ended
               \/ jobRow[a].ended = jobRow[b].ended /\ a > b

\* The rows among the last limit of S that failed, up to the first that did not.
FailedFirst(S, limit) ==
    {r \in First(S, Newer, IF limit <= 0 THEN 10 ELSE limit) :
        \A x \in S : x = r \/ Newer(x, r) => jobRow[x].status = "failed"}

FailuresWithCanceled(limit) ==   \* mutant
    Cardinality(FailedFirst({r \in Runs : jobRow[r].status \in {"completed", "failed", "canceled"}}, limit))
\* The failed jobs before the first completed one.
RecentConsecutiveJobFailures(limit) ==
    Cardinality(FailedFirst({r \in Runs : jobRow[r].status \in {"completed", "failed"}}, limit))

\* high_quality of the last completed job that tested quality, -1 for none.
PreviousCompletedQualityStats(r) ==
    LET rows == {x \in Runs \ {r} : jobRow[x].quality /\ jobRow[x].status = "completed"}
    IN  IF rows = {} THEN -1 ELSE jobRow[CHOOSE x \in rows : \A y \in rows \ {x} : Newer(x, y)].hq

-----------------------------------------------------------------------------
(* A run.                                                                  *)

\* A quality phase without a node that is due evaluates nothing and stores no
\* high_quality, which is read as 0 later.
StartRun(r, quality, due) ==
    /\ run[r].pc = "new"
    /\ \A x \in Runs : run[x].pc = "new" => r <= x
    /\ Cardinality({x \in Runs : run[x].pc \notin {"new", "done"}}) < MaxRunning
    /\ run' = [run EXCEPT ![r] = [pc |-> IF quality /\ due THEN "probes" ELSE "work",
                                  quality |-> quality, found |-> NoFind]]
    /\ UNCHANGED <<alerts, jobRow, seconds, history, expected, byHand>>

Dominated(q) == q.hq > 0 /\ q.dominant * 100 >= SharePercent * q.hq
Dropped(previous, hq) == previous > 0 /\ (previous - hq) * 100 >= DropPercent * previous

\* detectQualityAnomalies: two alerts are about what this run found, ...
DetectNow(r, q) ==
    LET kinds == {"all-quality-probes-failed", "country-dominance"}
        bad == (IF q.tested > 0 /\ q.alive = 0 THEN {"all-quality-probes-failed"} ELSE {})
                   \cup (IF Dominated(q) THEN {"country-dominance"} ELSE {})
        unfit == {k \in kinds : IF k = "country-dominance"
                                THEN q.hq > 0 /\ (q.hq - q.dominant) * 100 <= (100 - SharePercent) * q.hq
                                ELSE q.tested > q.alive /\ ~(q.alive > 0)}
    IN  /\ run[r].pc = "probes"
        /\ run' = [run EXCEPT ![r].pc = "drop", ![r].found = q]
        /\ Evaluate(bad, kinds \ bad)
        /\ Expect(unfit, kinds \ unfit)
        /\ UNCHANGED <<jobRow, seconds, history>>

\* ... one compares it with the job before; without one the alert stays as it is.
DetectDrop(r) ==
    LET drop == {"high-quality-drop"}
        previous == PreviousCompletedQualityStats(r)
        hq == run[r].found.hq
    IN  /\ run[r].pc = "drop"
        /\ run' = [run EXCEPT ![r].pc = "work"]
        /\ \/ previous = -1 /\ UNCHANGED <<alerts, byHand>>
           \/ Dropped(previous, hq) /\ Evaluate(drop, {})
           \/ previous # -1 /\ ~Dropped(previous, hq) /\ Evaluate({}, drop)
        /\ \/ lastHQ = -1 /\ Expect({}, {})
           \/ Dropped(lastHQ, hq) /\ Expect(drop, {})
           \/ lastHQ # -1 /\ ~Dropped(lastHQ, hq) /\ Expect({}, drop)
        /\ UNCHANGED <<jobRow, seconds, history>>

Ending == {r \in Runs : run[r].pc \in {"completed", "failed", "raise"}}

\* complete and fail save the row (updateJob only logs an error), then look at
\* the alerts.  A run may fail anywhere in its phases.
EndRun(r, status) ==
    /\ run[r].pc \in {"work"} \cup (IF status = "completed" THEN {} ELSE {"probes", "drop"})
    /\ run' = [run EXCEPT ![r] = [@ EXCEPT !.pc = IF status = "canceled" THEN "done" ELSE status,
                                           !.found = NoFind]]
    /\ seconds' \in {seconds, seconds + 1}
    /\ \E saved \in BOOLEAN :
          /\ jobRow' = IF ~saved THEN jobRow
                       ELSE [jobRow EXCEPT ![r] = [status |-> status, ended |-> seconds',
                                                   quality |-> run[r].quality, hq |-> run[r].found.hq]]
          /\ calm' = (calm /\ saved /\ Ending = {} /\ seconds' > seconds)
    /\ streak' = IF status = "completed" \/ ~calm' THEN 0 ELSE IF status = "failed" THEN streak + 1 ELSE streak
    /\ lastHQ' = IF ~calm' THEN -1 ELSE IF status = "completed" /\ run[r].quality THEN run[r].found.hq ELSE lastHQ
    /\ UNCHANGED <<alerts, expected, byHand>>

Failing == {"consecutive-job-failures"}

complete(r) ==
    /\ run[r].pc = "completed"
    /\ run' = [run EXCEPT ![r].pc = "done"]
    /\ Evaluate({}, Failing)
    /\ Expect({}, Failing)
    /\ UNCHANGED <<jobRow, seconds, history>>

\* fail reads the history and raises the alert, it never resolves it.
CountFailures(r) ==
    /\ run[r].pc = "failed"
    /\ run' = [run EXCEPT ![r].pc = IF RecentConsecutiveJobFailures(Threshold) >= Threshold THEN "raise" ELSE "done"]
    /\ Expect(IF streak >= Threshold THEN Failing ELSE {}, {})
    /\ byHand' = IF streak >= Threshold THEN byHand \ Failing ELSE byHand
    /\ UNCHANGED <<alerts, jobRow, seconds, history>>

RaiseFailures(r) ==
    /\ run[r].pc = "raise"
    /\ run' = [run EXCEPT ![r].pc = "done"]
    /\ Evaluate(Failing, {})
    /\ UNCHANGED <<jobRow, seconds, history, expected>>

AlertNext ==
    \/ \E k \in Handled : AcknowledgeAlert(k) \/ ResolveAlert(k)
    \/ \E r \in Runs : \/ \E quality, due \in BOOLEAN : StartRun(r, quality, due)
                       \/ \E q \in Qualities : DetectNow(r, q)
                       \/ DetectDrop(r)
                       \/ \E status \in {"completed", "failed", "canceled"} : EndRun(r, status)
                       \/ complete(r) \/ CountFailures(r) \/ RaiseFailures(r)

-----------------------------------------------------------------------------
(* Properties.                                                             *)

\* An alert is active exactly when what it tells is so, unless an operator resolved
\* it: of the failing jobs, when that many jobs failed in a row since one completed
\* and no job is just ending (fail, complete, RecentConsecutiveJobFailures); of the
\* others, when the latest evaluation of a quality phase found it, compared with
\* the quality job that really completed last (detectQualityAnomalies).  Endings
\* that overlap, share a second or are not stored are excepted.
AlertsTell ==
    \A k \in Kinds : calm /\ (k \in Failing => Ending = {}) =>
        (alerts[k].active <=> expected[k] /\ k \notin byHand)
=============================================================================
