------------------------------ MODULE Shutdown ------------------------------
(***************************************************************************)
(* The API process of an installation without a task queue: the loop of    *)
(* the scheduler and the HTTP handlers start jobs of their own (startNow,   *)
(* async), a signal ends the process.  main stops the scheduler, the HTTP  *)
(* server and the jobs in this order, within one timeout, and saves the    *)
(* node store last.                                                        *)
(***************************************************************************)
EXTENDS Integers, FiniteSets

CONSTANTS
    Jobs,           \* the jobs there may be (bound)
    Handlers,       \* HTTP requests in flight at a time (bound)
    MaxJobs         \* the limit of startNow

VARIABLES
    main,           \* main: "serve", "scheduler", "http", "cancel", "snapshot", "wait", "flush", "bye"
    loop,           \* Scheduler.loop: "jitter", "startup", "ticker", "stopped"
    stopCh,         \* closed by Stop
    runOnStart,     \* schedule.run_on_start
    http,           \* Handlers -> "idle", "call"
    direct,         \* Jobs -> "new", "running", "over"
    active,         \* Service.active
    canceled,       \* jobs whose context is canceled
    pending,        \* the jobs WaitForJob waits for
    expired,        \* the context of the shutdown is over
    unsaved         \* a job changed the node store since it was saved

shutVars == <<main, loop, stopCh, runOnStart, http, direct, active, canceled, pending, expired, unsaved>>

ShutInit ==
    /\ main = "serve"
    /\ loop \in {"jitter", "startup", "ticker"}
    /\ stopCh = FALSE
    /\ runOnStart \in BOOLEAN
    /\ loop = "startup" => runOnStart
    /\ http = [h \in Handlers |-> "idle"]
    /\ direct = [j \in Jobs |-> "new"]
    /\ active = {}
    /\ canceled = {}
    /\ pending = {}
    /\ expired = FALSE
    /\ unsaved = FALSE

-----------------------------------------------------------------------------
(* Jobs.                                                                   *)

\* The critical section of startNow; the job runs in its own goroutine.
startNow ==
    \/ /\ Cardinality(active) < MaxJobs
       /\ \E j \in Jobs : /\ direct[j] = "new"
                          /\ direct' = [direct EXCEPT ![j] = "running"]
                          /\ active' = active \cup {j}
    \/ /\ Cardinality(active) >= MaxJobs \/ \A j \in Jobs : direct[j] # "new"
       /\ UNCHANGED <<direct, active>>

WriteStore(j) ==
    /\ main # "bye"
    /\ direct[j] = "running"
    /\ unsaved' = TRUE
    /\ UNCHANGED <<main, loop, stopCh, runOnStart, http, direct, active, canceled, pending, expired>>

\* The deferred function of startNow removes the job and closes its done channel.
Finish(j) ==
    /\ main # "bye"
    /\ direct[j] = "running"
    /\ direct' = [direct EXCEPT ![j] = "over"]
    /\ active' = active \ {j}
    /\ UNCHANGED <<main, loop, stopCh, runOnStart, http, canceled, pending, expired, unsaved>>

-----------------------------------------------------------------------------
(* The scheduler and the HTTP handlers.                                    *)

LoopTo(to) ==
    /\ main # "bye"
    /\ loop' = to
    /\ UNCHANGED <<main, stopCh, runOnStart, http, canceled, pending, expired, unsaved>>

\* The random delay before the first run ends early when the scheduler stops.
JitterOver ==
    /\ loop = "jitter"
    /\ LoopTo(IF runOnStart THEN "startup" ELSE "ticker")
    /\ UNCHANGED <<direct, active>>

\* select: a tick and a stop that are both ready are taken in any order.
Fire ==
    /\ loop \in {"startup", "ticker"}
    /\ startNow
    /\ LoopTo("ticker")

LoopStopsLate ==   \* mutant
    /\ loop = "ticker"
    /\ stopCh
    /\ LoopTo("stopped")
    /\ UNCHANGED <<direct, active>>
LoopStops ==
    /\ loop \in {"jitter", "ticker"}
    /\ stopCh
    /\ LoopTo("stopped")
    /\ UNCHANGED <<direct, active>>

Request(h) ==
    /\ main \in {"serve", "scheduler"}
    /\ http[h] = "idle"
    /\ http' = [http EXCEPT ![h] = "call"]
    /\ UNCHANGED <<main, loop, stopCh, runOnStart, direct, active, canceled, pending, expired, unsaved>>

startJob(h) ==
    /\ main # "bye"
    /\ http[h] = "call"
    /\ http' = [http EXCEPT ![h] = "idle"]
    /\ startNow
    /\ UNCHANGED <<main, loop, stopCh, runOnStart, canceled, pending, expired, unsaved>>

-----------------------------------------------------------------------------
(* main.                                                                   *)

MainTo(to) ==
    /\ main' = to
    /\ UNCHANGED <<loop, runOnStart, http, direct, active>>

Signal ==
    /\ main = "serve"
    /\ stopCh' = TRUE
    /\ MainTo("scheduler")
    /\ UNCHANGED <<canceled, pending, expired, unsaved>>

\* Stop waits for the loop without a time limit.
StopScheduler ==
    /\ main = "scheduler"
    /\ loop = "stopped"
    /\ MainTo("http")
    /\ UNCHANGED <<stopCh, canceled, pending, expired, unsaved>>

\* srv.Shutdown takes no new requests and waits for those in flight.
ShutdownHTTP ==
    /\ main = "http"
    /\ expired \/ \A h \in Handlers : http[h] = "idle"
    /\ MainTo("cancel")
    /\ UNCHANGED <<stopCh, canceled, pending, expired, unsaved>>

\* Queue.Stop has nothing to stop here.
CancelJob ==
    /\ main = "cancel"
    /\ canceled' = active
    /\ pending' = {}
    /\ MainTo("snapshot")
    /\ UNCHANGED <<stopCh, expired, unsaved>>

Snapshot ==
    /\ main = "snapshot"
    /\ pending' = active
    /\ MainTo("wait")
    /\ UNCHANGED <<stopCh, canceled, expired, unsaved>>

WaitForNothing ==   \* mutant
    /\ main = "wait"
    /\ MainTo("flush")
    /\ UNCHANGED <<stopCh, canceled, pending, expired, unsaved>>
WaitForJob ==
    /\ main = "wait"
    /\ expired \/ pending \cap active = {}
    /\ MainTo("flush")
    /\ UNCHANGED <<stopCh, canceled, pending, expired, unsaved>>

Flush ==
    /\ main = "flush"
    /\ unsaved' = FALSE
    /\ MainTo("bye")
    /\ UNCHANGED <<stopCh, canceled, pending, expired>>

\* The timeout counts from the signal.
Expire ==
    /\ main \notin {"serve", "bye"}
    /\ ~expired
    /\ expired' = TRUE
    /\ UNCHANGED <<main, loop, stopCh, runOnStart, http, direct, active, canceled, pending, unsaved>>

\* The process is gone.
Gone == main = "bye" /\ UNCHANGED shutVars

ShutNext ==
    \/ JitterOver \/ Fire \/ LoopStops
    \/ \E h \in Handlers : Request(h) \/ startJob(h)
    \/ \E j \in Jobs : WriteStore(j) \/ Finish(j)
    \/ Signal \/ StopScheduler \/ ShutdownHTTP \/ CancelJob \/ Snapshot \/ WaitForJob \/ Flush
    \/ Expire
    \/ Gone

\* Goroutines make progress and time passes.  No fairness is assumed of jobs
\* and of handlers.
ShutFairness ==
    /\ WF_shutVars(LoopStops)
    /\ WF_shutVars(loop = "startup" /\ Fire)
    /\ WF_shutVars(Expire)
    /\ WF_shutVars(StopScheduler \/ ShutdownHTTP \/ CancelJob \/ Snapshot \/ WaitForJob \/ Flush)

-----------------------------------------------------------------------------
(* Properties.                                                             *)

\* Unless it ran out of its time, the process waits only for jobs that it told to
\* stop (none started between CancelJob and WaitForJob), and says "bye" with
\* everything its jobs wrote on disk and without a job, a handler or the loop
\* left behind.
CleanExit ==
    ~expired => /\ main = "wait" => pending \subseteq canceled
                /\ main = "bye" => /\ ~unsaved
                                   /\ active = {}
                                   /\ loop = "stopped"
                                   /\ \A h \in Handlers : http[h] = "idle"

\* A signal ends the process, whatever jobs and handlers do.
SignalEnds == stopCh ~> main = "bye"
=============================================================================
