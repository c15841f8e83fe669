------------------------------ MODULE Pipeline ------------------------------
(***************************************************************************)
(* The jobs of internal/service and what they do to the nodes: which nodes *)
(* a quality phase picks and when they are due again, the rounds of a dial *)
(* phase, purity, countries and AI sites, which errors end a job and which *)
(* are noted, and what a cancellation leaves behind.  One job runs at a    *)
(* time.  A phase works on clones while it probes and writes them back at  *)
(* its end, a dial phase after every round (NodeStore has the writes and   *)
(* the pruning in detail).                                                 *)
(***************************************************************************)
EXTENDS Integers, FiniteSets, Sequences, SequencesExt, Scoring

CONSTANTS
    NodeIds,        \* the nodes there may be
    Plans,          \* bound: [after: geo and dial after the quality phase?, jobs: the jobs to come]
    MaxTest,        \* schedule.max_test
    BatchSize,      \* dial.batch_size
    Engine,         \* dial.engine: "both", or one of them
    DialTTL,        \* dial.verified_ttl_hours
    Failing,        \* the nodes that failed six times in a row before the first job
    Scores,         \* bound: scores that a test may give, in hundredths
    Hours           \* bound: the lengths of the pauses between jobs

ASSUME PipelineAssumption == IsFiniteSet(NodeIds) /\ MaxTest \in Nat \ {0}

VARIABLES
    node,           \* the store: NodeIds -> record
    job,            \* [type, todo, status, canceled, noted]
    work,           \* the nodes that the phase at work has still to probe and write
    plan,           \* the member of Plans, its jobs as far as they are not started
    cut,            \* history: phases of the job that a cancellation cut short
    missed,         \* history: quality phases that passed over a node since it was due
    churn           \* history: did nodes appear since the last time that all were tested?

pipeVars == <<node, job, work, plan, cut, missed, churn>>
hist == <<missed, churn>>

\* rank orders the nodes by TestedAt; wait are the hours until NextTestAt, dialAge
\* those since the dial.
Absent == [present |-> FALSE, alive |-> FALSE, rank |-> 0, wait |-> 0, fails |-> 0, score |-> 0,
           dial |-> "none", verified |-> FALSE, dialAge |-> 0, tags |-> {}, purity |-> "none"]
New == [Absent EXCEPT !.present = TRUE]
NoJob == [type |-> "none", todo |-> <<>>, status |-> "idle", canceled |-> FALSE, noted |-> {}]

Present == {n \in NodeIds : node[n].present}

PipeInit ==
    /\ node = [n \in NodeIds |-> IF n \in Failing THEN [New EXCEPT !.rank = 1, !.fails = 6] ELSE New]
    /\ job = NoJob
    /\ work = <<>>
    /\ plan \in Plans
    /\ cut = {}
    /\ missed = [n \in NodeIds |-> 0]
    /\ churn = FALSE

-----------------------------------------------------------------------------
(* Jobs.                                                                   *)

Fatal(phase) == [phase |-> phase, fatal |-> TRUE]
Noted(phase) == [phase |-> phase, fatal |-> FALSE]

\* runFull, runQuality, ...: the phases and whether an error of theirs ends the job.
Phases(type) ==
    LET after == IF plan.after THEN <<Noted("geo"), Noted("dial")>> ELSE <<>>
    IN  CASE type = "full" -> <<Fatal("fetch"), Fatal("quality")>> \o after \o <<Noted("ai")>>
          [] type = "quality" -> <<Fatal("quality")>> \o after
          [] OTHER -> <<Fatal(type)>>

StartJob ==
    /\ job.status # "running"
    /\ plan.jobs # <<>>
    /\ plan' = [plan EXCEPT !.jobs = Tail(@)]
    /\ job' = [NoJob EXCEPT !.type = Head(plan.jobs), !.todo = Phases(Head(plan.jobs)), !.status = "running"]
    /\ cut' = {}
    /\ UNCHANGED <<node, work, hist>>

Cancel ==
    /\ job.status = "running" /\ ~job.canceled
    /\ job' = [job EXCEPT !.canceled = TRUE]
    /\ UNCHANGED <<node, work, cut, hist>>

Running(phase) == job.status = "running" /\ job.todo # <<>> /\ Head(job.todo).phase = phase
Idle == work = <<>>

\* The phase is over.
Leave == work' = <<>> /\ job' = [job EXCEPT !.todo = Tail(@)]

ErrorIgnored(canceled) == work' = <<>> /\ job' = [job EXCEPT !.todo = Tail(@)]   \* mutant
\* The phase returns an error, context.Canceled or another one; fail tells them apart.
Error(canceled) ==
    /\ work' = <<>>
    /\ job' = IF Head(job.todo).fatal
              THEN [job EXCEPT !.todo = <<>>, !.status = IF canceled THEN "canceled" ELSE "failed"]
              ELSE [job EXCEPT !.todo = Tail(@), !.noted = @ \cup {Head(job.todo).phase}]

\* What the phase has is in memory; persisting it may fail.
Persist == Leave \/ Error(FALSE)

\* The context is canceled: the phase says so.
GiveUp ==
    /\ job.canceled
    /\ Error(TRUE)
    /\ cut' = cut \cup {Head(job.todo).phase}

\* doExport notes its errors, the job is complete.
Complete ==
    /\ job.status = "running" /\ job.todo = <<>>
    /\ job' = [job EXCEPT !.status = "completed"]
    /\ UNCHANGED <<node, work, cut, hist>>

\* Time between two jobs.
Pause(h) ==
    /\ job.status # "running"
    /\ node' = [n \in NodeIds |-> [node[n] EXCEPT !.wait = Larger(0, @ - h),
                                                  !.dialAge = IF node[n].dial = "none" THEN 0
                                                              ELSE Smaller(DialTTL, @ + h)]]
    /\ UNCHANGED <<job, work, cut, hist>>

-----------------------------------------------------------------------------
(* Fetch, as far as it matters here: nodes that no source lists are gone,  *)
(* others are new; those that stay keep what is known of them.             *)

doFetch ==
    /\ Running("fetch")
    /\ \/ /\ ~job.canceled
          /\ \E listed \in SUBSET NodeIds \ {{}} :
                /\ node' = [n \in NodeIds |-> IF n \notin listed THEN Absent
                                              ELSE IF node[n].present THEN node[n] ELSE New]
                /\ churn' = (churn \/ ~(listed \subseteq Present))
                /\ missed' = [n \in NodeIds |-> IF n \in listed THEN missed[n] ELSE 0]
          /\ Persist
          /\ UNCHANGED cut
       \/ Error(FALSE) /\ UNCHANGED <<node, missed, churn, cut>>
       \/ GiveUp /\ UNCHANGED <<node, missed, churn>>

-----------------------------------------------------------------------------
(* Quality.                                                                *)

Due == {n \in Present : node[n].wait = 0}

ByScore(a, b) == node[a].score > node[b].score   \* mutant
\* Never tested first, then the one tested longest ago, then the best.
TestsBefore(a, b) ==
    \/ node[a].rank < node[b].rank
    \/ node[a].rank = node[b].rank /\ node[a].score > node[b].score

\* The nodes that are tested: the first MaxTest of an order that TestsBefore allows.
Picked(S) ==
    /\ S \subseteq Due
    /\ Cardinality(S) = Smaller(MaxTest, Cardinality(Due))
    /\ \A a \in S, b \in Due \ S : ~TestsBefore(b, a)

Backoff(fails) == 2 ^ Smaller(fails - 1, 5)

\* testOne and what doQuality adds: buildTags starts the tags anew.
Tested(n, alive, score) ==
    IF alive
    THEN [node[n] EXCEPT !.alive = TRUE, !.fails = 0, !.wait = 6, !.score = score[n], !.tags = {}]
    ELSE [node[n] EXCEPT !.alive = FALSE, !.fails = Smaller(@ + 1, 7), !.wait = Backoff(node[n].fails + 1), !.score = 0]

\* The ranks stay small: those that occur are 0 and 1, 2, ...
Ranked(f, S) ==
    LET old == {f[n].rank : n \in {x \in NodeIds : f[x].present} \ S} \ {0}
        pos(r) == Cardinality({o \in old : o <= r})
    IN  [n \in NodeIds |-> IF n \in S THEN [f[n] EXCEPT !.rank = Cardinality(old) + 1]
                           ELSE [f[n] EXCEPT !.rank = pos(@)]]

\* With no node due the phase ends early, geo and dial of this job with it.
StartQuality ==
    /\ Running("quality") /\ Idle
    /\ \/ /\ Present = {}
          /\ Error(FALSE)
       \/ /\ Present # {} /\ Due = {}
          /\ job' = [job EXCEPT !.todo = SelectSeq(Tail(@), LAMBDA t : t.phase \notin {"geo", "dial"})]
          /\ UNCHANGED work
       \/ /\ \E S \in SUBSET NodeIds \ {{}} : Picked(S) /\ work' = SetToSeq(S)
          /\ UNCHANGED job
    /\ UNCHANGED <<node, cut, hist>>

\* All probes are over, or were cut short: nothing of a canceled test is written.
WriteQuality ==
    LET S == Range(work)
    IN  /\ Running("quality") /\ ~Idle
        /\ \/ /\ ~job.canceled
              /\ \E alive \in SUBSET S : \E score \in [alive -> Scores] :
                    node' = Ranked([n \in NodeIds |-> IF n \in S THEN Tested(n, n \in alive, score) ELSE node[n]], S)
              /\ missed' = [n \in NodeIds |-> IF n \in Due \ S THEN missed[n] + 1 ELSE 0]
              /\ churn' = (churn /\ Due # S)
              /\ Persist
              /\ UNCHANGED cut
           \/ GiveUp /\ UNCHANGED <<node, missed, churn>>

-----------------------------------------------------------------------------
(* Dial.                                                                   *)

Living == {n \in Present : node[n].alive}
HighQuality == {n \in Living : node[n].score >= 7000}

\* pickDialCandidates without a limit; DialPick has the order and the limit.
Dialable == IF HighQuality # {} THEN HighQuality ELSE Living
Recent(n) == node[n].dial # "none" /\ node[n].dialAge < DialTTL

\* force and max_dial are options of the job.  No engine may be available.
StartDial ==
    /\ Running("dial") /\ Idle
    /\ \/ \E force \in BOOLEAN :
             LET candidates == {n \in Dialable : force \/ ~Recent(n)}
             IN  IF candidates # {}
                 THEN \E S \in SUBSET candidates \ {{}} :
                         /\ work' = SetToSeq(S)
                         /\ UNCHANGED job
                 ELSE IF Dialable # {} THEN Leave ELSE Error(FALSE)
       \/ Error(FALSE)
    /\ UNCHANGED <<node, cut, hist>>

configuredDialEngines == IF Engine = "both" THEN <<"sing-box", "mihomo">> ELSE <<Engine>>

\* mihomo decides, or else the last engine that was asked.
combineDialChecks(checks) ==
    LET mihomo == {k \in DOMAIN checks : configuredDialEngines[k] = "mihomo"}
    IN  checks[IF mihomo = {} THEN Len(checks) ELSE CHOOSE k \in mihomo : TRUE]

AddDialTag(tags, verified) == tags \cup {IF verified THEN "verified" ELSE "dial-fail"}   \* mutant
setDialTag(tags, verified) ==
    (tags \ {"verified", "dial-fail"}) \cup {IF verified THEN "verified" ELSE "dial-fail"}

\* testOne for every engine, then the results combined and scored.
Dialed(n, checks, score) ==
    LET ok == combineDialChecks(checks)
    IN  [node[n] EXCEPT !.dial = IF ok THEN "ok" ELSE "failed", !.verified = ok, !.dialAge = 0,
                        !.alive = @ \/ (\E k \in DOMAIN checks : checks[k]),
                        !.tags = setDialTag(@, ok), !.score = score]

Round == {work[k] : k \in 1..Smaller(BatchSize, Len(work))}
Rest == SubSeq(work, BatchSize + 1, Len(work))

\* The next round, or the end of the phase.
EndRound == IF Rest = <<>> THEN Persist ELSE (work' = Rest /\ UNCHANGED job) \/ Error(FALSE)

\* One round.  A canceled context makes TestAll mark the nodes it did not reach, and
\* doDial return before it writes them.
DialRound ==
    /\ Running("dial") /\ ~Idle
    /\ \/ /\ ~job.canceled
          /\ \E checks \in [Round -> [DOMAIN configuredDialEngines -> BOOLEAN]] : \E score \in [Round -> Scores] :
                node' = [n \in NodeIds |-> IF n \in Round THEN Dialed(n, checks[n], score[n]) ELSE node[n]]
          /\ EndRound
          /\ UNCHANGED cut
       \/ GiveUp /\ UNCHANGED node
    /\ UNCHANGED hist

-----------------------------------------------------------------------------
(* Purity, countries and AI sites.  These phases do not ask the context    *)
(* once they started: what they have is written.                           *)

Verified == {n \in Living : node[n].verified /\ Recent(n)}

doPurity ==
    /\ Running("purity")
    /\ \/ /\ Verified # {}
          /\ \E reached \in SUBSET Verified :
                /\ ~job.canceled => reached = Verified
                /\ node' = [n \in NodeIds |-> IF n \notin Verified THEN node[n]
                               ELSE [node[n] EXCEPT !.purity = IF n \in reached THEN "tested" ELSE "canceled"]]
                /\ cut' = IF reached = Verified THEN cut ELSE cut \cup {"purity"}
          /\ Persist
       \/ Error(FALSE) /\ UNCHANGED <<node, cut>>   \* none verified, or no engine
    /\ UNCHANGED hist

\* The countries are not kept here; doGeo ignores the context.
doGeo == Running("geo") /\ Persist /\ UNCHANGED <<node, cut, hist>>

\* ProbeNodes takes the nodes that are alive or good enough, or all when there are none.
AICandidates ==
    LET some == {n \in Present : node[n].alive \/ node[n].score >= 5000}
    IN  IF some = {} THEN Present ELSE some

doAI ==
    /\ Running("ai")
    /\ \E reached \in SUBSET AICandidates : \E rate \in [reached -> {0, 100}] :
          /\ ~job.canceled => reached = AICandidates
          /\ node' = [n \in NodeIds |-> IF n \notin reached THEN node[n]
                         ELSE [node[n] EXCEPT !.score = boostAIScore(@, rate[n]),
                                              !.tags = IF rate[n] >= 75 THEN @ \cup {"ai-friendly"} ELSE @]]
          /\ cut' = IF reached = AICandidates THEN cut ELSE cut \cup {"ai"}
    /\ Persist
    /\ UNCHANGED hist

PipeNext ==
    \/ StartJob
    \/ /\ \/ Cancel \/ Complete
          \/ \E h \in Hours : Pause(h)
          \/ doFetch \/ StartQuality \/ WriteQuality \/ StartDial \/ DialRound
          \/ doPurity \/ doGeo \/ doAI
       /\ UNCHANGED plan

-----------------------------------------------------------------------------
(* Properties.                                                             *)

\* The tags say the same as the fields: a node tagged "verified" passed its last
\* dial, one tagged "dial-fail" did not, whatever phases ran, were canceled or
\* failed since (setDialTag, combineDialChecks, UpsertNodes).
TagsAgree ==
    \A n \in NodeIds : /\ "verified" \in node[n].tags => node[n].verified
                       /\ "dial-fail" \in node[n].tags => ~node[n].verified
                       /\ node[n].verified => node[n].dial = "ok"

\* A job that is reported complete did its fetch, quality and dial phases in full,
\* or notes that it did not; one that is reported canceled was cut short.
CutIsReported ==
    /\ job.status = "completed" => cut \ {"ai", "purity"} \subseteq job.noted
    /\ job.status = "canceled" => cut # {}

\* Every node that is due is tested in its turn: as long as no new nodes appear it
\* is passed over only until the others before it had theirs (doQuality's order
\* and MaxTest).
FairTesting == \A n \in NodeIds : ~churn => missed[n] * MaxTest < Cardinality(NodeIds)
=============================================================================
