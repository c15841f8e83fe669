---------------------------- MODULE PipelineProofs ----------------------------
(***************************************************************************)
(* The jobs and the nodes, for any nodes, plans of jobs and limits: what   *)
(* the tags of a node say, what a job that was cut short reports, and that *)
(* no node waits for its test while others have theirs twice.              *)
(***************************************************************************)
EXTENDS Pipeline, FiniteSetTheorems, TLAPS

PipeSpec == PipeInit /\ [][PipeNext]_pipeVars

-----------------------------------------------------------------------------
(* The nodes.                                                              *)

Fields == {"present", "alive", "rank", "wait", "fails", "score", "dial", "verified", "dialAge", "tags", "purity"}

\* What TagsAgree says of a node.
TagsOK(r) ==
    /\ "verified" \in r.tags => r.verified
    /\ "dial-fail" \in r.tags => ~r.verified
    /\ r.verified => r.dial = "ok"

NodeOK(r) == DOMAIN r = Fields /\ r.present \in BOOLEAN /\ r.rank \in Nat /\ TagsOK(r)

NodesOK == DOMAIN node = NodeIds /\ \A n \in NodeIds : NodeOK(node[n])

\* A node that is neither listed nor unlisted nor tested by a step.
Unranked(n) == node'[n].present = node[n].present /\ node'[n].rank = node[n].rank

\* What a phase writes of the other fields leaves the tags right.
LEMMA OtherFields ==
    ASSUME NEW r, NodeOK(r), NEW q, DOMAIN q = Fields,
           q.present = r.present, q.rank \in Nat, q.verified = r.verified, q.dial = r.dial,
           q.tags \subseteq r.tags \cup {"ai-friendly"}
    PROVE  NodeOK(q)
BY Zenon DEF NodeOK, TagsOK

\* Nodes that were never tested.
LEMMA BlankNodes ==
    /\ NodeOK(Absent) /\ NodeOK(New) /\ NodeOK([New EXCEPT !.rank = 1, !.fails = 6])
    /\ Absent.present = FALSE /\ New.present = TRUE
<1>1. NodeOK(Absent) /\ Absent.present = FALSE
  BY Zenon DEF NodeOK, Absent, Fields, TagsOK
<1>2. NodeOK(New) /\ New.present = TRUE
  BY Zenon DEF NodeOK, New, Absent, Fields, TagsOK
<1>3. ASSUME NEW q, q = [New EXCEPT !.rank = 1, !.fails = 6] PROVE NodeOK(q)
  <2>1. /\ DOMAIN q = Fields /\ q.rank = 1 /\ q.present = New.present /\ q.tags = New.tags
        /\ q.verified = New.verified /\ q.dial = New.dial
    BY <1>3, Zenon DEF New, Absent, Fields
  <2> QED
    BY <1>2, <2>1, OtherFields
<1> QED
  BY <1>1, <1>2, <1>3, Zenon

\* A test keeps the tags in order, and the place of the node.
LEMMA TestedFacts ==
    ASSUME NEW n \in NodeIds, NodeOK(node[n]), NEW alive, NEW score
    PROVE  LET q == Tested(n, alive, score)
           IN  NodeOK(q) /\ q.present = node[n].present /\ q.rank = node[n].rank
<1> DEFINE r == node[n]
<1>1. NodeOK(r) /\ DOMAIN r = Fields
  BY Zenon DEF NodeOK
<1> HIDE DEF r
<1>2. ASSUME NEW q, NEW x, q = [r EXCEPT !.alive = TRUE, !.fails = 0, !.wait = 6, !.score = x, !.tags = {}]
      PROVE  NodeOK(q) /\ q.present = r.present /\ q.rank = r.rank
  <2>1. /\ DOMAIN q = Fields /\ q.present = r.present /\ q.rank = r.rank
        /\ q.verified = r.verified /\ q.dial = r.dial /\ q.tags = {}
    BY <1>1, <1>2, Zenon DEF Fields
  <2> QED
    BY <1>1, <2>1, OtherFields, Zenon DEF NodeOK
<1>3. ASSUME NEW q, NEW x, NEW y, q = [r EXCEPT !.alive = FALSE, !.fails = x, !.wait = y, !.score = 0]
      PROVE  NodeOK(q) /\ q.present = r.present /\ q.rank = r.rank
  <2>1. /\ DOMAIN q = Fields /\ q.present = r.present /\ q.rank = r.rank
        /\ q.verified = r.verified /\ q.dial = r.dial /\ q.tags = r.tags
    BY <1>1, <1>3, Zenon DEF Fields
  <2> QED
    BY <1>1, <2>1, OtherFields, Zenon DEF NodeOK
<1>4. CASE alive
  BY <1>2, <1>4, Zenon DEF Tested, r
<1>5. CASE ~alive
  <2>1. Tested(n, alive, score) =
          [r EXCEPT !.alive = FALSE, !.fails = Smaller(r.fails + 1, 7), !.wait = Backoff(r.fails + 1), !.score = 0]
    BY <1>1, <1>5, Zenon DEF Tested, r
  <2> QED
    BY <1>3, <2>1, Zenon DEF r
<1> QED
  BY <1>4, <1>5, Zenon

\* A dial sets the tags that it is the reason for.
LEMMA DialedFacts ==
    ASSUME NEW n \in NodeIds, NodeOK(node[n]), NEW checks, NEW score
    PROVE  LET q == Dialed(n, checks, score)
           IN  NodeOK(q) /\ q.present = node[n].present /\ q.rank = node[n].rank
<1> DEFINE r == node[n]
           ok == combineDialChecks(checks)
<1>1. NodeOK(r) /\ DOMAIN r = Fields
  BY Zenon DEF NodeOK
<1>2. Dialed(n, checks, score) =
        [r EXCEPT !.dial = IF ok THEN "ok" ELSE "failed", !.verified = ok, !.dialAge = 0,
                  !.alive = r.alive \/ (\E k \in DOMAIN checks : checks[k]),
                  !.tags = setDialTag(r.tags, ok), !.score = score]
  BY <1>1, Zenon DEF Dialed
<1> HIDE DEF r, ok
<1>3. ASSUME NEW q, NEW a,
             q = [r EXCEPT !.dial = IF ok THEN "ok" ELSE "failed", !.verified = ok, !.dialAge = 0,
                           !.alive = a, !.tags = setDialTag(r.tags, ok), !.score = score]
      PROVE  NodeOK(q) /\ q.present = r.present /\ q.rank = r.rank
  <2>1. /\ DOMAIN q = Fields /\ q.present = r.present /\ q.rank = r.rank
        /\ q.verified = ok /\ q.dial = (IF ok THEN "ok" ELSE "failed") /\ q.tags = setDialTag(r.tags, ok)
    BY <1>1, <1>3, Zenon DEF Fields
  <2>2. TagsOK(q)
    BY <2>1, Zenon DEF TagsOK, setDialTag
  <2> QED
    BY <1>1, <2>1, <2>2, Zenon DEF NodeOK
<1> QED
  BY <1>2, <1>3, Zenon DEF r

\* The ranks of a finite set of nodes are finitely many.
LEMMA RanksFinite ==
    ASSUME NEW S \in SUBSET NodeIds, NEW rank \in [S -> Nat]
    PROVE  LET R == {rank[n] : n \in S} IN IsFiniteSet(R) /\ R \in SUBSET Nat
<1> DEFINE R == {rank[n] : n \in S}
<1>1. IsFiniteSet(S)
  BY PipelineAssumption, FS_Subset, Zenon
<1>2. rank \in Surjection(S, R)
  BY Zenon DEF Surjection
<1> HIDE DEF R
<1>3. IsFiniteSet(R)
  BY <1>1, <1>2, FS_Surjection, Zenon
<1>4. R \in SUBSET Nat
  BY Zenon DEF R
<1> QED
  BY <1>3, <1>4, Zenon DEF R

\* To count those up to r keeps the order of the ranks that there are.
LEMMA Counting ==
    ASSUME NEW R \in SUBSET Nat, IsFiniteSet(R), NEW r \in Nat
    PROVE  /\ Cardinality({o \in R : o <= r}) \in Nat /\ Cardinality(R) \in Nat
           /\ Cardinality({o \in R : o <= r}) <= Cardinality(R)
           /\ \A s \in R : r < s => Cardinality({o \in R : o <= r}) < Cardinality({o \in R : o <= s})
<1> DEFINE L == {o \in R : o <= r}
<1>1. /\ IsFiniteSet(L) /\ Cardinality(L) \in Nat /\ Cardinality(R) \in Nat
      /\ Cardinality(L) <= Cardinality(R)
  BY FS_Subset, FS_CardinalityType, Zenon
<1>2. ASSUME NEW s \in R, r < s PROVE Cardinality(L) < Cardinality({o \in R : o <= s})
  <2> DEFINE M == {o \in R : o <= s}
  <2>1. L \in SUBSET M /\ s \in M /\ s \notin L /\ M \in SUBSET R
    <3>1. \A o \in R : o \in Nat /\ (o <= r => o <= s)
      BY <1>2
    <3>2. s \in Nat /\ s <= s /\ ~(s <= r)
      BY <1>2
    <3> QED
      BY <3>1, <3>2, Zenon
  <2>2. IsFiniteSet(M) /\ Cardinality(M) \in Nat
    BY <2>1, FS_Subset, FS_CardinalityType, Zenon
  <2> HIDE DEF L, M
  <2>3. Cardinality(L) <= Cardinality(M) /\ (Cardinality(M) = Cardinality(L) => M = L)
    BY <2>1, <2>2, FS_Subset, Zenon
  <2> QED
    BY <1>1, <2>1, <2>2, <2>3, SMTT(30) DEF M
<1> QED
  BY <1>1, <1>2, Zenon

\* A test moves its nodes behind all others and keeps the order of those.
LEMMA RankedFacts ==
    ASSUME NEW S \in SUBSET NodeIds, NEW f, DOMAIN f = NodeIds,
           \A n \in NodeIds : NodeOK(f[n]) /\ f[n].present = node[n].present /\ f[n].rank = node[n].rank
    PROVE  LET g == Ranked(f, S)
           IN  /\ DOMAIN g = NodeIds
               /\ \A n \in NodeIds : NodeOK(g[n]) /\ g[n].present = node[n].present
               /\ \A n \in S, m \in NodeIds \ S : g[n].rank > g[m].rank
               /\ \A n \in NodeIds \ S, m \in Present \ S :
                     node[m].rank > node[n].rank => g[m].rank > g[n].rank
<1> DEFINE X == {x \in NodeIds : f[x].present} \ S
           A == {f[n].rank : n \in X}
           old == A \ {0}
           pos(r) == Cardinality({o \in old : o <= r})
           g == Ranked(f, S)
<1>1. IsFiniteSet(old) /\ old \in SUBSET Nat
  <2> DEFINE rank == [n \in X |-> f[n].rank]
  <2>1. rank \in [X -> Nat] /\ X \in SUBSET NodeIds /\ A = {rank[n] : n \in X}
    BY Zenon DEF NodeOK
  <2>2. IsFiniteSet(A) /\ A \in SUBSET Nat
    BY <2>1, RanksFinite, Zenon
  <2> QED
    BY <2>2, FS_RemoveElement, Zenon
<1>2. g = [n \in NodeIds |-> IF n \in S THEN [f[n] EXCEPT !.rank = Cardinality(old) + 1]
                             ELSE [f[n] EXCEPT !.rank = pos(f[n].rank)]]
  BY Zenon DEF Ranked
<1>3. Cardinality(old) \in Nat /\ \A n \in NodeIds : pos(f[n].rank) \in Nat /\ pos(f[n].rank) <= Cardinality(old)
  <2> HIDE DEF old
  <2>1. \A n \in NodeIds : f[n].rank \in Nat
    BY Zenon DEF NodeOK
  <2> QED
    BY <1>1, <2>1, Counting, Zenon
<1>4. ASSUME NEW n \in NodeIds, NEW k \in Nat, NEW q, q = [f[n] EXCEPT !.rank = k]
      PROVE  NodeOK(q) /\ q.present = node[n].present /\ q.rank = k
  <2>1. DOMAIN f[n] = Fields /\ NodeOK(f[n])
    BY Zenon DEF NodeOK
  <2>2. /\ DOMAIN q = Fields /\ q.present = f[n].present /\ q.rank = k
        /\ q.verified = f[n].verified /\ q.dial = f[n].dial /\ q.tags = f[n].tags
    BY <1>4, <2>1, Zenon DEF Fields
  <2> QED
    BY <2>1, <2>2, OtherFields, Zenon
<1>5. ASSUME NEW n \in NodeIds
      PROVE  /\ NodeOK(g[n]) /\ g[n].present = node[n].present
             /\ n \in S => g[n].rank = Cardinality(old) + 1
             /\ n \notin S => g[n].rank = pos(node[n].rank)
  <2>1. CASE n \in S
    <3>1. g[n] = [f[n] EXCEPT !.rank = Cardinality(old) + 1] /\ Cardinality(old) + 1 \in Nat
      BY <1>2, <1>3, <2>1, SMTT(30)
    <3> HIDE DEF g, old
    <3> QED
      BY <1>4, <2>1, <3>1
  <2>2. CASE n \notin S
    <3>1. g[n] = [f[n] EXCEPT !.rank = pos(f[n].rank)] /\ pos(f[n].rank) \in Nat
      BY <1>2, <1>3, <2>2, Zenon
    <3> HIDE DEF g, pos
    <3> QED
      BY <1>4, <2>2, <3>1, SMTT(30)
  <2> QED
    BY <2>1, <2>2, Zenon
<1>6. ASSUME NEW n \in NodeIds \ S, NEW m \in Present \ S, node[m].rank > node[n].rank
      PROVE  pos(node[m].rank) > pos(node[n].rank)
  <2>1. node[n].rank \in Nat /\ node[m].rank \in Nat /\ m \in X /\ node[m].rank \in old
    BY <1>6 DEF Present, NodeOK
  <2> HIDE DEF old
  <2>2. pos(node[m].rank) \in Nat /\ pos(node[n].rank) \in Nat
    BY <1>1, <2>1, Counting, Zenon
  <2>3. pos(node[n].rank) < pos(node[m].rank)
    BY <1>1, <1>6, <2>1, Counting, Zenon
  <2> QED
    BY <2>2, <2>3, Zenon
<1>7. DOMAIN g = NodeIds
  BY <1>2, Zenon
<1> HIDE DEF g, pos, old
<1>8. \A n \in S, m \in NodeIds \ S : g[n].rank > g[m].rank
  BY <1>3, <1>5
<1>9. \A n \in NodeIds \ S, m \in Present \ S : node[m].rank > node[n].rank => g[m].rank > g[n].rank
  BY <1>5, <1>6 DEF Present
<1> QED
  BY <1>5, <1>7, <1>8, <1>9, Zenon DEF g

-----------------------------------------------------------------------------
(* The invariant.                                                          *)

JobOK == DOMAIN job = {"type", "todo", "status", "canceled", "noted"}

\* As long as a job may still complete, what was cut short is noted.
CutKept ==
    /\ job.status \in {"running", "completed"} => cut \ {"ai", "purity"} \subseteq job.noted
    /\ job.status = "canceled" => cut # {}

\* The nodes at work are those of the running phase, picked from the nodes as they
\* still are.
WorkInv == work # <<>> => (Running("quality") /\ Picked(Range(work))) \/ Running("dial")

\* The nodes that were tested after n was, or are gone.
Behind(n) == {m \in NodeIds \ {n} : ~node[m].present \/ node[m].rank > node[n].rank}

\* Every time that n was passed over, MaxTest more nodes fell behind it.
FairInv ==
    /\ missed \in [NodeIds -> Nat] /\ churn \in BOOLEAN
    /\ ~churn => \A n \in NodeIds : missed[n] * MaxTest <= Cardinality(Behind(n))

PipeInv == NodesOK /\ JobOK /\ CutKept /\ WorkInv /\ FairInv

\* Nodes can be counted.
LEMMA BehindFinite ==
    ASSUME NEW S \in SUBSET NodeIds
    PROVE  IsFiniteSet(S) /\ Cardinality(S) \in Nat /\ Cardinality(S) <= Cardinality(NodeIds)
BY PipelineAssumption, FS_Subset, FS_CardinalityType, Zenon

\* A step that ranks no node and counts none.
LEMMA FairKept ==
    ASSUME FairInv, UNCHANGED hist, \A n \in NodeIds : Unranked(n)
    PROVE  FairInv'
<1>1. \A n \in NodeIds : Behind(n)' = Behind(n)
  BY Zenon DEF Behind, Unranked
<1> QED
  BY <1>1, Zenon DEF FairInv, hist

-----------------------------------------------------------------------------
(* How phases end.                                                         *)

\* A phase that ends by itself, or with an error.
LEMMA EndFacts ==
    ASSUME JobOK, CutKept, job.status = "running", Leave \/ Error(FALSE),
           cut' \subseteq cut \cup {"ai", "purity"}
    PROVE  JobOK' /\ CutKept' /\ WorkInv'
<1>1. work' = <<>>
  BY Zenon DEF Leave, Error
<1>2. CASE Leave
  <2>1. JobOK' /\ job'.status = job.status /\ job'.noted = job.noted
    BY <1>2, Zenon DEF Leave, JobOK
  <2> QED
    BY <1>1, <2>1, Zenon DEF CutKept, WorkInv
<1>3. CASE Error(FALSE)
  <2>1. CASE Head(job.todo).fatal
    <3>1. JobOK' /\ job'.status = "failed"
      BY <1>3, <2>1, Zenon DEF Error, JobOK
    <3> QED
      BY <1>1, <3>1, Zenon DEF CutKept, WorkInv
  <2>2. CASE ~Head(job.todo).fatal
    <3>1. JobOK' /\ job'.status = job.status /\ job'.noted = job.noted \cup {Head(job.todo).phase}
      BY <1>3, <2>2, Zenon DEF Error, JobOK
    <3> QED
      BY <1>1, <3>1, Zenon DEF CutKept, WorkInv
  <2> QED
    BY <2>1, <2>2, Zenon
<1> QED
  BY <1>2, <1>3, Zenon

\* A phase that is canceled is noted, or ends the job.
LEMMA GiveUpFacts ==
    ASSUME JobOK, CutKept, job.status = "running", GiveUp
    PROVE  JobOK' /\ CutKept' /\ WorkInv'
<1>1. work' = <<>> /\ cut' = cut \cup {Head(job.todo).phase}
  BY Zenon DEF GiveUp, Error
<1>2. CASE Head(job.todo).fatal
  <2>1. JobOK' /\ job'.status = "canceled"
    BY <1>2, Zenon DEF GiveUp, Error, JobOK
  <2> QED
    BY <1>1, <2>1, Zenon DEF CutKept, WorkInv
<1>3. CASE ~Head(job.todo).fatal
  <2>1. JobOK' /\ job'.status = job.status /\ job'.noted = job.noted \cup {Head(job.todo).phase}
    BY <1>3, Zenon DEF GiveUp, Error, JobOK
  <2> QED
    BY <1>1, <2>1, Zenon DEF CutKept, WorkInv
<1> QED
  BY <1>2, <1>3, Zenon

\* SetToSeq lists a finite set.
LEMMA Listed ==
    ASSUME NEW S \in SUBSET NodeIds
    PROVE  Range(SetToSeq(S)) = S
<1> DEFINE k == Cardinality(S)
<1>1. IsFiniteSet(S) /\ k \in Nat
  BY BehindFinite, Zenon
<1>2. PICK b : b \in Bijection(1..k, S)
  BY <1>1, FS_CardinalityType, Zenon DEF ExistsBijection
<1>3. b \in [1..k -> S] /\ IsInjective(b)
  BY <1>2, Zenon DEF Bijection, Injection, IsInjective
<1>4. SetToSeq(S) \in [1..k -> S] /\ IsInjective(SetToSeq(S))
  BY <1>3, Zenon DEF SetToSeq
<1> DEFINE f == SetToSeq(S)
<1> HIDE DEF f, k
<1>5. f \in Injection(1..k, S)
  BY <1>4, Zenon DEF Injection, IsInjective, f
<1>6. Cardinality(1..k) = k
  BY <1>1, FS_Interval
<1>7. f \in Surjection(1..k, S)
  BY <1>1, <1>5, <1>6, FS_Injection, Zenon DEF k
<1>8. DOMAIN f = 1..k
  BY <1>4, Zenon DEF f
<1> QED
  BY <1>4, <1>7, <1>8, Zenon DEF Surjection, Range, f

-----------------------------------------------------------------------------
(* The steps.                                                              *)

\* The pass of a job outside its phases.
LEMMA JobSteps ==
    ASSUME PipeInv, StartJob \/ Cancel \/ Complete
    PROVE  PipeInv'
<1>1. NodesOK /\ JobOK /\ CutKept /\ WorkInv /\ FairInv
  BY Zenon DEF PipeInv
<1>2. UNCHANGED <<node, work, hist>>
  BY Zenon DEF StartJob, Cancel, Complete
<1>3. NodesOK' /\ FairInv'
  BY <1>1, <1>2, FairKept, Zenon DEF NodesOK, Unranked
<1>4. CASE StartJob
  <2>1. /\ JobOK' /\ job'.status = "running" /\ job'.noted = {} /\ cut' = {} /\ job.status # "running"
    BY <1>4, Zenon DEF StartJob, NoJob, JobOK
  <2>2. work' = <<>>
    BY <1>1, <1>2, <2>1, Zenon DEF WorkInv, Running
  <2> QED
    BY <1>3, <2>1, <2>2, Zenon DEF PipeInv, CutKept, WorkInv
<1>5. CASE Cancel
  <2>1. JobOK' /\ job'.status = job.status /\ job'.noted = job.noted /\ job'.todo = job.todo /\ cut' = cut
    BY <1>1, <1>5, Zenon DEF Cancel, JobOK
  <2>2. \A phase : Running(phase)' <=> Running(phase)
    BY <2>1, Zenon DEF Running
  <2>3. WorkInv'
    BY <1>1, <1>2, <2>2, Zenon DEF WorkInv, Picked, Due, Present, TestsBefore
  <2> QED
    BY <1>1, <1>3, <2>1, <2>3, Zenon DEF PipeInv, CutKept
<1>6. CASE Complete
  <2>1. /\ JobOK' /\ job'.status = "completed" /\ job'.noted = job.noted /\ cut' = cut
        /\ job.status = "running" /\ job.todo = <<>>
    BY <1>1, <1>6, Zenon DEF Complete, JobOK
  <2>2. work' = <<>>
    BY <1>1, <1>2, <2>1, Zenon DEF WorkInv, Running
  <2> QED
    BY <1>1, <1>3, <2>1, <2>2, Zenon DEF PipeInv, CutKept, WorkInv
<1> QED
  BY <1>4, <1>5, <1>6, Zenon

\* Between two jobs hours pass.
LEMMA PauseStep ==
    ASSUME PipeInv, NEW h \in Hours, Pause(h)
    PROVE  PipeInv'
<1>1. NodesOK /\ JobOK /\ CutKept /\ WorkInv /\ FairInv
  BY Zenon DEF PipeInv
<1>2. UNCHANGED <<job, work, cut, hist>> /\ job.status # "running" /\ DOMAIN node' = NodeIds
  BY Zenon DEF Pause
<1>3. ASSUME NEW n \in NodeIds PROVE NodeOK(node'[n]) /\ Unranked(n)
  <2>1. NodeOK(node[n]) /\ DOMAIN node[n] = Fields
    BY <1>1, Zenon DEF NodesOK, NodeOK
  <2>2. PICK x, y : node'[n] = [node[n] EXCEPT !.wait = x, !.dialAge = y]
    BY Zenon DEF Pause
  <2>3. /\ DOMAIN node'[n] = Fields /\ node'[n].present = node[n].present /\ node'[n].rank = node[n].rank
        /\ node'[n].verified = node[n].verified /\ node'[n].dial = node[n].dial /\ node'[n].tags = node[n].tags
    BY <2>1, <2>2, Zenon DEF Fields
  <2> QED
    BY <2>1, <2>3, OtherFields, Zenon DEF Unranked, NodeOK
<1>4. NodesOK' /\ FairInv'
  BY <1>1, <1>2, <1>3, FairKept, Zenon DEF NodesOK
<1>5. work = <<>>
  BY <1>1, <1>2, Zenon DEF WorkInv, Running
<1> QED
  BY <1>1, <1>2, <1>4, <1>5, Zenon DEF PipeInv, JobOK, CutKept, WorkInv

\* A fetch brings no node before another, unless it brings new ones.
LEMMA FetchStep ==
    ASSUME PipeInv, doFetch
    PROVE  PipeInv'
<1>1. NodesOK /\ JobOK /\ CutKept /\ WorkInv /\ FairInv /\ job.status = "running"
  BY Zenon DEF PipeInv, doFetch, Running
<1>2. CASE UNCHANGED <<node, missed, churn>>
  <2>1. NodesOK' /\ FairInv'
    BY <1>1, <1>2, FairKept, Zenon DEF NodesOK, Unranked, hist
  <2>2. JobOK' /\ CutKept' /\ WorkInv'
    <3>1. \/ GiveUp \/ ((Leave \/ Error(FALSE)) /\ cut' = cut)
      BY Zenon DEF doFetch, Persist
    <3> QED
      BY <1>1, <3>1, EndFacts, GiveUpFacts, ZenonT(30)
  <2> QED
    BY <2>1, <2>2, Zenon DEF PipeInv
<1>3. ASSUME NEW listed \in SUBSET NodeIds,
             node' = [n \in NodeIds |-> IF n \notin listed THEN Absent
                                        ELSE IF node[n].present THEN node[n] ELSE New],
             churn' = (churn \/ ~(listed \subseteq Present)),
             missed' = [n \in NodeIds |-> IF n \in listed THEN missed[n] ELSE 0],
             Persist, UNCHANGED cut
      PROVE  PipeInv'
  <2>1. JobOK' /\ CutKept' /\ WorkInv'
    BY <1>1, <1>3, EndFacts, Zenon DEF Persist
  <2>2. NodesOK'
    <3>1. \A n \in NodeIds : NodeOK(node'[n])
      BY <1>1, <1>3, BlankNodes, Zenon DEF NodesOK
    <3> QED
      BY <1>3, <3>1, Zenon DEF NodesOK
  <2>3. missed' \in [NodeIds -> Nat] /\ churn' \in BOOLEAN
    BY <1>1, <1>3, Zenon DEF FairInv
  <2>4. ASSUME ~churn', NEW n \in NodeIds
        PROVE  missed'[n] * MaxTest <= Cardinality(Behind(n)')
    <3>1. ~churn /\ listed \subseteq Present
      BY <1>3, <2>4, Zenon
    <3>2. Behind(n) \in SUBSET NodeIds /\ Behind(n)' \in SUBSET NodeIds
      BY Zenon DEF Behind
    <3>3. Cardinality(Behind(n)) \in Nat /\ Cardinality(Behind(n)') \in Nat /\ IsFiniteSet(Behind(n)')
      BY <3>2, BehindFinite, Zenon
    <3>4. CASE n \in listed
      <4>1. node'[n] = node[n] /\ missed'[n] = missed[n] /\ missed[n] \in Nat
        BY <1>1, <1>3, <3>1, <3>4, Zenon DEF Present, FairInv
      <4>2. Behind(n) \in SUBSET Behind(n)'
        <5>1. ASSUME NEW m \in Behind(n) PROVE m \in Behind(n)'
          <6>1. m \in NodeIds \ {n} /\ (~node[m].present \/ node[m].rank > node[n].rank)
            BY Zenon DEF Behind
          <6>2. node'[m] = Absent \/ (m \in listed /\ node'[m] = node[m] /\ node[m].present)
            BY <1>3, <3>1, <6>1, Zenon DEF Present
          <6> QED
            BY <4>1, <6>1, <6>2, BlankNodes, Zenon DEF Behind
        <5> QED
          BY <5>1, Zenon
      <4>3. Cardinality(Behind(n)) <= Cardinality(Behind(n)')
        BY <3>3, <4>2, FS_Subset, Zenon
      <4>4. missed[n] * MaxTest <= Cardinality(Behind(n)) /\ missed[n] * MaxTest \in Nat
        BY <1>1, <3>1, <4>1, PipelineAssumption, SMTT(30) DEF FairInv
      <4> QED
        BY <3>3, <4>1, <4>3, <4>4, SMTT(30)
    <3>5. CASE n \notin listed
      <4>1. missed'[n] = 0 /\ 0 * MaxTest = 0
        BY <1>3, <3>5, PipelineAssumption, SMTT(30)
      <4> QED
        BY <3>3, <4>1
    <3> QED
      BY <3>4, <3>5, Zenon
  <2>5. FairInv'
    BY <2>3, <2>4, Zenon DEF FairInv
  <2> QED
    BY <2>1, <2>2, <2>5, Zenon DEF PipeInv
<1> QED
  BY <1>2, <1>3, Zenon DEF doFetch

\* A phase that ends, or goes on with the same job, and ranks no node.
LEMMA PhaseStep ==
    ASSUME PipeInv, job.status = "running", UNCHANGED hist, DOMAIN node' = NodeIds,
           \A n \in NodeIds : NodeOK(node'[n]) /\ Unranked(n),
           \/ GiveUp
           \/ (Leave \/ Error(FALSE)) /\ cut' \subseteq cut \cup {"ai", "purity"}
    PROVE  PipeInv'
<1>1. NodesOK' /\ FairInv'
  BY FairKept, Zenon DEF PipeInv, NodesOK
<1>2. JobOK' /\ CutKept' /\ WorkInv'
  BY EndFacts, GiveUpFacts, Zenon DEF PipeInv
<1> QED
  BY <1>1, <1>2, Zenon DEF PipeInv

\* doQuality picks the nodes.
LEMMA StartQualityStep ==
    ASSUME PipeInv, StartQuality
    PROVE  PipeInv'
<1>1. /\ NodesOK /\ JobOK /\ CutKept /\ WorkInv /\ FairInv
      /\ job.status = "running" /\ Running("quality") /\ work = <<>> /\ UNCHANGED <<node, cut, hist>>
  BY Zenon DEF PipeInv, StartQuality, Running, Idle
<1>2. DOMAIN node' = NodeIds /\ \A n \in NodeIds : NodeOK(node'[n]) /\ Unranked(n)
  BY <1>1, Zenon DEF NodesOK, Unranked
<1>3. CASE Error(FALSE)
  BY <1>1, <1>2, <1>3, PhaseStep, ZenonT(30)
<1>4. ASSUME NEW t, job' = [job EXCEPT !.todo = t], UNCHANGED work PROVE PipeInv'
  <2>1. JobOK' /\ job'.status = job.status /\ job'.noted = job.noted
    BY <1>1, <1>4, Zenon DEF JobOK
  <2>2. CutKept' /\ WorkInv'
    BY <1>1, <1>4, <2>1, Zenon DEF CutKept, WorkInv
  <2> QED
    BY <1>1, <1>2, <2>1, <2>2, FairKept, Zenon DEF PipeInv, NodesOK
<1>5. ASSUME NEW S \in SUBSET NodeIds, Picked(S), work' = SetToSeq(S), UNCHANGED job PROVE PipeInv'
  <2>1. Range(work') = S
    BY <1>5, Listed, Zenon
  <2>2. Picked(S)' /\ Running("quality")'
    BY <1>1, <1>5, Zenon DEF Picked, Due, Present, TestsBefore, Running
  <2>3. WorkInv'
    BY <2>1, <2>2, Zenon DEF WorkInv
  <2>4. JobOK' /\ CutKept'
    BY <1>1, <1>5, Zenon DEF JobOK, CutKept
  <2> QED
    BY <1>1, <1>2, <2>3, <2>4, FairKept, Zenon DEF PipeInv, NodesOK
<1> QED
  BY <1>3, <1>4, <1>5, Zenon DEF StartQuality

\* A node that is due and not tested sees MaxTest nodes fall behind it.
LEMMA PassedOver ==
    ASSUME NodesOK, NEW S, Picked(S), NEW n \in Due \ S
    PROVE  /\ S \in SUBSET NodeIds /\ Cardinality(S) = MaxTest /\ n \in NodeIds
           /\ \A a \in S : a # n /\ node[a].present /\ ~(node[a].rank > node[n].rank)
<1>1. S \in SUBSET Due /\ Due \in SUBSET NodeIds /\ n \in Due
  BY Zenon DEF Picked, Due, Present
<1>2. /\ IsFiniteSet(Due) /\ IsFiniteSet(S) /\ Cardinality(Due) \in Nat /\ Cardinality(S) \in Nat
  BY <1>1, BehindFinite, Zenon
<1>3. Cardinality(S) # Cardinality(Due)
  BY <1>1, <1>2, FS_Subset, Zenon
<1>4. Cardinality(S) = MaxTest
  BY <1>2, <1>3, PipelineAssumption, Zenon DEF Picked, Smaller
<1>5. ASSUME NEW a \in S PROVE a # n /\ node[a].present /\ ~(node[a].rank > node[n].rank)
  <2>1. ~TestsBefore(n, a) /\ a \in Due
    BY <1>1, Zenon DEF Picked
  <2>2. node[a].rank \in Nat /\ node[n].rank \in Nat
    BY <1>1, <2>1, Zenon DEF NodesOK, NodeOK
  <2> QED
    BY <2>1, <2>2, Zenon DEF TestsBefore, Due, Present
<1> QED
  BY <1>1, <1>4, <1>5, Zenon

\* doQuality writes its results: those it picked go behind the others.
LEMMA WriteQualityStep ==
    ASSUME PipeInv, WriteQuality
    PROVE  PipeInv'
<1>1. /\ NodesOK /\ JobOK /\ CutKept /\ WorkInv /\ FairInv
      /\ job.status = "running" /\ Running("quality") /\ work # <<>>
  BY Zenon DEF PipeInv, WriteQuality, Running, Idle
<1>2. CASE GiveUp /\ UNCHANGED <<node, missed, churn>>
  BY <1>1, <1>2, PhaseStep, Zenon DEF NodesOK, Unranked, hist
<1>3. ~Running("dial")
  BY <1>1, Zenon DEF Running
<1>4. PICK S : S = Range(work)
  BY Zenon
<1>5. Picked(S) /\ S \in SUBSET NodeIds
  BY <1>1, <1>3, <1>4, Zenon DEF WorkInv, Picked, Due, Present
<1>6. ASSUME NEW alive, NEW score,
             node' = Ranked([n \in NodeIds |-> IF n \in S THEN Tested(n, n \in alive, score) ELSE node[n]], S),
             missed' = [n \in NodeIds |-> IF n \in Due \ S THEN missed[n] + 1 ELSE 0],
             churn' = (churn /\ Due # S), Persist, UNCHANGED cut
      PROVE  PipeInv'
  <2>1. JobOK' /\ CutKept' /\ WorkInv'
    BY <1>1, <1>6, EndFacts, Zenon DEF Persist
  <2> DEFINE f == [n \in NodeIds |-> IF n \in S THEN Tested(n, n \in alive, score) ELSE node[n]]
  <2>2. DOMAIN f = NodeIds /\ \A n \in NodeIds : NodeOK(f[n]) /\ f[n].present = node[n].present
                                                 /\ f[n].rank = node[n].rank
    BY <1>1, TestedFacts DEF NodesOK
  <2>3. node' = Ranked(f, S)
    BY <1>6, Zenon
  <2> HIDE DEF f
  <2>4. /\ DOMAIN node' = NodeIds
        /\ \A n \in NodeIds : NodeOK(node'[n]) /\ node'[n].present = node[n].present
        /\ \A n \in S, m \in NodeIds \ S : node'[n].rank > node'[m].rank
        /\ \A n \in NodeIds \ S, m \in Present \ S :
              node[m].rank > node[n].rank => node'[m].rank > node'[n].rank
    BY <1>5, <2>2, <2>3, RankedFacts, ZenonT(30)
  <2>5. NodesOK'
    BY <2>4, Zenon DEF NodesOK
  <2>6. missed' \in [NodeIds -> Nat] /\ churn' \in BOOLEAN
    BY <1>1, <1>6 DEF FairInv
  <2>7. ASSUME ~churn', NEW n \in NodeIds PROVE missed'[n] * MaxTest <= Cardinality(Behind(n)')
    <3>1. Behind(n) \in SUBSET NodeIds /\ Behind(n)' \in SUBSET NodeIds
      BY Zenon DEF Behind
    <3>2. /\ Cardinality(Behind(n)) \in Nat /\ Cardinality(Behind(n)') \in Nat
          /\ IsFiniteSet(Behind(n)) /\ IsFiniteSet(Behind(n)')
      BY <3>1, BehindFinite, Zenon
    <3>3. CASE n \notin Due \ S
      <4>1. missed'[n] = 0 /\ 0 * MaxTest = 0
        BY <1>6, <3>3, PipelineAssumption, SMTT(30)
      <4> QED
        BY <3>2, <4>1
    <3>4. CASE n \in Due \ S
      <4>1. ~churn /\ missed'[n] = missed[n] + 1 /\ missed[n] \in Nat
        BY <1>1, <1>6, <2>7, <3>4, Zenon DEF FairInv
      <4>2. /\ Cardinality(S) = MaxTest /\ IsFiniteSet(S)
            /\ \A a \in S : a # n /\ node[a].present /\ ~(node[a].rank > node[n].rank)
        BY <1>1, <1>5, <3>4, PassedOver, BehindFinite, Zenon
      <4>3. S \cap Behind(n) = {}
        BY <4>2, Zenon DEF Behind
      <4>4. S \cup Behind(n) \in SUBSET Behind(n)'
        <5>1. ASSUME NEW a \in S PROVE a \in Behind(n)'
          BY <1>5, <2>4, <3>4, <4>2, Zenon DEF Behind
        <5>2. ASSUME NEW m \in Behind(n), m \notin S PROVE m \in Behind(n)'
          BY <2>4, <3>4, <5>2, Zenon DEF Behind, Present
        <5> QED
          BY <5>1, <5>2, Zenon
      <4>5. Cardinality(S \cup Behind(n)) = MaxTest + Cardinality(Behind(n))
        BY <3>2, <4>2, <4>3, FS_Union, FS_EmptySet, PipelineAssumption, SMTT(30)
      <4>6. Cardinality(S \cup Behind(n)) <= Cardinality(Behind(n)')
        BY <3>2, <4>4, FS_Subset, Zenon
      <4>7. missed[n] * MaxTest <= Cardinality(Behind(n)) /\ missed[n] * MaxTest \in Nat
        BY <1>1, <4>1, PipelineAssumption, SMTT(30) DEF FairInv
      <4>8. (missed[n] + 1) * MaxTest = missed[n] * MaxTest + MaxTest
        BY <4>1, PipelineAssumption
      <4> QED
        BY <3>2, <4>1, <4>5, <4>6, <4>7, <4>8, PipelineAssumption, SMTT(30)
    <3> QED
      BY <3>3, <3>4, Zenon
  <2>8. FairInv'
    BY <2>6, <2>7, Zenon DEF FairInv
  <2> QED
    BY <2>1, <2>5, <2>8, Zenon DEF PipeInv
<1>7. CASE ~(GiveUp /\ UNCHANGED <<node, missed, churn>>)
  <2>1. /\ \E alive \in SUBSET S : \E score \in [alive -> Scores] :
              node' = Ranked([n \in NodeIds |-> IF n \in S THEN Tested(n, n \in alive, score) ELSE node[n]], S)
        /\ missed' = [n \in NodeIds |-> IF n \in Due \ S THEN missed[n] + 1 ELSE 0]
        /\ churn' = (churn /\ Due # S) /\ Persist /\ UNCHANGED cut
    BY <1>4, <1>7, ZenonT(30) DEF WriteQuality
  <2>2. PICK alive \in SUBSET S : \E score \in [alive -> Scores] :
              node' = Ranked([n \in NodeIds |-> IF n \in S THEN Tested(n, n \in alive, score) ELSE node[n]], S)
    BY <2>1, Zenon
  <2>3. PICK score \in [alive -> Scores] :
              node' = Ranked([n \in NodeIds |-> IF n \in S THEN Tested(n, n \in alive, score) ELSE node[n]], S)
    BY <2>2, Zenon
  <2> QED
    BY <1>6, <2>1, <2>3, Zenon
<1> QED
  BY <1>2, <1>7, Zenon

\* doDial, round by round.
LEMMA DialSteps ==
    ASSUME PipeInv, StartDial \/ DialRound
    PROVE  PipeInv'
<1>1. /\ NodesOK /\ JobOK /\ CutKept /\ WorkInv /\ FairInv
      /\ job.status = "running" /\ Running("dial") /\ UNCHANGED hist
  BY Zenon DEF PipeInv, StartDial, DialRound, Running
<1>2. ASSUME DOMAIN node' = NodeIds, \A n \in NodeIds : NodeOK(node'[n]) /\ Unranked(n), UNCHANGED <<job, cut>>
      PROVE  PipeInv'
  <2>1. JobOK' /\ CutKept' /\ WorkInv'
    BY <1>1, <1>2, Zenon DEF JobOK, CutKept, WorkInv, Running
  <2> QED
    BY <1>1, <1>2, <2>1, FairKept, Zenon DEF PipeInv, NodesOK
<1>3. CASE StartDial
  <2>1. DOMAIN node' = NodeIds /\ (\A n \in NodeIds : NodeOK(node'[n]) /\ Unranked(n)) /\ UNCHANGED cut
    BY <1>1, <1>3, Zenon DEF StartDial, NodesOK, Unranked
  <2>2. UNCHANGED job \/ Leave \/ Error(FALSE)
    BY <1>3, Zenon DEF StartDial
  <2> QED
    BY <1>1, <1>2, <2>1, <2>2, PhaseStep, ZenonT(30)
<1>4. CASE DialRound
  <2>1. CASE GiveUp /\ UNCHANGED node
    BY <1>1, <2>1, PhaseStep, Zenon DEF NodesOK, Unranked
  <2>2. CASE ~(GiveUp /\ UNCHANGED node)
    <3>1. /\ \E checks \in [Round -> [DOMAIN configuredDialEngines -> BOOLEAN]] : \E score \in [Round -> Scores] :
                node' = [n \in NodeIds |-> IF n \in Round THEN Dialed(n, checks[n], score[n]) ELSE node[n]]
          /\ EndRound /\ UNCHANGED cut
      BY <1>4, <2>2, Zenon DEF DialRound
    <3>2. DOMAIN node' = NodeIds /\ \A n \in NodeIds : NodeOK(node'[n]) /\ Unranked(n)
      BY <1>1, <3>1, DialedFacts, SMTT(30) DEF NodesOK, Unranked
    <3>3. UNCHANGED job \/ Leave \/ Error(FALSE)
      BY <3>1, Zenon DEF EndRound, Persist
    <3> QED
      BY <1>1, <1>2, <3>1, <3>2, <3>3, PhaseStep, ZenonT(30)
  <2> QED
    BY <2>1, <2>2, Zenon
<1> QED
  BY <1>3, <1>4, Zenon

\* Purity, countries and AI sites.
LEMMA ProbeSteps ==
    ASSUME PipeInv, doPurity \/ doGeo \/ doAI
    PROVE  PipeInv'
<1>1. NodesOK /\ job.status = "running" /\ UNCHANGED hist
  BY Zenon DEF PipeInv, doPurity, doGeo, doAI, Running
<1>2. Leave \/ Error(FALSE)
  BY Zenon DEF doPurity, doGeo, doAI, Persist
<1>3. cut' \subseteq cut \cup {"ai", "purity"}
  BY ZenonT(30) DEF doPurity, doGeo, doAI
<1>4. CASE UNCHANGED node
  BY <1>1, <1>2, <1>3, <1>4, PhaseStep, ZenonT(30) DEF NodesOK, Unranked
<1>5. ASSUME NEW n \in NodeIds, NEW r, r = node[n], NEW q, q = node'[n], DOMAIN q = Fields,
             q.present = r.present, q.rank = r.rank, q.verified = r.verified, q.dial = r.dial,
             q.tags \subseteq r.tags \cup {"ai-friendly"}
      PROVE  NodeOK(node'[n]) /\ Unranked(n)
  <2>1. NodeOK(r) /\ r.rank \in Nat
    BY <1>1, <1>5, Zenon DEF NodesOK, NodeOK
  <2>2. NodeOK(q)
    BY <1>5, <2>1, OtherFields, Zenon
  <2> QED
    BY <1>5, <2>2, Zenon DEF Unranked
<1>6. CASE doPurity /\ ~UNCHANGED node
  <2>1. PICK reached : node' = [n \in NodeIds |-> IF n \notin Verified THEN node[n]
                ELSE [node[n] EXCEPT !.purity = IF n \in reached THEN "tested" ELSE "canceled"]]
    BY <1>6, Zenon DEF doPurity
  <2>2. DOMAIN node' = NodeIds /\ \A n \in NodeIds : NodeOK(node'[n]) /\ Unranked(n)
    <3>1. ASSUME NEW n \in NodeIds PROVE NodeOK(node'[n]) /\ Unranked(n)
      <4>1. PICK r : r = node[n] /\ DOMAIN r = Fields
        BY <1>1, Zenon DEF NodesOK, NodeOK
      <4>2. PICK q : q = node'[n]
        BY Zenon
      <4>3. q = r \/ \E x : q = [r EXCEPT !.purity = x]
        BY <2>1, <4>1, <4>2, Zenon
      <4>4. /\ DOMAIN q = Fields /\ q.present = r.present /\ q.rank = r.rank /\ q.verified = r.verified
            /\ q.dial = r.dial /\ q.tags = r.tags
        BY <4>1, <4>3, Zenon DEF Fields
      <4> QED
        BY <1>5, <4>1, <4>2, <4>4, Zenon
    <3> QED
      BY <2>1, <3>1, Zenon
  <2> QED
    BY <1>1, <1>2, <1>3, <2>2, PhaseStep, ZenonT(30)
<1>7. CASE doAI
  <2>1. PICK reached \in SUBSET AICandidates : \E rate \in [reached -> {0, 100}] :
              node' = [n \in NodeIds |-> IF n \notin reached THEN node[n]
                         ELSE [node[n] EXCEPT !.score = boostAIScore(@, rate[n]),
                                              !.tags = IF rate[n] >= 75 THEN @ \cup {"ai-friendly"} ELSE @]]
    BY <1>7, ZenonT(30) DEF doAI
  <2>2. PICK rate \in [reached -> {0, 100}] :
              node' = [n \in NodeIds |-> IF n \notin reached THEN node[n]
                         ELSE [node[n] EXCEPT !.score = boostAIScore(@, rate[n]),
                                              !.tags = IF rate[n] >= 75 THEN @ \cup {"ai-friendly"} ELSE @]]
    BY <2>1, Zenon
  <2>3. DOMAIN node' = NodeIds /\ \A n \in NodeIds : NodeOK(node'[n]) /\ Unranked(n)
    <3>1. ASSUME NEW n \in NodeIds PROVE NodeOK(node'[n]) /\ Unranked(n)
      <4>1. CASE n \notin reached
        BY <1>1, <2>2, <4>1, Zenon DEF Unranked, NodesOK
      <4>2. CASE n \in reached
        <5>1. PICK r : r = node[n] /\ DOMAIN r = Fields
          BY <1>1, Zenon DEF NodesOK, NodeOK
        <5>2. PICK q : q = node'[n]
          BY Zenon
        <5>3. \E x : q = [r EXCEPT !.score = x, !.tags = IF rate[n] >= 75 THEN r.tags \cup {"ai-friendly"} ELSE r.tags]
          BY <2>2, <4>2, <5>1, <5>2, ZenonT(30) DEF Fields
        <5>4. /\ DOMAIN q = Fields /\ q.present = r.present /\ q.rank = r.rank /\ q.verified = r.verified
              /\ q.dial = r.dial /\ q.tags \subseteq r.tags \cup {"ai-friendly"}
          BY <5>1, <5>3 DEF Fields
        <5> QED
          BY <1>5, <5>1, <5>2, <5>4, Zenon
      <4> QED
        BY <4>1, <4>2, Zenon
    <3> QED
      BY <2>2, <3>1, Zenon
  <2> QED
    BY <1>1, <1>2, <1>3, <2>3, PhaseStep, ZenonT(30)
<1>8. doGeo => UNCHANGED node
  BY Zenon DEF doGeo
<1> QED
  BY <1>4, <1>6, <1>7, <1>8, Zenon

\* The invariant holds at the start.
LEMMA PipeInitInv == PipeInit => PipeInv
<1> SUFFICES ASSUME PipeInit PROVE PipeInv
  BY Zenon
<1>1. NodesOK
  BY BlankNodes, Zenon DEF PipeInit, NodesOK
<1>2. JobOK /\ CutKept /\ WorkInv
  BY Zenon DEF PipeInit, NoJob, JobOK, CutKept, WorkInv
<1>3. FairInv
  <2>1. ASSUME NEW n \in NodeIds PROVE missed[n] * MaxTest <= Cardinality(Behind(n))
    <3>1. missed[n] = 0 /\ 0 * MaxTest = 0
      BY PipelineAssumption DEF PipeInit
    <3>2. Cardinality(Behind(n)) \in Nat
      BY BehindFinite, Zenon DEF Behind
    <3> QED
      BY <3>1, <3>2
  <2> QED
    BY <2>1, Zenon DEF FairInv, PipeInit
<1> QED
  BY <1>1, <1>2, <1>3, Zenon DEF PipeInv

\* Every step keeps the invariant.
LEMMA PipeNextInv == PipeInv /\ [PipeNext]_pipeVars => PipeInv'
<1> SUFFICES ASSUME PipeInv, [PipeNext]_pipeVars PROVE PipeInv'
  BY Zenon
<1>1. CASE UNCHANGED pipeVars
  <2>1. NodesOK' /\ JobOK' /\ CutKept'
    BY <1>1, Zenon DEF pipeVars, PipeInv, NodesOK, JobOK, CutKept
  <2>2. FairInv'
    BY <1>1, FairKept, Zenon DEF pipeVars, hist, PipeInv, Unranked
  <2>3. WorkInv'
    BY <1>1, Zenon DEF pipeVars, PipeInv, WorkInv, Running, Picked, Due, Present, TestsBefore
  <2> QED
    BY <2>1, <2>2, <2>3, Zenon DEF PipeInv
<1> QED
  BY <1>1, JobSteps, PauseStep, FetchStep, StartQualityStep, WriteQualityStep, DialSteps, ProbeSteps, Zenon DEF PipeNext

-----------------------------------------------------------------------------

\* The tags of a node never contradict its last dial, whatever phases ran, failed or
\* were canceled (setDialTag, buildTags, combineDialChecks).
THEOREM TagsAlwaysAgree == PipeSpec => []TagsAgree
<1>1. PipeInv => TagsAgree
  BY Zenon DEF PipeInv, NodesOK, NodeOK, TagsOK, TagsAgree
<1> QED
  BY <1>1, PipeInitInv, PipeNextInv, PTL DEF PipeSpec

\* A job is never reported complete without a note of a fetch, quality or dial phase
\* that was cut short, nor canceled when none was (runFull, runQuality, fail).
THEOREM CutAlwaysReported == PipeSpec => []CutIsReported
<1>1. PipeInv => CutIsReported
  BY Zenon DEF PipeInv, CutKept, CutIsReported
<1> QED
  BY <1>1, PipeInitInv, PipeNextInv, PTL DEF PipeSpec

\* As long as no new nodes appear, a node that is due is passed over by fewer quality
\* phases than it takes to test all the others, for any number of nodes and any max_test
\* (doQuality's order by TestedAt): every pass puts max_test others behind it for as long
\* as it waits.
THEOREM TestingIsFair == PipeSpec => []FairTesting
<1>1. PipeInv => FairTesting
  <2> SUFFICES ASSUME PipeInv, NEW n \in NodeIds, ~churn
               PROVE  missed[n] * MaxTest < Cardinality(NodeIds)
    BY Zenon DEF FairTesting
  <2>1. Behind(n) \in SUBSET (NodeIds \ {n})
    BY Zenon DEF Behind
  <2>2. /\ IsFiniteSet(NodeIds \ {n}) /\ Cardinality(NodeIds \ {n}) = Cardinality(NodeIds) - 1
        /\ Cardinality(NodeIds) \in Nat
    BY PipelineAssumption, FS_RemoveElement, FS_CardinalityType, Zenon
  <2>3. Cardinality(Behind(n)) \in Nat /\ Cardinality(Behind(n)) <= Cardinality(NodeIds \ {n})
    BY <2>1, <2>2, FS_Subset, FS_CardinalityType, Zenon
  <2>4. missed[n] * MaxTest <= Cardinality(Behind(n)) /\ missed[n] * MaxTest \in Nat
    BY PipelineAssumption DEF PipeInv, FairInv
  <2> QED
    BY <2>2, <2>3, <2>4, SMTT(30)
<1> QED
  BY <1>1, PipeInitInv, PipeNextInv, PTL DEF PipeSpec
=============================================================================
