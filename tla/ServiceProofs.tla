--------------------------- MODULE ServiceProofs ----------------------------
(***************************************************************************)
(* What the service tells its users, for every value of the constants: the *)
(* alerts of its runs, and the nodes it publishes.                         *)
(***************************************************************************)
EXTENDS Alerting, Publication, OrderedProofs

-----------------------------------------------------------------------------
(* Alerts.                                                                 *)

AlertSpec == AlertInit /\ [][AlertNext]_alertVars

Finds == [tested : Nat, alive : Nat, hq : Nat, dominant : Nat]

RunStates == [pc : {"new", "probes", "drop", "work", "completed", "failed", "raise", "done"},
              quality : BOOLEAN, found : Finds]

AlertTypeOK ==
    /\ alerts \in [Kinds -> [active : BOOLEAN, acked : BOOLEAN]]
    /\ jobRow \in [Runs -> [status : {"absent", "completed", "failed", "canceled"}, ended : Nat,
                            quality : BOOLEAN, hq : Nat]]
    /\ run \in [Runs -> RunStates]
    /\ seconds \in Nat /\ streak \in Nat /\ lastHQ \in Int /\ calm \in BOOLEAN
    /\ expected \in [Kinds -> BOOLEAN] /\ byHand \in SUBSET Kinds

\* The rows a failure streak consists of.
Streak == {r \in Runs : /\ jobRow[r].status = "failed"
                        /\ \A x \in Runs : jobRow[x].status = "completed" => ~Newer(x, r)}

Tested == {x \in Runs : jobRow[x].quality /\ jobRow[x].status = "completed"}

\* Calm: jobs end one after the other, their rows say when and how.
RowsInTime ==
    /\ \A r \in Runs : run[r].pc \in {"new", "probes", "drop", "work"} => jobRow[r].status = "absent"
    /\ \A r \in Runs : jobRow[r].status # "absent" => jobRow[r].ended <= seconds
    /\ \A r, x \in Ending : r = x

\* What the history of the behaviour says of the rows.
RowsTell ==
    /\ streak = Cardinality(Streak)
    /\ Tested = {} => lastHQ = -1
    /\ \A x \in Tested : (\A y \in Tested \ {x} : Newer(x, y)) => lastHQ = jobRow[x].hq

\* What the alerts say, in the middle of an ending too.
AlertsAgree ==
    /\ \A k \in Kinds \ Failing : (alerts[k].active <=> expected[k] /\ k \notin byHand)
    /\ (\A r \in Ending : run[r].pc = "failed") =>
          \A k \in Failing : (alerts[k].active <=> expected[k] /\ k \notin byHand)
    /\ (\E r \in Runs : run[r].pc = "raise") => \A k \in Failing : expected[k]

AInv == AlertTypeOK /\ (calm => RowsInTime /\ RowsTell /\ AlertsAgree)

NewerRows == {p \in Runs \X Runs : Newer(p[1], p[2])}
OlderRows == {p \in Runs \X Runs : Newer(p[2], p[1])}

\* ORDER BY ended_at DESC, id DESC leaves nothing open.
LEMMA NewerOrders ==
    ASSUME AlertTypeOK, NEW S \in SUBSET Runs
    PROVE  Orders(NewerRows, S) /\ Orders(OlderRows, S) /\ IsFiniteSet(S)
<1>1. \A r \in Runs : r \in Nat /\ jobRow[r].ended \in Nat
  BY AlertAssumption, Zenon DEF AlertTypeOK
<1>2. /\ \A a \in Runs : ~Newer(a, a)
      /\ \A a, b \in Runs : a # b => Newer(a, b) \/ Newer(b, a)
      /\ \A a, b, c \in Runs : Newer(a, b) /\ Newer(b, c) => Newer(a, c)
  BY <1>1 DEF Newer
<1>3. \A a, b \in Runs : /\ <<a, b>> \in NewerRows <=> Newer(a, b)
                         /\ <<a, b>> \in OlderRows <=> Newer(b, a)
  BY Zenon DEF NewerRows, OlderRows
<1>4. Orders(NewerRows, S) /\ Orders(OlderRows, S)
  BY <1>2, <1>3, Zenon DEF Orders
<1> QED
  BY <1>4, AlertAssumption, FS_Subset, Zenon

\* The history that fail reads tells whether the streak is long enough.
LEMMA StreakCounted ==
    ASSUME AlertTypeOK
    PROVE  /\ Cardinality(Streak) \in Nat /\ IsFiniteSet(Streak)
           /\ RecentConsecutiveJobFailures(Threshold) >= Threshold <=> Cardinality(Streak) >= Threshold
<1> DEFINE S == {r \in Runs : jobRow[r].status \in {"completed", "failed"}}
           n == IF Threshold <= 0 THEN 10 ELSE Threshold
           R == NewerRows
<1>1. /\ S \in SUBSET Runs /\ Streak \in SUBSET Runs /\ Streak \in SUBSET S
      /\ n \in Nat /\ Threshold \in Nat /\ (Threshold = 0 \/ n = Threshold)
  BY AlertAssumption DEF Streak
<1>2. Orders(R, S) /\ Orders(R, Streak) /\ IsFiniteSet(Streak) /\ Cardinality(Streak) \in Nat
  BY <1>1, NewerOrders, FS_CardinalityType, Zenon
<1>3. \A a, b \in Runs : <<a, b>> \in R <=> Newer(a, b)
  BY Zenon DEF NewerRows
<1>4. First(S, Newer, n) = FirstIn(R, S, n)
  BY <1>1, <1>3, Zenon DEF First, FirstIn, Ahead
<1>5. \A r \in S : r \in Streak <=> \A x \in S : x = r \/ Newer(x, r) => jobRow[x].status = "failed"
  <2>1. \A x \in Runs : x \in S <=> jobRow[x].status \in {"completed", "failed"}
    BY Zenon
  <2>2. \A r \in Runs : ~Newer(r, r)
    BY AlertAssumption DEF Newer, AlertTypeOK
  <2> QED
    BY <2>1, <2>2, Zenon DEF Streak
<1>6. \A r \in Streak : Ahead(R, S, r) = Ahead(R, Streak, r)
  <2> SUFFICES ASSUME NEW r \in Streak, NEW x \in S, Newer(x, r)
               PROVE  x \in Streak
    BY <1>1, <1>3, Zenon DEF Ahead
  <2>1. \A y \in S : y = x \/ Newer(y, x) => y = r \/ Newer(y, r)
    BY <1>1, <1>2, <1>3, Zenon DEF Orders
  <2> QED
    BY <1>1, <1>5, <2>1, Zenon
<1>7. FailedFirst(S, Threshold) = FirstIn(R, Streak, n)
  <2>1. FailedFirst(S, Threshold) = {r \in FirstIn(R, S, n) : r \in Streak}
    BY <1>4, <1>5, Zenon DEF FailedFirst, FirstIn
  <2> QED
    BY <1>1, <1>6, <2>1, Zenon DEF FirstIn
<1>8. RecentConsecutiveJobFailures(Threshold) = Cardinality(FirstIn(R, Streak, n))
  BY <1>7, Zenon DEF RecentConsecutiveJobFailures
<1> HIDE DEF n, R, S
<1>9. Cardinality(FirstIn(R, Streak, n)) = IF Cardinality(Streak) <= n THEN Cardinality(Streak) ELSE n
  BY <1>1, <1>2, FirstFacts
<1> QED
  BY <1>1, <1>2, <1>8, <1>9

\* The job that detectQualityAnomalies compares with is the one that completed last.
LEMMA PreviousIsLast ==
    ASSUME AlertTypeOK, RowsInTime, RowsTell, NEW r \in Runs, run[r].pc = "drop"
    PROVE  PreviousCompletedQualityStats(r) = lastHQ
<1>1. {x \in Runs \ {r} : jobRow[x].quality /\ jobRow[x].status = "completed"} = Tested
  BY Zenon DEF RowsInTime, Tested
<1>2. Tested \in SUBSET Runs
  BY Zenon DEF Tested
<1>3. ASSUME Tested # {}
      PROVE  \E x \in Tested : \A y \in Tested \ {x} : Newer(x, y)
  <2>1. Orders(OlderRows, Tested) /\ IsFiniteSet(Tested)
    BY <1>2, NewerOrders, Zenon
  <2>2. \E x \in Tested : \A y \in Tested \ {x} : <<y, x>> \in OlderRows
    BY <1>3, <2>1, LastExists
  <2> QED
    BY <1>2, <2>2, Zenon DEF OlderRows
<1>4. Tested # {} => jobRow[CHOOSE x \in Tested : \A y \in Tested \ {x} : Newer(x, y)].hq = lastHQ
  BY <1>3, Zenon DEF RowsTell
<1> QED
  BY <1>1, <1>4, Zenon DEF PreviousCompletedQualityStats, RowsTell

\* Evaluating what is expected leaves the alerts in agreement.
LEMMA EvaluateTells ==
    ASSUME AlertTypeOK, NEW bad \in SUBSET Kinds, NEW good \in SUBSET Kinds, Evaluate(bad, good)
    PROVE  /\ alerts' \in [Kinds -> [active : BOOLEAN, acked : BOOLEAN]] /\ byHand' \in SUBSET Kinds
           /\ Expect(bad, good) /\ calm /\ bad \cap good = {} =>
                 \A k \in Kinds : k \in bad \cup good \/ (alerts[k].active <=> expected[k] /\ k \notin byHand) =>
                     (alerts'[k].active <=> expected'[k] /\ k \notin byHand')
           /\ \A k \in Kinds \ (bad \cup good) : alerts'[k] = alerts[k] /\ (k \in byHand' <=> k \in byHand)
<1>1. \A k \in Kinds : alerts[k] \in [active : BOOLEAN, acked : BOOLEAN] /\ expected[k] \in BOOLEAN
  BY Zenon DEF AlertTypeOK
<1>2. \A k \in Kinds : alerts'[k] = IF k \in bad THEN [active |-> TRUE, acked |-> FALSE]
                                   ELSE IF k \in good THEN [alerts[k] EXCEPT !.active = FALSE] ELSE alerts[k]
  BY Zenon DEF Evaluate, RaiseAlert, ResolveAlertIfActive
<1>3. \A k \in Kinds : /\ alerts'[k] \in [active : BOOLEAN, acked : BOOLEAN]
                       /\ alerts'[k].active <=> k \in bad \/ (k \notin good /\ alerts[k].active)
                       /\ k \notin bad \cup good => alerts'[k] = alerts[k]
  <2> SUFFICES ASSUME NEW k \in Kinds
               PROVE  /\ alerts'[k] \in [active : BOOLEAN, acked : BOOLEAN]
                      /\ alerts'[k].active <=> k \in bad \/ (k \notin good /\ alerts[k].active)
                      /\ k \notin bad \cup good => alerts'[k] = alerts[k]
    BY Zenon
  <2>1. CASE k \in bad
    <3>1. alerts'[k] = [active |-> TRUE, acked |-> FALSE]
      BY <1>2, <2>1, Zenon
    <3> QED
      BY <2>1, <3>1
  <2>2. CASE k \notin bad /\ k \in good
    <3>1. alerts'[k] = [alerts[k] EXCEPT !.active = FALSE]
      BY <1>2, <2>2, Zenon
    <3> QED
      BY <1>1, <2>2, <3>1, Zenon
  <2>3. CASE k \notin bad \cup good
    BY <1>1, <1>2, <2>3, Zenon
  <2> QED
    BY <2>1, <2>2, <2>3, Zenon
<1>4. byHand' = byHand \ (bad \cup good)
  BY Zenon DEF Evaluate
<1>5. alerts' \in [Kinds -> [active : BOOLEAN, acked : BOOLEAN]] /\ byHand' \in SUBSET Kinds
  <2>1. alerts' = [k \in Kinds |-> alerts'[k]]
    BY Zenon DEF Evaluate
  <2>2. byHand \in SUBSET Kinds
    BY Zenon DEF AlertTypeOK
  <2> QED
    BY <1>3, <1>4, <2>1, <2>2, Zenon
<1>6. ASSUME Expect(bad, good), calm, bad \cap good = {}, NEW k \in Kinds,
             k \in bad \cup good \/ (alerts[k].active <=> expected[k] /\ k \notin byHand)
      PROVE  (alerts'[k].active <=> expected'[k] /\ k \notin byHand')
  <2>1. expected'[k] <=> (k \notin good /\ (k \in bad \/ expected[k]))
    BY <1>1, <1>6, Zenon DEF Expect
  <2> QED
    BY <1>1, <1>3, <1>4, <1>6, <2>1, Zenon
<1> QED
  BY <1>3, <1>4, <1>5, <1>6, Zenon

\* Expectations are truth values.
LEMMA ExpectType ==
    ASSUME AlertTypeOK, NEW bad, NEW good, Expect(bad, good)
    PROVE  expected' \in [Kinds -> BOOLEAN]
BY Zenon DEF AlertTypeOK, Expect

\* No job has ended at the start.
LEMMA AlertInitOK == AlertInit => AInv
<1> SUFFICES ASSUME AlertInit
             PROVE  AInv
  BY Zenon
<1>1. NoFind \in Finds /\ NoRow \in [status : {"absent", "completed", "failed", "canceled"}, ended : Nat,
                                     quality : BOOLEAN, hq : Nat]
  BY Zenon DEF NoFind, NoRow, Finds
<1>2. AlertTypeOK
  BY <1>1 DEF AlertInit, AlertTypeOK, RunStates
<1>3. \A r \in Runs : run[r].pc = "new" /\ jobRow[r].status = "absent"
  BY Zenon DEF AlertInit, NoRow
<1>4. Streak = {} /\ Tested = {} /\ Ending = {}
  BY <1>3, Zenon DEF Streak, Tested, Ending
<1>5. RowsInTime
  BY <1>3, <1>4, Zenon DEF RowsInTime
<1>6. RowsTell
  BY <1>4, FS_EmptySet, Zenon DEF RowsTell, AlertInit
<1>7. AlertsAgree
  <2>1. Failing \subseteq Kinds /\ \A k \in Kinds : ~alerts[k].active /\ ~expected[k]
    BY Zenon DEF AlertInit, Failing, Kinds
  <2> QED
    BY <1>3, <2>1, Zenon DEF AlertsAgree
<1> QED
  BY <1>2, <1>5, <1>6, <1>7, Zenon DEF AInv

\* Steps that leave the rows of ended jobs alone keep what they tell.
LEMMA RowsStay ==
    ASSUME AlertTypeOK, calm, RowsInTime, RowsTell, UNCHANGED <<jobRow, seconds, history>>, NEW r \in Runs,
           NEW to, to \in {"probes", "drop", "work"} => run[r].pc \in {"new", "probes", "drop"},
           to \in {"completed", "failed", "raise"} => run[r].pc \in {"completed", "failed", "raise"},
           to \in {"probes", "drop", "work", "completed", "failed", "raise", "done"},
           run'[r].pc = to, \A x \in Runs \ {r} : run'[x] = run[x]
    PROVE  RowsInTime' /\ RowsTell' /\ Ending' \subseteq Ending
<1>1. Ending' \subseteq Ending
  BY Zenon DEF Ending
<1>2. RowsInTime'
  BY <1>1, Zenon DEF RowsInTime
<1>3. \A a, b : Newer(a, b)' <=> Newer(a, b)
  BY Zenon DEF Newer
<1>4. Streak' = Streak /\ Tested' = Tested
  BY <1>3, Zenon DEF Streak, Tested
<1>5. RowsTell'
  BY <1>3, <1>4, Zenon DEF RowsTell, history
<1> QED
  BY <1>1, <1>2, <1>5, Zenon

\* What an operator does by hand is remembered as such.
LEMMA HandledStep ==
    ASSUME AInv, NEW k \in Handled, AcknowledgeAlert(k) \/ ResolveAlert(k)
    PROVE  AInv'
<1>1. k \in Kinds /\ AlertTypeOK
  BY AlertAssumption, Zenon DEF AInv
<1>2. /\ alerts' \in [Kinds -> [active : BOOLEAN, acked : BOOLEAN]] /\ byHand' \in SUBSET Kinds
      /\ \A x \in Kinds : \/ (alerts'[x].active <=> alerts[x].active) /\ (x \in byHand' <=> x \in byHand)
                          \/ ~alerts'[x].active /\ x \in byHand'
  <2>1. CASE AcknowledgeAlert(k)
    BY <1>1, <2>1, Zenon DEF AcknowledgeAlert, AlertTypeOK
  <2>2. CASE ResolveAlert(k)
    BY <1>1, <2>2, Zenon DEF ResolveAlert, AlertTypeOK
  <2> QED
    BY <2>1, <2>2, Zenon
<1>3. UNCHANGED <<jobRow, run, seconds, streak, lastHQ, calm, expected>>
  BY Zenon DEF AcknowledgeAlert, ResolveAlert, history
<1>4. AlertTypeOK'
  BY <1>1, <1>2, <1>3, Zenon DEF AlertTypeOK
<1>5. ASSUME calm
      PROVE  RowsInTime' /\ RowsTell' /\ AlertsAgree'
  <2>1. RowsInTime /\ RowsTell /\ AlertsAgree
    BY <1>5, Zenon DEF AInv
  <2>2. RowsInTime'
    BY <1>3, <2>1, Zenon DEF RowsInTime, Ending
  <2>3. RowsTell'
    BY <1>3, <2>1, Zenon DEF RowsTell, Streak, Tested, Newer
  <2>4. AlertsAgree'
    <3>1. Failing \subseteq Kinds /\ Ending' = Ending
      BY <1>3, Zenon DEF Failing, Kinds, Ending
    <3> QED
      BY <1>2, <1>3, <2>1, <3>1, Zenon DEF AlertsAgree
  <2> QED
    BY <2>2, <2>3, <2>4, Zenon
<1> QED
  BY <1>3, <1>4, <1>5, Zenon DEF AInv

\* A step of a run that is not ending, or that ends in silence.
LEMMA StartStep ==
    ASSUME AInv, NEW r \in Runs, NEW quality \in BOOLEAN, NEW due \in BOOLEAN, StartRun(r, quality, due)
    PROVE  AInv'
<1>1. AlertTypeOK
  BY Zenon DEF AInv
<1>2. UNCHANGED <<alerts, jobRow, seconds, streak, lastHQ, calm, expected, byHand>>
  BY Zenon DEF StartRun, history
<1>3. PICK to \in {"probes", "work"} :
         run' = [run EXCEPT ![r] = [pc |-> to, quality |-> quality, found |-> NoFind]]
  BY Zenon DEF StartRun
<1>4. NoFind \in Finds
  BY Zenon DEF NoFind, Finds
<1>5. AlertTypeOK'
  <2>1. [pc |-> to, quality |-> quality, found |-> NoFind] \in RunStates
    BY <1>4, Zenon DEF RunStates
  <2> QED
    BY <1>1, <1>2, <1>3, <2>1, Zenon DEF AlertTypeOK
<1>6. run'[r].pc = to /\ run[r].pc = "new" /\ \A x \in Runs \ {r} : run'[x] = run[x]
  BY <1>1, <1>3 DEF AlertTypeOK, StartRun
<1>7. ASSUME calm
      PROVE  RowsInTime' /\ RowsTell' /\ AlertsAgree'
  <2>1. RowsInTime /\ RowsTell /\ AlertsAgree
    BY <1>7, Zenon DEF AInv
  <2>2. RowsInTime' /\ RowsTell'
    BY <1>1, <1>2, <1>6, <1>7, <2>1, RowsStay, Zenon DEF history
  <2>3. Ending' = Ending /\ \A x \in Runs : run'[x].pc \in {"failed", "raise"} <=> run[x].pc \in {"failed", "raise"}
    BY <1>6, Zenon DEF Ending
  <2>4. AlertsAgree'
    BY <1>2, <1>6, <2>1, <2>3, Zenon DEF AlertsAgree, Ending
  <2> QED
    BY <2>2, <2>4, Zenon
<1> QED
  BY <1>2, <1>5, <1>7, Zenon DEF AInv

\* The checks that look at this run only.
LEMMA DetectNowStep ==
    ASSUME AInv, NEW r \in Runs, NEW q \in Qualities, DetectNow(r, q)
    PROVE  AInv'
<1> DEFINE kinds == {"all-quality-probes-failed", "country-dominance"}
           bad == (IF q.tested > 0 /\ q.alive = 0 THEN {"all-quality-probes-failed"} ELSE {})
                      \cup (IF Dominated(q) THEN {"country-dominance"} ELSE {})
           unfit == {k \in kinds : IF k = "country-dominance"
                                   THEN q.hq > 0 /\ (q.hq - q.dominant) * 100 <= (100 - SharePercent) * q.hq
                                   ELSE q.tested > q.alive /\ ~(q.alive > 0)}
<1>1. AlertTypeOK /\ q \in Finds
  BY AlertAssumption, Zenon DEF AInv, Finds
<1>2. UNCHANGED <<jobRow, seconds, streak, lastHQ, calm>>
  BY Zenon DEF DetectNow, history
<1>3. /\ run[r].pc = "probes" /\ run' = [run EXCEPT ![r].pc = "drop", ![r].found = q]
      /\ Evaluate(bad, kinds \ bad) /\ Expect(unfit, kinds \ unfit)
  BY Zenon DEF DetectNow
<1>4. unfit = bad
  <2>1. q.tested \in Nat /\ q.alive \in Nat /\ q.hq \in Nat /\ q.dominant \in Nat /\ SharePercent \in Nat
    BY <1>1, AlertAssumption, Zenon DEF Finds
  <2>2. (q.tested > 0 /\ q.alive = 0) <=> (q.tested > q.alive /\ ~(q.alive > 0))
    BY <2>1
  <2>3. Dominated(q) <=> (q.hq > 0 /\ (q.hq - q.dominant) * 100 <= (100 - SharePercent) * q.hq)
    BY <2>1 DEF Dominated
  <2> QED
    BY <2>2, <2>3, Zenon
<1>5. bad \in SUBSET kinds /\ kinds \in SUBSET (Kinds \ Failing)
  BY Zenon DEF Kinds, Failing
<1> HIDE DEF bad, unfit, kinds
<1>6. AlertTypeOK'
  <2>1. alerts' \in [Kinds -> [active : BOOLEAN, acked : BOOLEAN]] /\ byHand' \in SUBSET Kinds
    BY <1>1, <1>3, <1>5, EvaluateTells, Zenon
  <2>2. expected' \in [Kinds -> BOOLEAN]
    BY <1>1, <1>3, ExpectType, Zenon
  <2>3. run' \in [Runs -> RunStates]
    BY <1>1, <1>3, Zenon DEF AlertTypeOK, RunStates
  <2> QED
    BY <1>1, <1>2, <2>1, <2>2, <2>3, Zenon DEF AlertTypeOK
<1>7. run'[r].pc = "drop" /\ \A x \in Runs \ {r} : run'[x] = run[x]
  BY <1>1, <1>3, Zenon DEF AlertTypeOK, RunStates
<1>8. ASSUME calm
      PROVE  RowsInTime' /\ RowsTell' /\ AlertsAgree'
  <2>1. RowsInTime /\ RowsTell /\ AlertsAgree
    BY <1>8, Zenon DEF AInv
  <2>2. RowsInTime' /\ RowsTell'
    BY <1>1, <1>2, <1>3, <1>7, <1>8, <2>1, RowsStay, Zenon DEF history
  <2>3. Ending' = Ending /\ \A x \in Runs : run'[x].pc \in {"failed", "raise"} <=> run[x].pc \in {"failed", "raise"}
    BY <1>3, <1>7, Zenon DEF Ending
  <2>4. \A k \in Kinds : k \in kinds \/ (alerts[k].active <=> expected[k] /\ k \notin byHand) =>
                            (alerts'[k].active <=> expected'[k] /\ k \notin byHand')
    <3>1. kinds \ bad \in SUBSET Kinds /\ bad \in SUBSET Kinds /\ bad \cap (kinds \ bad) = {} /\ bad \cup (kinds \ bad) = kinds
      BY <1>5, Zenon
    <3> QED
      BY <1>1, <1>3, <1>4, <1>8, <3>1, EvaluateTells, Zenon
  <2>5. \A k \in Failing : k \in Kinds /\ (expected'[k] <=> expected[k])
    <3>1. Failing \subseteq Kinds
      BY Zenon DEF Failing, Kinds
    <3> QED
      BY <1>1, <1>3, <1>4, <1>5, <1>8, <3>1, Zenon DEF Expect, AlertTypeOK
  <2>6. AlertsAgree'
    BY <1>3, <1>7, <2>1, <2>3, <2>4, <2>5, Zenon DEF AlertsAgree, Ending
  <2> QED
    BY <2>2, <2>6, Zenon
<1> QED
  BY <1>2, <1>6, <1>8, Zenon DEF AInv

\* The drop of high-quality nodes is measured against the last tested run.
LEMMA DetectDropStep ==
    ASSUME AInv, NEW r \in Runs, DetectDrop(r)
    PROVE  AInv'
<1> DEFINE drop == {"high-quality-drop"}
           previous == PreviousCompletedQualityStats(r)
           hq == run[r].found.hq
<1>1. AlertTypeOK
  BY Zenon DEF AInv
<1>2. UNCHANGED <<jobRow, seconds, streak, lastHQ, calm>>
  BY Zenon DEF DetectDrop, history
<1>3. run[r].pc = "drop" /\ run' = [run EXCEPT ![r].pc = "work"]
  BY Zenon DEF DetectDrop
<1>4. drop \in SUBSET Kinds /\ {} \in SUBSET Kinds /\ drop \cap Failing = {} /\ Failing \in SUBSET Kinds
  BY Zenon DEF Kinds, Failing
<1>5. \/ previous = -1 /\ UNCHANGED <<alerts, byHand>>
      \/ Dropped(previous, hq) /\ Evaluate(drop, {})
      \/ previous # -1 /\ ~Dropped(previous, hq) /\ Evaluate({}, drop)
  BY Zenon DEF DetectDrop
<1>6. \/ lastHQ = -1 /\ Expect({}, {})
      \/ Dropped(lastHQ, hq) /\ Expect(drop, {})
      \/ lastHQ # -1 /\ ~Dropped(lastHQ, hq) /\ Expect({}, drop)
  BY Zenon DEF DetectDrop
<1> HIDE DEF drop, previous, hq
<1>7. AlertTypeOK'
  <2>1. alerts' \in [Kinds -> [active : BOOLEAN, acked : BOOLEAN]] /\ byHand' \in SUBSET Kinds
    <3>1. ASSUME UNCHANGED <<alerts, byHand>>
          PROVE  alerts' \in [Kinds -> [active : BOOLEAN, acked : BOOLEAN]] /\ byHand' \in SUBSET Kinds
      BY <1>1, <3>1, Zenon DEF AlertTypeOK
    <3> QED
      BY <1>1, <1>4, <1>5, <3>1, EvaluateTells, Zenon
  <2>2. expected' \in [Kinds -> BOOLEAN]
    BY <1>1, <1>6, ExpectType, Zenon
  <2>3. run' \in [Runs -> RunStates]
    BY <1>1, <1>3, Zenon DEF AlertTypeOK, RunStates
  <2> QED
    BY <1>1, <1>2, <2>1, <2>2, <2>3, Zenon DEF AlertTypeOK
<1>8. run'[r].pc = "work" /\ \A x \in Runs \ {r} : run'[x] = run[x]
  BY <1>1, <1>3, Zenon DEF AlertTypeOK, RunStates
<1>9. ASSUME calm
      PROVE  RowsInTime' /\ RowsTell' /\ AlertsAgree'
  <2>1. RowsInTime /\ RowsTell /\ AlertsAgree
    BY <1>9, Zenon DEF AInv
  <2>2. RowsInTime' /\ RowsTell'
    BY <1>1, <1>2, <1>3, <1>8, <1>9, <2>1, RowsStay, Zenon DEF history
  <2>3. Ending' = Ending /\ \A x \in Runs : run'[x].pc \in {"failed", "raise"} <=> run[x].pc \in {"failed", "raise"}
    BY <1>3, <1>8, Zenon DEF Ending
  <2>4. previous = lastHQ
    BY <1>1, <1>3, <2>1, PreviousIsLast, Zenon DEF previous
  <2>5. \/ Expect({}, {}) /\ UNCHANGED <<alerts, byHand>>
        \/ Expect(drop, {}) /\ Evaluate(drop, {})
        \/ Expect({}, drop) /\ Evaluate({}, drop)
    <3>1. lastHQ = -1 => ~Dropped(lastHQ, hq)
      BY DEF Dropped
    <3> QED
      BY <1>5, <1>6, <2>4, <3>1, Zenon
  <2>6. \A k \in Kinds : (alerts[k].active <=> expected[k] /\ k \notin byHand) =>
                            (alerts'[k].active <=> expected'[k] /\ k \notin byHand')
    <3>1. CASE Expect({}, {}) /\ UNCHANGED <<alerts, byHand>>
      BY <1>1, <1>9, <3>1, Zenon DEF Expect, AlertTypeOK
    <3>2. drop \cap {} = {} /\ {} \cap drop = {}
      BY Zenon
    <3>3. CASE Expect(drop, {}) /\ Evaluate(drop, {})
      BY <1>1, <1>4, <1>9, <3>2, <3>3, EvaluateTells, Zenon
    <3>4. CASE Expect({}, drop) /\ Evaluate({}, drop)
      BY <1>1, <1>4, <1>9, <3>2, <3>4, EvaluateTells, Zenon
    <3> QED
      BY <2>5, <3>1, <3>3, <3>4, Zenon
  <2>7. \A k \in Failing : expected'[k] <=> expected[k]
    BY <1>1, <1>4, <1>9, <2>5, Zenon DEF Expect, AlertTypeOK
  <2>8. AlertsAgree'
    BY <1>3, <1>4, <1>8, <2>1, <2>3, <2>6, <2>7, Zenon DEF AlertsAgree, Ending
  <2> QED
    BY <2>2, <2>8, Zenon
<1> QED
  BY <1>2, <1>7, <1>9, Zenon DEF AInv

\* A run that completes resolves the alert of failing jobs.
LEMMA CompleteStep ==
    ASSUME AInv, NEW r \in Runs, complete(r)
    PROVE  AInv'
<1>1. AlertTypeOK
  BY Zenon DEF AInv
<1>2. UNCHANGED <<jobRow, seconds, streak, lastHQ, calm>>
  BY Zenon DEF complete, history
<1>3. /\ run[r].pc = "completed" /\ run' = [run EXCEPT ![r].pc = "done"]
      /\ Evaluate({}, Failing) /\ Expect({}, Failing)
  BY Zenon DEF complete
<1>4. {} \in SUBSET Kinds /\ Failing \in SUBSET Kinds
  BY Zenon DEF Kinds, Failing
<1>5. AlertTypeOK'
  <2>1. alerts' \in [Kinds -> [active : BOOLEAN, acked : BOOLEAN]] /\ byHand' \in SUBSET Kinds
    BY <1>1, <1>3, <1>4, EvaluateTells, Zenon
  <2>2. expected' \in [Kinds -> BOOLEAN]
    BY <1>1, <1>3, ExpectType, Zenon
  <2>3. run' \in [Runs -> RunStates]
    BY <1>1, <1>3, Zenon DEF AlertTypeOK, RunStates
  <2> QED
    BY <1>1, <1>2, <2>1, <2>2, <2>3, Zenon DEF AlertTypeOK
<1>6. run'[r].pc = "done" /\ \A x \in Runs \ {r} : run'[x] = run[x]
  BY <1>1, <1>3, Zenon DEF AlertTypeOK, RunStates
<1>7. ASSUME calm
      PROVE  RowsInTime' /\ RowsTell' /\ AlertsAgree'
  <2>1. RowsInTime /\ RowsTell /\ AlertsAgree
    BY <1>7, Zenon DEF AInv
  <2>2. RowsInTime' /\ RowsTell'
    BY <1>1, <1>2, <1>3, <1>6, <1>7, <2>1, RowsStay, Zenon DEF history
  <2>3. \A x \in Runs : run'[x].pc # "raise"
    BY <1>3, <1>6, <2>1 DEF RowsInTime, Ending
  <2>4. \A k \in Kinds : k \in Failing \/ (alerts[k].active <=> expected[k] /\ k \notin byHand) =>
                            (alerts'[k].active <=> expected'[k] /\ k \notin byHand')
    <3>1. {} \cap Failing = {} /\ \A k : k \in Failing => k \in {} \cup Failing
      BY Zenon
    <3> QED
      BY <1>1, <1>3, <1>4, <1>7, <3>1, EvaluateTells, Zenon
  <2>5. AlertsAgree'
    BY <1>4, <2>1, <2>3, <2>4, Zenon DEF AlertsAgree
  <2> QED
    BY <2>2, <2>5, Zenon
<1> QED
  BY <1>2, <1>5, <1>7, Zenon DEF AInv

\* A run that failed looks at the history, and only then raises the alert.
LEMMA CountStep ==
    ASSUME AInv, NEW r \in Runs, CountFailures(r)
    PROVE  AInv'
<1> DEFINE bad == IF streak >= Threshold THEN Failing ELSE {}
<1>1. AlertTypeOK
  BY Zenon DEF AInv
<1>2. UNCHANGED <<alerts, jobRow, seconds, streak, lastHQ, calm>>
  BY Zenon DEF CountFailures, history
<1>3. PICK to \in {"raise", "done"} :
         /\ run[r].pc = "failed" /\ run' = [run EXCEPT ![r].pc = to]
         /\ to = "raise" <=> RecentConsecutiveJobFailures(Threshold) >= Threshold
  BY Zenon DEF CountFailures
<1>4. Expect(bad, {}) /\ byHand' = IF streak >= Threshold THEN byHand \ Failing ELSE byHand
  BY Zenon DEF CountFailures
<1>5. Failing \in SUBSET Kinds
  BY Zenon DEF Kinds, Failing
<1>6. AlertTypeOK'
  <2>1. byHand' \in SUBSET Kinds
    BY <1>1, <1>4, Zenon DEF AlertTypeOK
  <2>2. expected' \in [Kinds -> BOOLEAN]
    BY <1>1, <1>4, ExpectType, Zenon
  <2>3. run' \in [Runs -> RunStates]
    BY <1>1, <1>3 DEF AlertTypeOK, RunStates
  <2> QED
    BY <1>1, <1>2, <2>1, <2>2, <2>3, Zenon DEF AlertTypeOK
<1>7. run'[r].pc = to /\ \A x \in Runs \ {r} : run'[x] = run[x]
  BY <1>1, <1>3, Zenon DEF AlertTypeOK, RunStates
<1>8. ASSUME calm
      PROVE  RowsInTime' /\ RowsTell' /\ AlertsAgree'
  <2>1. RowsInTime /\ RowsTell /\ AlertsAgree
    BY <1>8, Zenon DEF AInv
  <2>2. RowsInTime' /\ RowsTell'
    BY <1>1, <1>2, <1>3, <1>7, <1>8, <2>1, RowsStay, Zenon DEF history
  <2>3. streak >= Threshold <=> to = "raise"
    BY <1>1, <1>3, <2>1, StreakCounted, Zenon DEF RowsTell
  <2>4. \A x \in Ending : x = r
    BY <1>3, <2>1, Zenon DEF RowsInTime, Ending
  <2>5. \A k \in Kinds : alerts[k].active <=> expected[k] /\ k \notin byHand
    BY <1>3, <1>5, <2>1, <2>4, Zenon DEF AlertsAgree
  <2>6. CASE to = "raise"
    <3>1. \A k \in Kinds : (k \in Failing => expected'[k]) /\ (k \notin Failing => expected'[k] = expected[k])
      BY <1>1, <1>4, <1>8, <2>3, <2>6, Zenon DEF Expect, AlertTypeOK
    <3>2. byHand' = byHand \ Failing
      BY <1>4, <2>3, <2>6, Zenon
    <3>3. r \in Ending' /\ run'[r].pc # "failed"
      BY <1>7, <2>6, Zenon DEF Ending
    <3> QED
      BY <1>2, <1>5, <2>2, <2>5, <3>1, <3>2, <3>3, Zenon DEF AlertsAgree
  <2>7. CASE to = "done"
    <3>1. \A k \in Kinds : expected'[k] = expected[k]
      BY <1>1, <1>4, <1>8, <2>3, <2>7, Zenon DEF Expect, AlertTypeOK
    <3>2. byHand' = byHand
      BY <1>4, <2>3, <2>7, Zenon
    <3>3. \A x \in Runs : run'[x].pc # "raise"
      BY <1>7, <2>4, <2>7, Zenon DEF Ending
    <3> QED
      BY <1>2, <1>5, <2>2, <2>5, <3>1, <3>2, <3>3, Zenon DEF AlertsAgree
  <2> QED
    BY <2>6, <2>7, Zenon
<1> QED
  BY <1>2, <1>6, <1>8, Zenon DEF AInv

\* The streak that was counted is still the streak when its alert is raised.
LEMMA RaiseStep ==
    ASSUME AInv, NEW r \in Runs, RaiseFailures(r)
    PROVE  AInv'
<1>1. AlertTypeOK
  BY Zenon DEF AInv
<1>2. UNCHANGED <<jobRow, seconds, streak, lastHQ, calm, expected>>
  BY Zenon DEF RaiseFailures, history
<1>3. /\ run[r].pc = "raise" /\ run' = [run EXCEPT ![r].pc = "done"]
      /\ Evaluate(Failing, {})
  BY Zenon DEF RaiseFailures
<1>4. {} \in SUBSET Kinds /\ Failing \in SUBSET Kinds
  BY Zenon DEF Kinds, Failing
<1>5. AlertTypeOK'
  <2>1. alerts' \in [Kinds -> [active : BOOLEAN, acked : BOOLEAN]] /\ byHand' \in SUBSET Kinds
    BY <1>1, <1>3, <1>4, EvaluateTells, Zenon
  <2>2. run' \in [Runs -> RunStates]
    BY <1>1, <1>3 DEF AlertTypeOK, RunStates
  <2> QED
    BY <1>1, <1>2, <2>1, <2>2, Zenon DEF AlertTypeOK
<1>6. run'[r].pc = "done" /\ \A x \in Runs \ {r} : run'[x] = run[x]
  BY <1>1, <1>3, Zenon DEF AlertTypeOK, RunStates
<1>7. ASSUME calm
      PROVE  RowsInTime' /\ RowsTell' /\ AlertsAgree'
  <2>1. RowsInTime /\ RowsTell /\ AlertsAgree
    BY <1>7, Zenon DEF AInv
  <2>2. RowsInTime' /\ RowsTell'
    BY <1>1, <1>2, <1>3, <1>6, <1>7, <2>1, RowsStay, Zenon DEF history
  <2>3. \A k \in Kinds \ Failing : alerts'[k] = alerts[k] /\ (k \in byHand' <=> k \in byHand)
    <3>1. Failing \cup {} = Failing
      BY Zenon
    <3> QED
      BY <1>1, <1>3, <1>4, <3>1, EvaluateTells, Zenon
  <2>4. \A k \in Failing : k \in Kinds /\ alerts'[k].active /\ k \notin byHand' /\ expected[k]
    BY <1>3, <1>4, <2>1, Zenon DEF Evaluate, RaiseAlert, AlertsAgree
  <2>5. AlertsAgree'
    BY <1>2, <2>1, <2>3, <2>4, Zenon DEF AlertsAgree
  <2> QED
    BY <2>2, <2>5, Zenon
<1> QED
  BY <1>2, <1>5, <1>7, Zenon DEF AInv

\* The row of a job that ends is the newest one.
LEMMA EndStep ==
    ASSUME AInv, NEW r \in Runs, NEW status \in {"completed", "failed", "canceled"}, EndRun(r, status)
    PROVE  AInv'
<1> DEFINE row == [status |-> status, ended |-> seconds', quality |-> run[r].quality, hq |-> run[r].found.hq]
           to == IF status = "canceled" THEN "done" ELSE status
<1>1. AlertTypeOK
  BY Zenon DEF AInv
<1>2. UNCHANGED <<alerts, expected, byHand>>
  BY Zenon DEF EndRun
<1>3. /\ run[r].pc \in {"work", "probes", "drop"} /\ to \in {"completed", "failed", "done"}
      /\ run' = [run EXCEPT ![r] = [@ EXCEPT !.pc = to, !.found = NoFind]]
  BY Zenon DEF EndRun
<1>4. seconds' \in {seconds, seconds + 1}
  BY Zenon DEF EndRun
<1>5. PICK saved \in BOOLEAN :
         /\ jobRow' = IF ~saved THEN jobRow ELSE [jobRow EXCEPT ![r] = row]
         /\ calm' = (calm /\ saved /\ Ending = {} /\ seconds' > seconds)
  BY Zenon DEF EndRun
<1>6. /\ ~calm' => streak' = 0 /\ lastHQ' = -1
      /\ calm' => /\ streak' = IF status = "completed" THEN 0 ELSE IF status = "failed" THEN streak + 1 ELSE streak
                  /\ lastHQ' = IF status = "completed" /\ run[r].quality THEN run[r].found.hq ELSE lastHQ
  BY Zenon DEF EndRun
<1>7. row \in [status : {"absent", "completed", "failed", "canceled"}, ended : Nat, quality : BOOLEAN, hq : Nat]
  BY <1>1, <1>4 DEF AlertTypeOK, RunStates, Finds
<1> HIDE DEF to, row
<1>8. AlertTypeOK'
  <2>1. streak' \in Nat
    BY <1>1, <1>6 DEF AlertTypeOK
  <2>2. lastHQ' \in Int /\ calm' \in BOOLEAN
    BY <1>1, <1>5, <1>6 DEF AlertTypeOK, RunStates, Finds
  <2>3. run' \in [Runs -> RunStates]
    <3>1. NoFind \in Finds
      BY Zenon DEF NoFind, Finds
    <3> QED
      BY <1>1, <1>3, <3>1, Zenon DEF AlertTypeOK, RunStates
  <2>4. jobRow' \in [Runs -> [status : {"absent", "completed", "failed", "canceled"}, ended : Nat,
                             quality : BOOLEAN, hq : Nat]]
    BY <1>1, <1>5, <1>7, Zenon DEF AlertTypeOK
  <2>5. seconds' \in Nat
    BY <1>1, <1>4 DEF AlertTypeOK
  <2> QED
    BY <1>1, <1>2, <2>1, <2>2, <2>3, <2>4, <2>5, Zenon DEF AlertTypeOK
<1>9. ASSUME calm'
      PROVE  RowsInTime' /\ RowsTell' /\ AlertsAgree'
  <2>1. calm /\ Ending = {} /\ seconds' > seconds /\ jobRow' = [jobRow EXCEPT ![r] = row]
    BY <1>5, <1>9, Zenon
  <2>2. RowsInTime /\ RowsTell /\ AlertsAgree
    BY <2>1, Zenon DEF AInv
  <2>3. run'[r].pc = to /\ \A x \in Runs \ {r} : run'[x] = run[x]
    BY <1>1, <1>3, Zenon DEF AlertTypeOK, RunStates
  <2>4. jobRow'[r] = row /\ \A x \in Runs \ {r} : jobRow'[x] = jobRow[x]
    BY <1>1, <2>1, Zenon DEF AlertTypeOK
  <2>5. row.status = status /\ row.ended = seconds' /\ row.quality = run[r].quality /\ row.hq = run[r].found.hq
    BY Zenon DEF row
  <2>6. jobRow[r].status = "absent" /\ seconds \in Nat /\ seconds' \in Nat
    BY <1>1, <1>3, <1>4, <2>2 DEF RowsInTime, AlertTypeOK
  <2>7. RowsInTime'
    <3>1. \A x \in Ending' : x = r
      BY <2>1, <2>3, Zenon DEF Ending
    <3>2. \A x \in Runs : jobRow'[x].status # "absent" => jobRow'[x].ended <= seconds'
      BY <1>1, <2>1, <2>2, <2>4, <2>5, <2>6 DEF RowsInTime, AlertTypeOK
    <3> QED
      BY <1>3, <2>2, <2>3, <2>4, <3>1, <3>2, Zenon DEF RowsInTime
  <2>8. \A a, b \in Runs \ {r} : Newer(a, b)' <=> Newer(a, b)
    BY <2>4, Zenon DEF Newer
  <2>9. \A x \in Runs \ {r} : jobRow[x].status # "absent" => Newer(r, x)' /\ ~Newer(x, r)'
    <3>1. \A x \in Runs : jobRow[x].status # "absent" => jobRow[x].ended \in Nat /\ jobRow[x].ended < seconds'
      BY <1>1, <2>1, <2>2, <2>6 DEF RowsInTime, AlertTypeOK
    <3> QED
      BY <2>4, <2>5, <2>6, <3>1 DEF Newer
  <2>10. ~Newer(r, r)'
    BY <2>4, <2>5, <2>6, AlertAssumption DEF Newer
  <2>11. streak' = Cardinality(Streak')
    <3>1. streak = Cardinality(Streak) /\ IsFiniteSet(Streak)
      BY <1>1, <2>2, StreakCounted, Zenon DEF RowsTell
    <3>2. r \notin Streak
      BY <2>6, Zenon DEF Streak
    <3>3. CASE status = "completed"
      <4>1. Streak' = {}
        BY <2>4, <2>5, <2>9, <3>3, Zenon DEF Streak
      <4> QED
        BY <1>6, <1>9, <3>3, <4>1, FS_EmptySet, Zenon
    <3>4. CASE status = "failed"
      <4>1. Streak' = Streak \cup {r}
        BY <2>4, <2>5, <2>6, <2>8, <2>9, <2>10, <3>4, Zenon DEF Streak
      <4> QED
        BY <1>6, <1>9, <3>1, <3>2, <3>4, <4>1, FS_AddElement, Zenon
    <3>5. CASE status = "canceled"
      <4>1. Streak' = Streak
        BY <2>4, <2>5, <2>6, <2>8, <3>5, Zenon DEF Streak
      <4> QED
        BY <1>6, <1>9, <3>1, <3>5, <4>1, Zenon
    <3> QED
      BY <3>3, <3>4, <3>5, Zenon
  <2>12. /\ Tested' = {} => lastHQ' = -1
         /\ \A x \in Tested' : (\A y \in Tested' \ {x} : Newer(x, y)') => lastHQ' = jobRow'[x].hq
    <3>1. Tested \in SUBSET Runs /\ r \notin Tested
      BY <2>6, Zenon DEF Tested
    <3>2. CASE status = "completed" /\ run[r].quality
      <4>1. r \in Tested' /\ Tested' \ {r} = Tested
        BY <2>4, <2>5, <2>6, <3>2, Zenon DEF Tested
      <4>2. \A x \in Tested' \ {r} : ~Newer(x, r)'
        BY <2>9, <4>1, Zenon DEF Tested
      <4>3. lastHQ' = jobRow'[r].hq
        BY <1>6, <1>9, <2>4, <2>5, <3>2, Zenon
      <4> QED
        BY <4>1, <4>2, <4>3, Zenon
    <3>3. CASE ~(status = "completed" /\ run[r].quality)
      <4>1. Tested' = Tested
        BY <2>4, <2>5, <2>6, <3>3, Zenon DEF Tested
      <4>2. lastHQ' = lastHQ
        BY <1>6, <1>9, <3>3, Zenon
      <4>3. \A x \in Tested : jobRow'[x] = jobRow[x] /\ \A y \in Tested : Newer(x, y)' <=> Newer(x, y)
        BY <2>4, <2>8, <3>1, Zenon
      <4> QED
        BY <2>2, <4>1, <4>2, <4>3, Zenon DEF RowsTell
    <3> QED
      BY <3>2, <3>3, Zenon
  <2>13. AlertsAgree'
    <3>1. \A k \in Kinds : alerts[k].active <=> expected[k] /\ k \notin byHand
      BY <2>1, <2>2, Zenon DEF AlertsAgree
    <3>2. \A x \in Runs : run'[x].pc # "raise"
      BY <1>3, <2>1, <2>3 DEF Ending
    <3>3. Failing \subseteq Kinds
      BY Zenon DEF Failing, Kinds
    <3> QED
      BY <1>2, <3>1, <3>2, <3>3, Zenon DEF AlertsAgree
  <2> QED
    BY <2>7, <2>11, <2>12, <2>13, Zenon DEF RowsTell
<1> QED
  BY <1>8, <1>9, Zenon DEF AInv

\* For any number of jobs, kinds of alerts and limits: while jobs end one after
\* the other, in the seconds their rows tell, the alerts that are active are those
\* that the last runs give reason for.
THEOREM AlertsAreTrue == AlertSpec => []AlertsTell
<1>1. AlertInit => AInv
  BY AlertInitOK, Zenon
<1>2. AInv /\ [AlertNext]_alertVars => AInv'
  <2> SUFFICES ASSUME AInv, [AlertNext]_alertVars
               PROVE  AInv'
    BY Zenon
  <2>1. CASE AlertNext
    BY <2>1, HandledStep, StartStep, DetectNowStep, DetectDropStep, EndStep, CompleteStep, CountStep, RaiseStep,
       Zenon DEF AlertNext
  <2>2. CASE UNCHANGED alertVars
    BY <2>2, Zenon DEF alertVars, history, AInv, AlertTypeOK, RowsInTime, RowsTell, AlertsAgree, Streak, Tested, Newer, Ending
  <2> QED
    BY <2>1, <2>2, Zenon
<1>3. AInv => AlertsTell
  <2> SUFFICES ASSUME AInv, NEW k \in Kinds, calm, k \in Failing => Ending = {}
               PROVE  alerts[k].active <=> expected[k] /\ k \notin byHand
    BY Zenon DEF AlertsTell
  <2> QED
    BY Zenon DEF AInv, AlertsAgree
<1> QED
  BY <1>1, <1>2, <1>3, PTL DEF AlertSpec

-----------------------------------------------------------------------------
(* What is published.                                                      *)

\* The settings that are compared.
LEMMA SettingTypes ==
    ASSUME NEW c \in Settings
    PROVE  /\ c.minScore \in Nat /\ c.filterScore \in Nat /\ c.maxNodes \in Nat /\ c.filterMax \in Nat
           /\ c.verifiedTTL \in Nat /\ c.maxAge \in Nat /\ c.maxLatency \in Nat /\ c.interval \in Nat
           /\ c.engine # ""
BY Zenon DEF Settings

\* The observations that are compared.
LEMMA NodeTypes ==
    ASSUME NEW n \in Nodes
    PROVE  n.score \in Nat /\ n.latency \in Nat /\ n.dialed \in Age /\ n.seen \in Age
BY Zenon DEF Nodes

\* Limits are numbers.
LEMMA Limits ==
    ASSUME NEW c \in Settings
    PROVE  MinScore(c) \in Nat /\ MaxNodes(c) \in Nat /\ SeenWithin(c) \in Nat /\ publishCacheMaxAge(c) \in Nat
<1>1. \A x, y \in Nat : Either(x, y) \in Nat
  BY Zenon DEF Either
<1>2. MinScore(c) \in Nat /\ MaxNodes(c) \in Nat /\ SeenWithin(c) \in Nat
  BY <1>1, SettingTypes, Zenon DEF MinScore, MaxNodes, SeenWithin
<1>3. Either(c.maxAge, 24) \in Nat /\ c.interval \in Nat
  BY <1>1, SettingTypes, Zenon
<1> QED
  BY <1>2, <1>3 DEF publishCacheMaxAge

\* The width of the first cut.
LEMMA Thrice == \A x \in Nat : 3 * x \in Nat
OBVIOUS

DialLimit(c) == IF c.verifiedTTL > 0 THEN c.verifiedTTL ELSE 6

\* What a publication of dialed nodes asks for.
Asked(c, country, n) ==
    /\ country # "" => countryCode(Known(n.country)) = countryCode(country)
    /\ (c.enabled => c.aliveOnly) => n.alive
    /\ MinScore(c) > 0 => n.score >= MinScore(c)
    /\ MinScore(c) >= 70 => n.score >= 70
    /\ n.verified
    /\ c.engine # "auto" => c.engine \in n.engines
    /\ n.dialed # Never /\ n.dialed <= DialLimit(c)
    /\ n.seen # Never => n.seen <= SeenWithin(c)

\* The filter of the store asks for exactly that.
LEMMA DialMatch ==
    ASSUME NEW c \in Settings, c.dial, NEW country, NEW n
    PROVE  Match(PublishFilter(c, country), n) <=> Asked(c, country, n)
<1> DEFINE f == PublishFilter(c, country)
<1>1. /\ f.verifiedOnly /\ (f.aliveOnly <=> (c.enabled => c.aliveOnly))
      /\ f.dialWithin = DialLimit(c) /\ f.engine = (IF c.engine # "auto" THEN c.engine ELSE "")
      /\ f.country = country /\ f.minScore = MinScore(c) /\ f.seenWithin = SeenWithin(c)
      /\ (f.highQuality <=> MinScore(c) >= 70)
  BY Zenon DEF PublishFilter, NoFilter, Either, DialLimit
<1>2. DialLimit(c) # Never /\ SeenWithin(c) # Never
  <2>1. DialLimit(c) \in Nat /\ SeenWithin(c) \in Nat
    BY Limits, SettingTypes, Zenon DEF DialLimit
  <2> QED
    BY <2>1 DEF Never
<1>3. (f.engine # "" => PassedEngine(n, f.engine)) <=> (c.engine # "auto" => c.engine \in n.engines)
  BY <1>1, SettingTypes, Zenon DEF PassedEngine
<1> HIDE DEF f
<1>4. MatchTimes(f, n) <=> /\ n.dialed # Never /\ n.dialed <= DialLimit(c)
                           /\ n.seen # Never => n.seen <= SeenWithin(c)
  BY <1>1, <1>2, Zenon DEF MatchTimes
<1> QED
  BY <1>1, <1>3, <1>4, Zenon DEF Match, Asked, f

\* It was dialed within the limit, by the engine that is asked for.
LEMMA MatchIsRecent ==
    ASSUME NEW c \in Settings, c.dial, NEW country, NEW n \in Nodes, Match(PublishFilter(c, country), n)
    PROVE  /\ n.verified /\ c.engine \in n.engines \cup {"auto"}
           /\ n.alive \/ (c.enabled /\ ~c.aliveOnly)
           /\ n.dialed \in 0..(IF c.verifiedTTL > 0 THEN c.verifiedTTL ELSE 6)
<1>1. /\ n.verified /\ (c.engine # "auto" => c.engine \in n.engines)
      /\ (c.enabled => c.aliveOnly) => n.alive
      /\ n.dialed # Never /\ n.dialed <= DialLimit(c)
  BY DialMatch, Zenon DEF Asked
<1>2. n.dialed \in Age /\ DialLimit(c) \in Nat
  BY SettingTypes, NodeTypes, Zenon DEF DialLimit
<1>3. n.dialed \in 0..DialLimit(c)
  BY <1>1, <1>2 DEF Age
<1> QED
  BY <1>1, <1>3, Zenon DEF DialLimit

\* Codes and protocols that are the same after normalisation, as the scope of a
\* token has it.
LEMMA ScopeTells ==
    ASSUME NEW p, NEW n, InScope(p, n)
    PROVE  /\ p.countries = {} \/ \E cc \in p.countries :
                  {n.country, cc} \in {{"UK", "GB"}, {cc}} \/ (n.country = "" /\ cc = "XX")
           /\ p.protocols = {} \/ \E x \in p.protocols : {n.protocol, x} \in {{"hy2", "hysteria2"}, {x}}
<1>1. ASSUME p.countries # {}
      PROVE  \E cc \in p.countries :
                  {n.country, cc} \in {{"UK", "GB"}, {cc}} \/ (n.country = "" /\ cc = "XX")
  <2>1. PICK cc \in p.countries : countryCode(Known(n.country)) = countryCode(cc)
    BY <1>1, Zenon DEF InScope
  <2>2. n.country = cc \/ (n.country = "" /\ cc = "XX") \/ (n.country = "UK" /\ cc = "GB")
        \/ (n.country = "GB" /\ cc = "UK")
    BY <2>1, Zenon DEF countryCode, Known
  <2> QED
    BY <2>2, Zenon
<1>2. ASSUME p.protocols # {}
      PROVE  \E x \in p.protocols : {n.protocol, x} \in {{"hy2", "hysteria2"}, {x}}
  <2>1. PICK x \in p.protocols : normalizeProtocol(n.protocol) = normalizeProtocol(x)
    BY <1>2, Zenon DEF InScope
  <2>2. n.protocol = x \/ (n.protocol = "hy2" /\ x = "hysteria2") \/ (n.protocol = "hysteria2" /\ x = "hy2")
    BY <2>1, Zenon DEF normalizeProtocol
  <2> QED
    BY <2>2, Zenon
<1> QED
  BY <1>1, <1>2, Zenon

\* A selection of dialed nodes holds nodes that match only.
LEMMA SelectionMatches ==
    ASSUME NEW c \in Settings, c.dial, NEW ns, NEW country, NEW i \in SelectPublishNodesCountry(c, ns, country)
    PROVE  i \in DOMAIN ns /\ Match(PublishFilter(c, country), ns[i])
<1> DEFINE hq == ListNodes(ns, PublishFilter(c, country), 3 * MaxNodes(c))
<1>1. Fallback(c, ns, country, hq) = hq
  BY Zenon DEF Fallback
<1> HIDE DEF hq
<1>2. i \in Apply(c, ns, hq)
  BY <1>1, Zenon DEF SelectPublishNodesCountry, Cut, First, hq
<1>3. i \in hq
  BY <1>2, Zenon DEF Apply, Cut, First
<1> QED
  BY <1>3, Zenon DEF hq, ListNodes, Cut, First

\* A rendered blob holds the nodes it was rendered from, and those of a country
\* under its code.
LEMMA Rendered ==
    ASSUME NEW c, NEW ns, NEW S, NEW b \in Blobs(c, ns, S)
    PROVE  /\ b.all = S
           /\ \A cc \in DOMAIN b.countries : b.countries[cc] = InCountry(ns, S, cc)
<1>1. PICK K : b = [all |-> S, countries |-> [cc \in K |-> InCountry(ns, S, cc)]]
  BY Zenon DEF Blobs
<1> QED
  BY <1>1, Zenon

\* A blob agrees with the records it was rendered from.
BlobOK(b) ==
    /\ b = [age |-> b.age, body |-> b.body, of |-> b.of] /\ b.age \in Nat
    /\ \A i \in b.body.all : b.of[i] \in Nodes
    /\ \A cc \in DOMAIN b.body.countries : b.body.countries[cc] = InCountry(b.of, b.body.all, cc)
    /\ cfg.dial => \A i \in b.body.all : Match(PublishFilter(cfg, ""), b.of[i])

\* While nothing changes it holds what would be selected.
CacheInv ==
    /\ nodes \in [Ids -> Nodes] /\ cfg \in Settings
    /\ blob # NoBlob => BlobOK(blob)
    /\ ~changed => /\ blob # NoBlob /\ blob.body.all = SelectPublishNodesCountry(cfg, nodes, "")
                   /\ \A i \in blob.body.all : blob.of[i] = nodes[i]

\* A selection holds nodes of the store only.
LEMMA SelectionOfStore ==
    ASSUME NEW c, NEW ns, NEW country
    PROVE  SelectPublishNodesCountry(c, ns, country) \subseteq DOMAIN ns
<1>1. \A f, m : ListNodes(ns, f, m) \subseteq DOMAIN ns
  BY Zenon DEF ListNodes, Cut, First
<1>2. ASSUME NEW S, S \subseteq DOMAIN ns
      PROVE  Fallback(c, ns, country, S) \subseteq DOMAIN ns
  BY <1>1, <1>2, Zenon DEF Fallback
<1>3. \A S : Apply(c, ns, S) \subseteq S
  BY Zenon DEF Apply, Cut, First
<1> DEFINE hq == ListNodes(ns, PublishFilter(c, country), 3 * MaxNodes(c))
<1>4. Fallback(c, ns, country, hq) \subseteq DOMAIN ns
  BY <1>1, <1>2, Zenon
<1> QED
  BY <1>3, <1>4, Zenon DEF SelectPublishNodesCountry, Cut, First

\* Nothing is rendered at the start.
LEMMA CacheInitOK == Init => CacheInv
<1> SUFFICES ASSUME Init PROVE CacheInv
  BY Zenon
<1>1. nodes \in [Ids -> Nodes] /\ cfg \in Settings
  BY PublicationAssumption, Zenon DEF Init
<1> QED
  BY <1>1, Zenon DEF Init, CacheInv

\* Another record leaves the blob as it is.
LEMMA UpsertStep ==
    ASSUME CacheInv, NEW i \in Ids, NEW n \in Profiles, UpsertNode(i, n)
    PROVE  CacheInv'
<1>1. nodes' \in [Ids -> Nodes] /\ cfg' \in Settings
  BY PublicationAssumption, Zenon DEF CacheInv, UpsertNode
<1>2. blob' # NoBlob => BlobOK(blob)'
  BY Zenon DEF CacheInv, UpsertNode, BlobOK
<1> QED
  BY <1>1, <1>2, Zenon DEF CacheInv, UpsertNode

\* An hour makes the blob older.
LEMMA HourStep ==
    ASSUME CacheInv, HourPasses
    PROVE  CacheInv'
<1>1. \A x \in Age : Older(x) \in Age
  BY PublicationAssumption DEF Older, Age, Never
<1>2. \A k \in Nodes : [k EXCEPT !.seen = Older(@), !.dialed = Older(@)] \in Nodes
  BY <1>1, Zenon DEF Nodes
<1>3. nodes' \in [Ids -> Nodes] /\ cfg' \in Settings
  BY <1>2, Zenon DEF CacheInv, HourPasses
<1>4. CASE blob = NoBlob
  <2>1. blob' = NoBlob
    BY <1>4, Zenon DEF HourPasses, NoBlob, Older
  <2> QED
    BY <1>3, <2>1, Zenon DEF CacheInv, HourPasses
<1>5. CASE blob # NoBlob
  <2>1. BlobOK(blob)
    BY <1>5, Zenon DEF CacheInv
  <2>2. blob' = [age |-> Older(blob.age), body |-> blob.body, of |-> blob.of]
    BY <2>1, Zenon DEF BlobOK, HourPasses
  <2>3. blob'.age \in Nat /\ blob'.body = blob.body /\ blob'.of = blob.of
    <3>1. blob.age \in Nat
      BY <2>1, Zenon DEF BlobOK
    <3>2. Older(blob.age) \in Nat
      BY <3>1 DEF Older
    <3> QED
      BY <2>2, <3>2, Zenon
  <2>4. BlobOK(blob)'
    BY <2>1, <2>2, <2>3, Zenon DEF BlobOK, HourPasses
  <2> QED
    BY <1>3, <2>4, Zenon DEF CacheInv, HourPasses
<1> QED
  BY <1>4, <1>5, Zenon

\* Rendering takes the nodes that are selected, with the records they have.
LEMMA RefreshStep ==
    ASSUME CacheInv, RefreshPublishCache
    PROVE  CacheInv'
<1> DEFINE S == SelectPublishNodesCountry(cfg, nodes, "")
<1>1. PICK b \in Blobs(cfg, nodes, S) : blob' = [age |-> 0, body |-> b, of |-> Restrict(nodes, S)]
  BY Zenon DEF RefreshPublishCache
<1>2. nodes' = nodes /\ cfg' = cfg /\ nodes \in [Ids -> Nodes] /\ cfg \in Settings
  BY Zenon DEF RefreshPublishCache, CacheInv
<1>3. S \subseteq Ids
  BY <1>2, SelectionOfStore, Zenon
<1>4. cfg.dial => \A i \in S : Match(PublishFilter(cfg, ""), nodes[i])
  BY <1>2, SelectionMatches, Zenon
<1>5. SelectPublishNodesCountry(cfg, nodes, "")' = S
  BY <1>2, Zenon
<1> HIDE DEF S
<1>6. b.all = S /\ \A cc \in DOMAIN b.countries : b.countries[cc] = InCountry(nodes, S, cc)
  BY Rendered
<1>7. \A i \in S : Restrict(nodes, S)[i] = nodes[i]
  BY Zenon DEF Restrict
<1>8. \A cc : InCountry(Restrict(nodes, S), S, cc) = InCountry(nodes, S, cc)
  BY <1>7, Zenon DEF InCountry
<1>9. blob'.age = 0 /\ blob'.body = b /\ blob'.of = Restrict(nodes, S) /\ blob' # NoBlob
  <2>1. blob'.age = 0 /\ blob'.body = b /\ blob'.of = Restrict(nodes, S)
    BY <1>1, Zenon
  <2>2. blob'.age # NoBlob.age
    BY <2>1 DEF NoBlob, Never
  <2> QED
    BY <2>1, <2>2, Zenon
<1>10. BlobOK(blob)'
  BY <1>1, <1>2, <1>3, <1>4, <1>6, <1>7, <1>8, <1>9, Zenon DEF BlobOK
<1>11. /\ blob'.body.all = SelectPublishNodesCountry(cfg, nodes, "")'
       /\ \A i \in blob'.body.all : blob'.of[i] = nodes'[i]
  BY <1>2, <1>5, <1>6, <1>7, <1>9, Zenon
<1> QED
  BY <1>2, <1>9, <1>10, <1>11, Zenon DEF CacheInv

\* The invariant holds in every state.
LEMMA CacheInvariant == Spec => []CacheInv
<1>1. CacheInv /\ [Next]_vars => CacheInv'
  <2> SUFFICES ASSUME CacheInv, [Next]_vars PROVE CacheInv'
    BY Zenon
  <2>1. CASE \E i \in Ids, n \in Profiles : UpsertNode(i, n)
    BY <2>1, UpsertStep, Zenon
  <2>2. CASE HourPasses
    BY <2>2, HourStep, Zenon
  <2>3. CASE RefreshPublishCache
    BY <2>3, RefreshStep, Zenon
  <2>4. CASE UNCHANGED vars
    BY <2>4, Zenon DEF vars, CacheInv, BlobOK
  <2> QED
    BY <2>1, <2>2, <2>3, <2>4, Zenon DEF Next
<1> QED
  BY CacheInitOK, <1>1, PTL DEF Spec

-----------------------------------------------------------------------------
(* Answers.                                                                *)

\* The rendered body holds nodes that were selected.
LEMMA CachedOfBody ==
    ASSUME CacheInv, NEW p, NEW country, NEW i \in Cached(p, country)
    PROVE  /\ BlobOK(blob) /\ Fresh(blob, publishCacheMaxAge(cfg)) /\ CacheServes(p, country)
           /\ i \in blob.body.all
           /\ country # "" => countryCode(Known(blob.of[i].country)) = countryCode(country)
<1>1. Fresh(blob, publishCacheMaxAge(cfg)) /\ CacheServes(p, country)
      /\ i \in Format(blob.body, countryCode(country))
  BY Zenon DEF Cached
<1>2. BlobOK(blob)
  BY <1>1, Zenon DEF CacheInv, Fresh
<1> DEFINE cc == countryCode(country)
<1>3. CASE country = ""
  BY <1>1, <1>2, <1>3, Zenon DEF Format, countryCode
<1>4. CASE country # ""
  <2>1. cc # "" /\ countryCode(cc) = cc
    BY <1>4, Zenon DEF countryCode
  <2>2. cc \in DOMAIN blob.body.countries /\ i \in blob.body.countries[cc]
    BY <1>1, <2>1, Zenon DEF Format
  <2>3. i \in InCountry(blob.of, blob.body.all, cc)
    BY <1>2, <2>2, Zenon DEF BlobOK
  <2> QED
    BY <1>1, <1>2, <2>3, Zenon DEF InCountry
<1> QED
  BY <1>3, <1>4, Zenon

\* The rendered body is served only where no scope cuts it, or to a token whose
\* countries have the one it is for.
LEMMA CachedInScope ==
    ASSUME CacheInv, NEW p, NEW country, principalAllowsCountry(p, country), NEW i \in Cached(p, country)
    PROVE  InScope(p, blob.of[i])
<1>1. /\ CacheServes(p, country)
      /\ country # "" => countryCode(Known(blob.of[i].country)) = countryCode(country)
  BY CachedOfBody, Zenon
<1>2. CASE ~Scoped(p)
  BY <1>2, Zenon DEF Scoped, InScope
<1>3. CASE country # "" /\ p.protocols = {}
  BY <1>1, <1>3, Zenon DEF InScope, principalAllowsCountry
<1> QED
  BY <1>1, <1>2, <1>3, Zenon DEF CacheServes

\* A selection for the request is cut to the scope.
LEMMA LiveInScope ==
    ASSUME NEW p, NEW country, NEW i \in Live(p, country).ids
    PROVE  InScope(p, Live(p, country).of[i])
BY Zenon DEF Live, filterTokenNodes

\* Every answer is in the scope of its token.
LEMMA AnswerInScope ==
    ASSUME CacheInv, NEW p, NEW a \in Answers(p), NEW i \in a.ids
    PROVE  InScope(p, a.of[i])
<1>1. ASSUME NEW country, principalAllowsCountry(p, country), a = serveSubFormat(p, country)
      PROVE  InScope(p, a.of[i])
  <2>1. CASE Cached(p, country) # {}
    <3>1. a.of = blob.of /\ a.ids = Cached(p, country)
      BY <1>1, <2>1, Zenon DEF serveSubFormat
    <3> QED
      BY <1>1, <3>1, CachedInScope, Zenon
  <2>2. CASE Cached(p, country) = {}
    <3>1. a = Live(p, country)
      BY <1>1, <2>2, Zenon DEF serveSubFormat
    <3> QED
      BY <3>1, LiveInScope, Zenon
  <2> QED
    BY <2>1, <2>2, Zenon
<1>2. ASSUME NEW country, a = handleSubCountry(p, country)
      PROVE  InScope(p, a.of[i])
  BY <1>2, LiveInScope, Zenon DEF handleSubCountry
<1>3. ASSUME NEW pool, a = handleSubPool(p, pool)
      PROVE  InScope(p, a.of[i])
  BY <1>3, Zenon DEF handleSubPool, filterTokenNodes
<1>4. \/ \E country : principalAllowsCountry(p, country) /\ a = serveSubFormat(p, country)
      \/ \E country : a = handleSubCountry(p, country)
      \/ \E pool : a = handleSubPool(p, pool)
  BY Zenon DEF Answers
<1> QED
  BY <1>1, <1>2, <1>3, <1>4, Zenon

\* Whatever nodes, configurations, tokens and pools there are, no answer holds a
\* node out of the scope of its token: not the rendered body either, which
\* serveSubFormat takes without looking at its nodes.
THEOREM AnswersAreInScope == Spec => []ServedInScope
<1>1. CacheInv => ServedInScope
  <2> SUFFICES ASSUME CacheInv, NEW p \in Tokens, NEW a \in Answers(p), NEW i \in a.ids
               PROVE  /\ p.countries = {} \/ \E cc \in p.countries :
                             \/ {a.of[i].country, cc} \in {{"UK", "GB"}, {cc}}
                             \/ (a.of[i].country = "" /\ cc = "XX")
                      /\ p.protocols = {} \/ \E x \in p.protocols :
                             {a.of[i].protocol, x} \in {{"hy2", "hysteria2"}, {x}}
    BY Zenon DEF ServedInScope
  <2>1. InScope(p, a.of[i])
    BY AnswerInScope, Zenon
  <2> QED
    BY <2>1, ScopeTells, Zenon
<1> QED
  BY CacheInvariant, <1>1, PTL

\* With dialing enabled a body is of verified nodes, whose last dial is no longer
\* ago than the two limits together.
THEOREM AnswersAreRecent == Spec => []ServedIsRecent
<1> DEFINE ttl == IF cfg.verifiedTTL > 0 THEN cfg.verifiedTTL ELSE 6
           Good(n) == /\ n.verified /\ cfg.engine \in n.engines \cup {"auto"}
                      /\ n.alive \/ (cfg.enabled /\ ~cfg.aliveOnly)
                      /\ n.dialed \in 0..ttl
<1>1. ASSUME CacheInv, cfg.dial, NEW p \in Tokens, NEW country \in Codes,
             NEW i \in serveSubFormat(p, country).ids
      PROVE  LET a == serveSubFormat(p, country)
                 age == IF Cached(p, country) # {} THEN blob.age ELSE 0
             IN  Good(a.of[i]) /\ a.of[i].dialed + age <= ttl + publishCacheMaxAge(cfg)
  <2>0. cfg \in Settings /\ nodes \in [Ids -> Nodes] /\ publishCacheMaxAge(cfg) \in Nat /\ ttl \in Nat
    BY <1>1, Limits, SettingTypes, Zenon DEF CacheInv
  <2>1. CASE Cached(p, country) # {}
    <3>1. serveSubFormat(p, country).of = blob.of /\ i \in Cached(p, country)
      BY <1>1, <2>1, Zenon DEF serveSubFormat
    <3>2. BlobOK(blob) /\ Fresh(blob, publishCacheMaxAge(cfg)) /\ i \in blob.body.all
      BY <1>1, <3>1, CachedOfBody, Zenon
    <3>3. blob.of[i] \in Nodes /\ Match(PublishFilter(cfg, ""), blob.of[i]) /\ blob.age \in Nat
      BY <1>1, <3>2, Zenon DEF BlobOK
    <3>4. Good(blob.of[i])
      BY <1>1, <2>0, <3>3, MatchIsRecent, Zenon
    <3>5. blob.age <= publishCacheMaxAge(cfg)
      BY <3>2, Zenon DEF Fresh
    <3>6. blob.of[i].dialed \in 0..ttl
      BY <3>4, Zenon
    <3> HIDE DEF Good, ttl
    <3>7. blob.of[i].dialed + blob.age <= ttl + publishCacheMaxAge(cfg)
      <4>1. \A d \in 0..ttl, age, m \in Nat : age <= m => d + age <= ttl + m
        BY <2>0
      <4> QED
        BY <2>0, <3>3, <3>5, <3>6, <4>1, Zenon
    <3> QED
      BY <2>1, <3>1, <3>4, <3>7, Zenon
  <2>2. CASE Cached(p, country) = {}
    <3>1. serveSubFormat(p, country).of = nodes
          /\ i \in SelectPublishNodesCountry(cfg, nodes, country)
      BY <1>1, <2>2, Zenon DEF serveSubFormat, Live, filterTokenNodes
    <3>2. i \in Ids /\ Match(PublishFilter(cfg, country), nodes[i])
      BY <1>1, <2>0, <3>1, SelectionMatches, Zenon
    <3>3. Good(nodes[i])
      BY <1>1, <2>0, <3>2, MatchIsRecent, Zenon
    <3>4. nodes[i].dialed \in 0..ttl
      BY <3>3, Zenon
    <3> HIDE DEF Good, ttl
    <3>5. nodes[i].dialed + 0 <= ttl + publishCacheMaxAge(cfg)
      BY <2>0, <3>4
    <3> QED
      BY <2>2, <3>1, <3>3, <3>5, Zenon
  <2> QED
    BY <2>1, <2>2, Zenon
<1>2. CacheInv => ServedIsRecent
  BY <1>1 DEF ServedIsRecent
<1> QED
  BY CacheInvariant, <1>2, PTL

-----------------------------------------------------------------------------
(* Selections.                                                             *)

\* The order of ListNodes as a relation, and a cut of it.
Ranking(ns) == {r \in Ids \X Ids : Better(ns, r[1], r[2])}
Taken(ns, S, n) == IF n > 0 THEN FirstIn(Ranking(ns), S, n) ELSE S

\* It is an order.
LEMMA RankingOrders ==
    ASSUME NEW ns \in [Ids -> Nodes], NEW S \in SUBSET Ids
    PROVE  Orders(Ranking(ns), S) /\ IsFiniteSet(S)
<1>1. \A i \in Ids : i \in Nat /\ ns[i].score \in Nat /\ ns[i].latency \in Nat
  BY PublicationAssumption, NodeTypes, Zenon
<1>2. \A i, j \in Ids : <<i, j>> \in Ranking(ns) <=> Better(ns, i, j)
  BY Zenon DEF Ranking
<1>3. \A i \in Ids : ~Better(ns, i, i)
  BY <1>1 DEF Better
<1>4. \A i, j \in Ids : i # j => Better(ns, i, j) \/ Better(ns, j, i)
  BY <1>1 DEF Better
<1>5. \A i, j, k \in Ids : Better(ns, i, j) /\ Better(ns, j, k) => Better(ns, i, k)
  BY <1>1 DEF Better
<1>6. IsFiniteSet(S)
  BY PublicationAssumption, FS_Subset, Zenon
<1> QED
  BY <1>2, <1>3, <1>4, <1>5, <1>6, Zenon DEF Orders

\* A cut by that order.
ByRank(ns, S, n) == Cut(S, LAMBDA i, j : Better(ns, i, j), n)

\* It takes the first of the order.
LEMMA ByRankIsTaken ==
    ASSUME NEW ns, NEW S \in SUBSET Ids, NEW n \in Nat
    PROVE  ByRank(ns, S, n) = Taken(ns, S, n)
<1>1. \A i \in S : {j \in S : Better(ns, j, i)} = Ahead(Ranking(ns), S, i)
  BY Zenon DEF Ahead, Ranking
<1> QED
  BY <1>1, Zenon DEF ByRank, Cut, First, Taken, FirstIn

\* sortNodes by score is the same order.
LEMMA SortIsRanking ==
    ASSUME NEW c, c.sortBy = "score", ~c.preferTLS, NEW ns \in [Ids -> Nodes], NEW i \in Ids, NEW j \in Ids
    PROVE  sortNodes(c, ns, i, j) <=> Better(ns, i, j)
<1>1. /\ ns[i].score \in Nat /\ ns[i].latency \in Nat /\ ns[j].score \in Nat /\ ns[j].latency \in Nat
      /\ i \in Nat /\ j \in Nat
  BY PublicationAssumption, NodeTypes, Zenon
<1>2. \A a, b : Precedes(c, a, b) <=> a.score > b.score \/ (a.score = b.score /\ a.latency < b.latency)
  BY Zenon DEF Precedes
<1> QED
  BY <1>1, <1>2, Zenon DEF sortNodes, Better

\* A cut by it is a cut by that order.
Sorted(c, ns, S, n) == Cut(S, LAMBDA i, j : sortNodes(c, ns, i, j), n)

\* It takes the same nodes.
LEMMA SortedIsTaken ==
    ASSUME NEW c, c.sortBy = "score", ~c.preferTLS, NEW ns \in [Ids -> Nodes], NEW S \in SUBSET Ids, NEW n \in Nat
    PROVE  Sorted(c, ns, S, n) = Taken(ns, S, n)
<1>1. \A i \in S : {j \in S : sortNodes(c, ns, j, i)} = Ahead(Ranking(ns), S, i)
  BY SortIsRanking, Zenon DEF Ahead, Ranking
<1> QED
  BY <1>1, Zenon DEF Sorted, Cut, First, Taken, FirstIn

\* What a publication of dialed nodes by score selects, as cuts of one order.
LEMMA SelectionIsTaken ==
    ASSUME NEW c \in Settings, c.dial, c.sortBy = "score", ~c.preferTLS, NEW ns \in [Ids -> Nodes], NEW country
    PROVE  LET matching == {i \in Ids : Match(PublishFilter(c, country), ns[i])}
               passing == {i \in Taken(ns, matching, 3 * MaxNodes(c)) : Passes(c, ns[i])}
           IN  SelectPublishNodesCountry(c, ns, country) = Taken(ns, Taken(ns, passing, c.filterMax), MaxNodes(c))
<1> DEFINE matching == {i \in Ids : Match(PublishFilter(c, country), ns[i])}
           hq == Taken(ns, matching, 3 * MaxNodes(c))
           passing == {i \in hq : Passes(c, ns[i])}
           applied == Taken(ns, passing, c.filterMax)
<1>0. \A S \in SUBSET Ids, n \in Nat : Sorted(c, ns, S, n) = Taken(ns, S, n)
  BY SortedIsTaken, Zenon
<1>1. MaxNodes(c) \in Nat /\ 3 * MaxNodes(c) \in Nat /\ c.filterMax \in Nat
  <2>1. MaxNodes(c) \in Nat /\ c.filterMax \in Nat
    BY Limits, SettingTypes, Zenon
  <2> QED
    BY <2>1, Thrice, Zenon
<1>2. \A S, n : Taken(ns, S, n) \subseteq S
  BY Zenon DEF Taken, FirstIn
<1>3. matching \in SUBSET Ids /\ hq \in SUBSET Ids /\ passing \in SUBSET Ids /\ applied \in SUBSET Ids
  <2>1. matching \in SUBSET Ids
    BY Zenon
  <2>2. hq \in SUBSET Ids
    BY <1>2, <2>1, Zenon
  <2> HIDE DEF hq
  <2>3. passing \in SUBSET Ids
    BY <2>2, Zenon
  <2> HIDE DEF passing
  <2> QED
    BY <1>2, <2>1, <2>2, <2>3, Zenon
<1>4. ListNodes(ns, PublishFilter(c, country), 3 * MaxNodes(c)) = hq
  <2>1. {i \in DOMAIN ns : Match(PublishFilter(c, country), ns[i])} = matching
    BY Zenon
  <2> HIDE DEF matching
  <2> QED
    BY <1>1, <1>3, <2>1, ByRankIsTaken, Zenon DEF ListNodes, ByRank
<1> HIDE DEF hq
<1>5. Fallback(c, ns, country, hq) = hq
  BY Zenon DEF Fallback
<1>6. Apply(c, ns, hq) = applied
  <2> HIDE DEF passing
  <2>1. Apply(c, ns, hq) = Sorted(c, ns, passing, c.filterMax)
    BY Zenon DEF Apply, passing, Sorted
  <2> QED
    BY <1>0, <1>1, <1>3, <2>1, Zenon
<1> HIDE DEF applied
<1>7. SelectPublishNodesCountry(c, ns, country) = Sorted(c, ns, applied, MaxNodes(c))
  BY <1>4, <1>5, <1>6, Zenon DEF SelectPublishNodesCountry, Sorted
<1>8. SelectPublishNodesCountry(c, ns, country) = Taken(ns, applied, MaxNodes(c))
  BY <1>0, <1>1, <1>3, <1>7, Zenon
<1> QED
  BY <1>8, Zenon DEF applied, passing, hq, matching

-----------------------------------------------------------------------------
(* A selection of all nodes against one of a country.                      *)

\* Of the members of G, T has those of S, and puts no others ahead of them.
Kept(R, G, S, T) == \A i \in S \cap G : i \in T /\ Ahead(R, T, i) \subseteq Ahead(R, S, i)

\* Taking the first n of both keeps them.
LEMMA KeptFirst ==
    ASSUME NEW R, NEW G, NEW S, NEW T, IsFiniteSet(S), Orders(R, S), Kept(R, G, S, T), NEW n \in Nat
    PROVE  Kept(R, G, FirstIn(R, S, n), FirstIn(R, T, n))
<1> SUFFICES ASSUME NEW i \in FirstIn(R, S, n) \cap G
             PROVE  /\ i \in FirstIn(R, T, n)
                    /\ Ahead(R, FirstIn(R, T, n), i) \subseteq Ahead(R, FirstIn(R, S, n), i)
  BY Zenon DEF Kept
<1>1. i \in S /\ i \in T /\ Ahead(R, T, i) \subseteq Ahead(R, S, i) /\ Cardinality(Ahead(R, S, i)) < n
  BY Zenon DEF Kept, FirstIn
<1>2. Ahead(R, S, i) \subseteq S
  BY Zenon DEF Ahead
<1>3. IsFiniteSet(Ahead(R, S, i))
  BY <1>2, FS_Subset, Zenon
<1>4. /\ Cardinality(Ahead(R, T, i)) \in Nat /\ Cardinality(Ahead(R, S, i)) \in Nat
      /\ Cardinality(Ahead(R, T, i)) <= Cardinality(Ahead(R, S, i))
  BY <1>1, <1>3, FS_Subset, FS_CardinalityType, Zenon
<1>5. i \in FirstIn(R, T, n)
  BY <1>1, <1>4 DEF FirstIn
<1>6. \A j \in S : <<j, i>> \in R => j \in FirstIn(R, S, n)
  BY FirstFacts, Zenon
<1>7. Ahead(R, FirstIn(R, T, n), i) \subseteq Ahead(R, FirstIn(R, S, n), i)
  <2> SUFFICES ASSUME NEW j \in Ahead(R, FirstIn(R, T, n), i)
               PROVE  j \in Ahead(R, FirstIn(R, S, n), i)
    BY Zenon
  <2>1. j \in Ahead(R, T, i)
    BY Zenon DEF Ahead, FirstIn
  <2>2. j \in S /\ <<j, i>> \in R
    BY <1>1, <2>1, Zenon DEF Ahead
  <2> QED
    BY <1>6, <2>2, Zenon DEF Ahead
<1> QED
  BY <1>5, <1>7, Zenon

\* So does taking those that pass a filter.
LEMMA KeptPassing ==
    ASSUME NEW R, NEW G, NEW S, NEW T, Kept(R, G, S, T), NEW P
    PROVE  Kept(R, G, S \cap P, T \cap P)
BY Zenon DEF Kept, Ahead

\* So does a cut, with a limit or without one.
LEMMA KeptTaken ==
    ASSUME NEW ns \in [Ids -> Nodes], NEW G, NEW S \in SUBSET Ids, NEW T, NEW n \in Nat, Kept(Ranking(ns), G, S, T)
    PROVE  Kept(Ranking(ns), G, Taken(ns, S, n), Taken(ns, T, n)) /\ Taken(ns, S, n) \in SUBSET Ids
<1>1. Orders(Ranking(ns), S) /\ IsFiniteSet(S)
  BY RankingOrders, Zenon
<1>2. Kept(Ranking(ns), G, FirstIn(Ranking(ns), S, n), FirstIn(Ranking(ns), T, n))
  BY <1>1, KeptFirst, Zenon
<1>3. FirstIn(Ranking(ns), S, n) \in SUBSET Ids
  BY Zenon DEF FirstIn
<1> QED
  BY <1>2, <1>3, Zenon DEF Taken

\* A node that is selected among all is selected for its country, since every cut
\* puts at most the nodes ahead of it there that are ahead of it here.
LEMMA SelectedForCountry ==
    ASSUME NEW c \in Settings, c.dial, c.sortBy = "score", ~c.preferTLS, NEW ns \in [Ids -> Nodes],
           NEW country, country # "",
           NEW i \in SelectPublishNodesCountry(c, ns, ""), countryCode(Known(ns[i].country)) = countryCode(country)
    PROVE  i \in SelectPublishNodesCountry(c, ns, country)
<1> DEFINE R == Ranking(ns)
           G == {j \in Ids : countryCode(Known(ns[j].country)) = countryCode(country)}
           P == {j \in Ids : Passes(c, ns[j])}
           m == MaxNodes(c)
           S0 == {j \in Ids : Match(PublishFilter(c, ""), ns[j])}
           T0 == {j \in Ids : Match(PublishFilter(c, country), ns[j])}
           S1 == Taken(ns, S0, 3 * m)
           T1 == Taken(ns, T0, 3 * m)
           S2 == Taken(ns, S1 \cap P, c.filterMax)
           T2 == Taken(ns, T1 \cap P, c.filterMax)
<1>1. m \in Nat /\ 3 * m \in Nat /\ c.filterMax \in Nat
  <2>1. m \in Nat /\ c.filterMax \in Nat
    BY Limits, SettingTypes, Zenon
  <2> QED
    BY <2>1, Thrice, Zenon
<1>2. \A S, n : Taken(ns, S, n) \subseteq S
  BY Zenon DEF Taken, FirstIn
<1>3. SelectPublishNodesCountry(c, ns, "") = Taken(ns, S2, m)
  <2>1. S1 \cap P = {j \in S1 : Passes(c, ns[j])}
    BY <1>2, Zenon
  <2> QED
    BY <2>1, SelectionIsTaken, Zenon
<1>4. SelectPublishNodesCountry(c, ns, country) = Taken(ns, T2, m)
  <2>1. T1 \cap P = {j \in T1 : Passes(c, ns[j])}
    BY <1>2, Zenon
  <2> QED
    BY <2>1, SelectionIsTaken, Zenon
<1>5. T0 = S0 \cap G
  <2>1. ASSUME NEW j \in Ids
        PROVE  Match(PublishFilter(c, country), ns[j]) <=>
                   Match(PublishFilter(c, ""), ns[j]) /\ countryCode(Known(ns[j].country)) = countryCode(country)
    BY DialMatch, Zenon DEF Asked
  <2> QED
    BY <2>1, Zenon
<1>6. S0 \in SUBSET Ids /\ i \in G
  <2>1. i \in Ids
    BY SelectionOfStore, Zenon
  <2> QED
    BY <2>1, Zenon
<1> HIDE DEF R, G, P, m, S0, T0
<1>7. Kept(R, G, S0, T0)
  BY <1>5, Zenon DEF Kept, Ahead
<1>8. Kept(R, G, S1, T1) /\ S1 \in SUBSET Ids
  BY <1>1, <1>6, <1>7, KeptTaken, Zenon DEF R
<1> HIDE DEF S1, T1
<1>9. Kept(R, G, S1 \cap P, T1 \cap P) /\ S1 \cap P \in SUBSET Ids
  BY <1>8, KeptPassing, Zenon
<1>10. Kept(R, G, S2, T2) /\ S2 \in SUBSET Ids
  BY <1>1, <1>9, KeptTaken, Zenon DEF R
<1> HIDE DEF S2, T2
<1>11. Kept(R, G, Taken(ns, S2, m), Taken(ns, T2, m))
  BY <1>1, <1>10, KeptTaken, Zenon DEF R
<1> QED
  BY <1>3, <1>4, <1>6, <1>11, Zenon DEF Kept

\* Whatever the limits are, a rendered body holds, until something changes, only
\* nodes that a selection for the request would give.
THEOREM CacheIsWithinLive == Spec => []CacheWithinLive
<1>1. ASSUME CacheInv, ~changed, cfg.dial, cfg.sortBy = "score", ~cfg.preferTLS, NEW p \in Tokens,
             NEW country \in Codes, principalAllowsCountry(p, country), NEW i \in Cached(p, country)
      PROVE  i \in Live(p, country).ids
  <2>1. /\ BlobOK(blob) /\ CacheServes(p, country) /\ i \in blob.body.all
        /\ country # "" => countryCode(Known(blob.of[i].country)) = countryCode(country)
    BY <1>1, CachedOfBody, Zenon
  <2>2. /\ cfg \in Settings /\ nodes \in [Ids -> Nodes] /\ blob.of[i] = nodes[i]
        /\ i \in SelectPublishNodesCountry(cfg, nodes, "")
    BY <1>1, <2>1, Zenon DEF CacheInv
  <2>3. i \in SelectPublishNodesCountry(cfg, nodes, country)
    BY <1>1, <2>1, <2>2, SelectedForCountry, Zenon
  <2>4. InScope(p, nodes[i])
    BY <1>1, <2>2, CachedInScope, Zenon
  <2> QED
    BY <2>3, <2>4, Zenon DEF Live, filterTokenNodes
<1>2. CacheInv => CacheWithinLive
  BY <1>1, Zenon DEF CacheWithinLive
<1> QED
  BY CacheInvariant, <1>2, PTL

-----------------------------------------------------------------------------
(* A selection is the best of what is asked for.                           *)

\* The first n of the order are the best.
LEMMA FirstIsBest ==
    ASSUME nodes \in [Ids -> Nodes], NEW S \in SUBSET Ids, NEW n \in Nat, n > 0
    PROVE  BestOf(Taken(nodes, S, n), S, n)
<1> DEFINE R == Ranking(nodes)
           F == FirstIn(R, S, n)
<1>1. Orders(R, S) /\ IsFiniteSet(S)
  BY RankingOrders, Zenon
<1>2. Taken(nodes, S, n) = F
  BY Zenon DEF Taken
<1>3. /\ \A i \in F, j \in S \ F : <<i, j>> \in R
      /\ Cardinality(F) = IF Cardinality(S) <= n THEN Cardinality(S) ELSE n
  BY <1>1, FirstFacts
<1>4. F \subseteq S
  BY Zenon DEF FirstIn
<1>5. Cardinality(S) \in Nat
  BY <1>1, FS_CardinalityType, Zenon
<1> HIDE DEF F
<1>6. \A x, y \in Nat : Min({x, y}) = IF y <= x THEN y ELSE x
  BY DEF Min
<1>7. Cardinality(F) = Min({n, Cardinality(S)})
  BY <1>3, <1>5, <1>6, Zenon
<1>8. ASSUME NEW i \in F, NEW j \in S \ F
      PROVE  nodes[i].score >= nodes[j].score
  <2>1. nodes[i].score \in Nat /\ nodes[j].score \in Nat
    BY <1>4, NodeTypes, Zenon
  <2>2. Better(nodes, i, j)
    BY <1>3, <1>8, Zenon DEF R, Ranking
  <2> QED
    BY <2>1, <2>2 DEF Better
<1> QED
  BY <1>2, <1>4, <1>7, <1>8, Zenon DEF BestOf

\* Under plain settings the two filters let through what is expected.
LEMMA EligiblePass ==
    ASSUME NEW c \in Settings, Plain(c), NEW country, country # "UK", NEW n \in Nodes
    PROVE  Match(PublishFilter(c, country), n) /\ Passes(c, n) <=> Eligible(c, n, country)
<1>1. /\ c.minScore \in Nat /\ c.filterScore \in Nat /\ c.verifiedTTL \in Nat /\ c.maxAge \in Nat
      /\ c.maxLatency \in Nat
  BY SettingTypes, Zenon
<1>2. n.score \in Nat /\ n.latency \in Nat /\ n.dialed \in Age /\ n.seen \in Age
  BY NodeTypes, Zenon
<1>3. /\ c.dial /\ c.engine # "auto" /\ c.aliveOnly
      /\ c.minScore # 0 /\ c.maxLatency # 0 /\ c.verifiedTTL # 0 /\ c.maxAge # 0
  BY Zenon DEF Plain
<1>4. /\ MinScore(c) = c.minScore /\ SeenWithin(c) = c.maxAge /\ DialLimit(c) = c.verifiedTTL
      /\ Either(c.maxLatency, 2500) = c.maxLatency
  BY <1>1, <1>3 DEF MinScore, SeenWithin, DialLimit, Either
<1>5. n.dialed # Never /\ n.dialed <= DialLimit(c) <=> n.dialed \in 0..c.verifiedTTL
  BY <1>1, <1>2, <1>4 DEF Age, Never
<1>6. (n.seen # Never => n.seen <= SeenWithin(c)) <=> n.seen <= c.maxAge
  BY <1>1, <1>2, <1>4 DEF Age, Never
<1>7. (MinScore(c) > 0 => n.score >= MinScore(c)) /\ (MinScore(c) >= 70 => n.score >= 70)
          <=> n.score >= c.minScore
  BY <1>1, <1>2, <1>3, <1>4
<1>8. (country # "" => countryCode(Known(n.country)) = countryCode(country))
          <=> country \in {"", countryCode(Known(n.country))}
  BY Zenon DEF countryCode
<1>9. Match(PublishFilter(c, country), n) <=>
          /\ country \in {"", countryCode(Known(n.country))} /\ n.alive /\ n.score >= c.minScore /\ n.verified
          /\ c.engine \in n.engines /\ n.dialed \in 0..c.verifiedTTL /\ n.seen <= c.maxAge
  <2>1. Match(PublishFilter(c, country), n) <=> Asked(c, country, n)
    BY <1>3, DialMatch, Zenon
  <2> QED
    BY <1>3, <1>5, <1>6, <1>7, <1>8, <2>1, Zenon DEF Asked
<1>10. ASSUME n.alive, n.score >= c.minScore
       PROVE  Passes(c, n) <=> n.latency <= c.maxLatency /\ n.score >= c.filterScore
  BY <1>1, <1>2, <1>3, <1>4, <1>10 DEF Passes
<1> QED
  BY <1>9, <1>10, Zenon DEF Eligible

\* A publication is the best of the eligible nodes.
LEMMA PublicationIsBest ==
    ASSUME CacheInv, Plain(cfg), NEW country, country # "UK",
           Cardinality({i \in Ids : Match(PublishFilter(cfg, country), nodes[i])}) <= 3 * cfg.maxNodes
    PROVE  BestOf(SelectPublishNodesCountry(cfg, nodes, country),
                  {i \in Ids : Eligible(cfg, nodes[i], country)}, cfg.maxNodes)
<1> DEFINE matching == {i \in Ids : Match(PublishFilter(cfg, country), nodes[i])}
           eligible == {i \in Ids : Eligible(cfg, nodes[i], country)}
           R == Ranking(nodes)
<1>1. nodes \in [Ids -> Nodes] /\ cfg \in Settings
  BY Zenon DEF CacheInv
<1>2. /\ cfg.dial /\ cfg.sortBy = "score" /\ ~cfg.preferTLS /\ cfg.maxNodes # 0
      /\ cfg.filterMax > 0 => cfg.maxNodes <= cfg.filterMax
  BY Zenon DEF Plain
<1>3. cfg.maxNodes \in Nat /\ cfg.filterMax \in Nat /\ cfg.maxNodes > 0 /\ 3 * cfg.maxNodes \in Nat
  <2>1. cfg.maxNodes \in Nat /\ cfg.filterMax \in Nat
    BY <1>1, SettingTypes, Zenon
  <2>2. \A x \in Nat : x # 0 => x > 0
    OBVIOUS
  <2> QED
    BY <1>2, <2>1, <2>2, Thrice, Zenon
<1>4. MaxNodes(cfg) = cfg.maxNodes
  BY <1>3, Zenon DEF MaxNodes, Either
<1>5. Taken(nodes, matching, 3 * cfg.maxNodes) = matching
  <2>1. Orders(R, matching) /\ IsFiniteSet(matching)
    BY <1>1, RankingOrders, Zenon
  <2> HIDE DEF matching, R
  <2>2. Cardinality(matching) <= 3 * cfg.maxNodes
    BY Zenon DEF matching
  <2>3. FirstIn(R, matching, 3 * cfg.maxNodes) = matching
    BY <1>3, <2>1, <2>2, FirstFacts, Zenon
  <2> QED
    BY <2>3, Zenon DEF Taken, R
<1>6. {i \in matching : Passes(cfg, nodes[i])} = eligible
  <2>1. \A i \in Ids : Match(PublishFilter(cfg, country), nodes[i]) /\ Passes(cfg, nodes[i])
                           <=> Eligible(cfg, nodes[i], country)
    BY <1>1, EligiblePass, Zenon
  <2> QED
    BY <2>1, Zenon
<1>7. SelectPublishNodesCountry(cfg, nodes, country)
          = Taken(nodes, Taken(nodes, eligible, cfg.filterMax), cfg.maxNodes)
  BY <1>1, <1>2, <1>4, <1>5, <1>6, SelectionIsTaken, ZenonT(30)
<1>8. eligible \in SUBSET Ids
  BY Zenon
<1> HIDE DEF eligible, matching
<1>9. Taken(nodes, Taken(nodes, eligible, cfg.filterMax), cfg.maxNodes) = Taken(nodes, eligible, cfg.maxNodes)
  <2>1. Orders(R, eligible) /\ IsFiniteSet(eligible)
    BY <1>1, <1>8, RankingOrders, Zenon
  <2> HIDE DEF R
  <2>2. CASE cfg.filterMax > 0
    <3>1. FirstIn(R, FirstIn(R, eligible, cfg.filterMax), cfg.maxNodes) = FirstIn(R, eligible, cfg.maxNodes)
      BY <1>2, <1>3, <2>1, <2>2, FirstOfFirst
    <3> QED
      BY <1>3, <2>2, <3>1, Zenon DEF Taken, R
  <2>3. CASE ~(cfg.filterMax > 0)
    BY <2>3, Zenon DEF Taken
  <2> QED
    BY <2>2, <2>3, Zenon
<1>10. BestOf(Taken(nodes, eligible, cfg.maxNodes), eligible, cfg.maxNodes)
  BY <1>1, <1>3, <1>8, FirstIsBest, Zenon
<1> QED
  BY <1>7, <1>9, <1>10, Zenon DEF eligible

\* What is compared in the description of a pool.
LEMMA PoolTypes ==
    ASSUME NEW pool \in Pools
    PROVE  /\ pool.minScore \in Nat /\ pool.maxNodes \in Nat /\ pool.maxLatency \in Nat
           /\ "" \notin pool.countries /\ "ss" \notin pool.countries /\ "hy2" \notin pool.countries
           /\ "" \notin pool.protocols
<1>1. pool \in Descriptions
  BY PublicationAssumption, Zenon
<1>2. {"ss", "hy2"} \cap pool.countries = {}
  BY PublicationAssumption, Zenon
<1> QED
  BY <1>1, <1>2, Zenon DEF Descriptions

\* The names of countries are kept, and those of protocols made canonical.
LEMMA PoolNames ==
    ASSUME NEW pool \in Pools, "ss" \notin pool.protocols
    PROVE  /\ normalizedSet(pool.countries) = pool.countries
           /\ normalizedSet(pool.protocols) = {normalizeProtocol(x) : x \in pool.protocols}
BY PoolTypes, Zenon DEF normalizedSet, normalizeProtocol

\* The scope of a pool is what its description says.
LEMMA InPoolTells ==
    ASSUME NEW pool \in Pools, "ss" \notin pool.protocols, NEW n
    PROVE  InPool(Configured(cfg, pool), n) <=>
               /\ pool.requireAI => n.ai
               /\ pool.maxLatency > 0 => n.latency <= pool.maxLatency
               /\ pool.protocols = {} \/ \E x \in pool.protocols : {n.protocol, x} \in {{"hy2", "hysteria2"}, {x}}
               /\ pool.countries = {} \/ n.country \in pool.countries \/ (n.country = "" /\ "XX" \in pool.countries)
<1> DEFINE d == Configured(cfg, pool)
<1>1. pool \in Descriptions
  BY PublicationAssumption, Zenon
<1>2. /\ (d.requireAI <=> pool.requireAI) /\ d.maxLatency = pool.maxLatency
      /\ d.countries = normalizedSet(pool.countries) /\ d.protocols = normalizedSet(pool.protocols)
  BY <1>1, Zenon DEF Configured, Descriptions
<1> HIDE DEF d
<1>3. (d.countries # {} => Known(n.country) \in d.countries)
          <=> pool.countries = {} \/ n.country \in pool.countries \/ (n.country = "" /\ "XX" \in pool.countries)
  BY <1>2, PoolNames, PoolTypes, Zenon DEF Known
<1>4. (d.protocols # {} => normalizeProtocol(n.protocol) \in d.protocols)
          <=> pool.protocols = {} \/ \E x \in pool.protocols : {n.protocol, x} \in {{"hy2", "hysteria2"}, {x}}
  <2>1. d.protocols = {normalizeProtocol(x) : x \in pool.protocols}
    BY <1>2, PoolNames, Zenon
  <2>2. ASSUME NEW x
        PROVE  normalizeProtocol(n.protocol) = normalizeProtocol(x)
                   <=> {n.protocol, x} \in {{"hy2", "hysteria2"}, {x}}
    BY Zenon DEF normalizeProtocol
  <2>3. d.protocols = {} <=> pool.protocols = {}
    BY <2>1, Zenon
  <2>4. normalizeProtocol(n.protocol) \in d.protocols
            <=> \E x \in pool.protocols : normalizeProtocol(n.protocol) = normalizeProtocol(x)
    BY <2>1, Zenon
  <2> QED
    BY <2>2, <2>3, <2>4, Zenon
<1> QED
  BY <1>2, <1>3, <1>4, Zenon DEF InPool, d

\* A pool that gives its limits.
Limited(pool) == 0 \notin {pool.minScore, pool.maxNodes}

\* It keeps them.
LEMMA PoolLimits ==
    ASSUME NEW pool \in Pools, Limited(pool)
    PROVE  /\ Configured(cfg, pool).minScore = pool.minScore /\ Configured(cfg, pool).maxNodes = pool.maxNodes
           /\ Configured(cfg, pool).verified <=> pool.verified
           /\ pool.maxNodes \in Nat /\ pool.minScore \in Nat /\ pool.maxNodes > 0 /\ pool.minScore > 0
<1>1. pool \in Descriptions
  BY PublicationAssumption, Zenon
<1>2. pool.maxNodes \in Nat /\ pool.minScore \in Nat
  BY PoolTypes, Zenon
<1>3. pool.maxNodes > 0 /\ pool.minScore > 0
  BY <1>2 DEF Limited
<1> QED
  BY <1>1, <1>2, <1>3, Zenon DEF Configured, Descriptions, Either

\* The filter of a pool, and the width of its pre-selection.
PoolFresh(pool) == pool.verified /\ cfg.verifiedTTL > 0
PoolFilter(pool) ==
    [NoFilter EXCEPT !.aliveOnly = TRUE, !.minScore = pool.minScore, !.verifiedOnly = pool.verified,
                     !.dialWithin = IF PoolFresh(pool) THEN cfg.verifiedTTL ELSE Never,
                     !.engine = IF PoolFresh(pool) /\ cfg.engine # "auto" THEN cfg.engine ELSE ""]
PoolWide(pool) == IF 20 * pool.maxNodes > 5000 THEN 20 * pool.maxNodes ELSE 5000

\* Ages within a limit.
LEMMA Within ==
    /\ \A t \in Nat : t # Never
    /\ \A x \in Age, t \in Nat : x # Never /\ x <= t <=> x \in 0..t
BY DEF Age, Never

\* The store is asked for what the description of the pool says.
LEMMA PoolMatch ==
    ASSUME cfg \in Settings, cfg.verifiedTTL > 0, NEW pool \in Pools, Limited(pool), NEW n \in Nodes
    PROVE  Match(PoolFilter(Configured(cfg, pool)), n) <=>
               /\ n.alive /\ n.score >= pool.minScore
               /\ pool.verified => /\ n.verified /\ cfg.engine \in n.engines \cup {"auto"}
                                   /\ n.dialed \in 0..cfg.verifiedTTL
<1> DEFINE d == Configured(cfg, pool)
           f == PoolFilter(d)
<1>0. d.minScore = pool.minScore /\ (d.verified <=> pool.verified)
  BY PoolLimits, Zenon
<1> HIDE DEF d
<1>1. /\ f.country = "" /\ f.aliveOnly /\ f.minScore = pool.minScore /\ ~f.highQuality
      /\ (f.verifiedOnly <=> pool.verified) /\ f.seenWithin = Never
      /\ f.dialWithin = (IF pool.verified THEN cfg.verifiedTTL ELSE Never)
      /\ f.engine = (IF pool.verified /\ cfg.engine # "auto" THEN cfg.engine ELSE "")
  BY <1>0, Zenon DEF PoolFilter, PoolFresh, NoFilter
<1>2. /\ pool.minScore \in Nat /\ pool.minScore > 0
      /\ cfg.verifiedTTL \in Nat /\ cfg.engine # "" /\ n.score \in Nat /\ n.dialed \in Age
  BY PoolLimits, SettingTypes, NodeTypes, Zenon
<1> HIDE DEF f
<1>3. (f.minScore > 0 => n.score >= f.minScore) <=> n.score >= pool.minScore
  BY <1>1, <1>2, Zenon
<1>4. (f.engine # "" => PassedEngine(n, f.engine)) <=> (pool.verified => cfg.engine \in n.engines \cup {"auto"})
  BY <1>1, <1>2, Zenon DEF PassedEngine
<1>5. MatchTimes(f, n) <=> (pool.verified => n.dialed \in 0..cfg.verifiedTTL)
  <2>1. n.dialed # Never /\ n.dialed <= cfg.verifiedTTL <=> n.dialed \in 0..cfg.verifiedTTL
    BY <1>2, Within, Zenon
  <2>2. cfg.verifiedTTL # Never
    BY <1>2, Within, Zenon
  <2> QED
    BY <1>1, <2>1, <2>2, Zenon DEF MatchTimes
<1> QED
  BY <1>1, <1>3, <1>4, <1>5, Zenon DEF Match, f, d

\* A pool is the best of the nodes that fit.
LEMMA PoolIsBest ==
    ASSUME CacheInv, cfg.verifiedTTL > 0, FewNodes,
           NEW pool \in Pools, "ss" \notin pool.protocols, Limited(pool)
    PROVE  BestOf(PoolSelect(cfg, nodes, pool), {i \in Ids : Fits(pool, nodes[i])}, pool.maxNodes)
<1> DEFINE d == Configured(cfg, pool)
           R == Ranking(nodes)
           matching == {i \in Ids : Match(PoolFilter(d), nodes[i])}
           fitting == {i \in Ids : Fits(pool, nodes[i])}
<1>1. nodes \in [Ids -> Nodes] /\ cfg \in Settings
  BY Zenon DEF CacheInv
<1>2. d.maxNodes = pool.maxNodes /\ pool.maxNodes \in Nat /\ pool.maxNodes > 0
  BY PoolLimits, Zenon
<1>3. PoolWide(d) \in Nat /\ PoolWide(d) >= 5000
  <2> HIDE DEF d
  <2> QED
    BY <1>2 DEF PoolWide
<1>4. PoolSelect(cfg, nodes, pool) = ByRank(nodes, {i \in ListNodes(nodes, PoolFilter(d), PoolWide(d)) :
                                                        InPool(d, nodes[i])}, pool.maxNodes)
  <2> HIDE DEF d
  <2> QED
    BY <1>2 DEF PoolSelect, PoolFilter, PoolFresh, PoolWide, ByRank, d
<1>6. ListNodes(nodes, PoolFilter(d), PoolWide(d)) = matching
  <2>1. {i \in DOMAIN nodes : Match(PoolFilter(d), nodes[i])} = matching
    BY <1>1, Zenon
  <2>2. matching \in SUBSET Ids
    BY Zenon
  <2> HIDE DEF matching, d
  <2>3. ListNodes(nodes, PoolFilter(d), PoolWide(d)) = Taken(nodes, matching, PoolWide(d))
    <3>1. ListNodes(nodes, PoolFilter(d), PoolWide(d)) = ByRank(nodes, matching, PoolWide(d))
      BY <2>1, Zenon DEF ListNodes, ByRank
    <3> QED
      BY <1>3, <2>2, <3>1, ByRankIsTaken
  <2>4. Orders(R, matching) /\ IsFiniteSet(matching)
    BY <1>1, <2>2, RankingOrders
  <2>5. Cardinality(matching) <= PoolWide(d)
    <3>1. Cardinality(matching) <= Cardinality(Ids) /\ Cardinality(matching) \in Nat /\ Cardinality(Ids) \in Nat
      BY <2>2, PublicationAssumption, FS_Subset, FS_CardinalityType, Zenon
    <3> QED
      BY <1>3, <3>1 DEF FewNodes
  <2> HIDE DEF R
  <2>6. FirstIn(R, matching, PoolWide(d)) = matching
    BY <1>3, <2>4, <2>5, FirstFacts
  <2> QED
    BY <2>3, <2>6, Zenon DEF Taken, R
<1>7. {i \in matching : InPool(d, nodes[i])} = fitting
  <2>1. ASSUME NEW i \in Ids
        PROVE  Match(PoolFilter(d), nodes[i]) /\ InPool(d, nodes[i]) <=> Fits(pool, nodes[i])
    <3> DEFINE n == nodes[i]
    <3>1. n \in Nodes
      BY <1>1, Zenon
    <3> HIDE DEF n
    <3> QED
      BY <1>1, <3>1, PoolMatch, InPoolTells, Zenon DEF Fits, n
  <2> QED
    BY <2>1, Zenon
<1>8. fitting \in SUBSET Ids
  BY Zenon
<1> HIDE DEF d, fitting, matching
<1>9. PoolSelect(cfg, nodes, pool) = Taken(nodes, fitting, pool.maxNodes)
  BY <1>2, <1>4, <1>6, <1>7, <1>8, ByRankIsTaken, ZenonT(30)
<1>10. BestOf(Taken(nodes, fitting, pool.maxNodes), fitting, pool.maxNodes)
  BY <1>1, <1>2, <1>8, FirstIsBest, ZenonT(30)
<1> QED
  BY <1>9, <1>10, Zenon DEF fitting

\* Whatever nodes, settings and pools there are, what is selected is the best of
\* what the settings, or the pool, ask for, and no less of it than the limit.
THEOREM SelectionsAreBest == Spec => []SelectsBest
<1>1. CacheInv => SelectsBest
  <2> SUFFICES ASSUME CacheInv PROVE SelectsBest
    BY Zenon
  <2>1. ASSUME Plain(cfg), NEW country \in Codes \ {"UK"},
               Cardinality({i \in Ids : Match(PublishFilter(cfg, country), nodes[i])}) <= 3 * cfg.maxNodes
        PROVE  BestOf(SelectPublishNodesCountry(cfg, nodes, country),
                      {i \in Ids : Eligible(cfg, nodes[i], country)}, cfg.maxNodes)
    BY <2>1, PublicationIsBest, ZenonT(30)
  <2>2. ASSUME FewNodes, cfg.verifiedTTL > 0, NEW pool \in Pools,
               "ss" \notin pool.protocols, 0 \notin {pool.minScore, pool.maxNodes}
        PROVE  BestOf(PoolSelect(cfg, nodes, pool), {i \in Ids : Fits(pool, nodes[i])}, pool.maxNodes)
    BY <2>2, PoolIsBest, ZenonT(30) DEF Limited
  <2> QED
    BY <2>1, <2>2, ZenonT(30) DEF SelectsBest
<1> QED
  BY CacheInvariant, <1>1, PTL
=============================================================================
