--------------------------- MODULE ControlProofs ----------------------------
(***************************************************************************)
(* What operators rely on, for every value of the constants: the state of  *)
(* the sources in an installation with one process, the accounts that      *)
(* administer a tenant, the rate at which a client is let through, and the *)
(* orderly shutdown.                                                       *)
(***************************************************************************)
EXTENDS SourceGovernance, Sessions, RateLimiter, Shutdown, TLAPS

-----------------------------------------------------------------------------
(* The sources, for any sources, fetchers, requests, threshold and         *)
(* cool-down: the table says what the map says, and only failures in a row *)
(* lead to a cool-down.  Map and row are written one after the other; the  *)
(* invariant says of each half-done write what the other half will make of *)
(* it.                                                                     *)

\* Actor a has still to write the other copy of s.
On(a, s) == pc[a] \in {"write", "switch"} /\ pend[a].src = s

\* The row may have lost the cool-down of a source that is switched off, no more.
Agree(m, r) ==
    /\ m.fails = r.fails /\ m.manual = r.manual
    /\ r.until <= m.until /\ (~m.manual => m.until = r.until)

\* A fetch that is recorded in the map m and not yet in the row r.
Recording(w, m, r) ==
    /\ m = w.state /\ m.manual = r.manual
    /\ m.fails = IF w.ok THEN 0 ELSE OneMore(r.fails)

\* A switch that is in the row r and not yet in the map m.
Switching(w, m, r) == m.fails = r.fails /\ r.manual = ~w.enabled /\ r.until = 0

\* A source whose writes never overlapped or failed.
InOrder(s) ==
    /\ ~InFlight(s) => Agree(mem[Api][s], row[s])
    /\ \A a \in Actors : On(a, s) =>
          /\ \A b \in Actors : On(b, s) => b = a
          /\ pc[a] = "write" => Recording(pend[a], mem[Api][s], row[s])
          /\ pc[a] = "switch" => Switching(pend[a], mem[Api][s], row[s])

\* TypeOK in parts: maps and rows, fetches, and what is to be written.
Typed == /\ mem \in [Procs -> [Sources -> State]] /\ row \in [Sources -> State]
         /\ streak \in [Sources -> 0..DisableAfter] /\ doubt \in [Sources -> 0..2]
FetchTyped == /\ todo \in [Fetchers -> SUBSET Sources] /\ got \in [Fetchers -> SUBSET Sources]
              /\ failed \in [Fetchers -> SUBSET Sources]
              /\ held \in [Procs -> SUBSET Sources] /\ saved \in SUBSET Sources
PcTyped == /\ pc \in [Actors -> {"idle", "fetch", "record", "write", "switch"}]
           /\ \A a \in Actors : /\ pc[a] = "write" => pend[a] \in Records
                                /\ pc[a] = "switch" => pend[a] \in Switches
                                /\ pc[a] \notin {"write", "switch"} => pend[a] = Nothing
PendTyped == pend \in [Actors -> {Nothing} \cup Records \cup Switches]

\* The map counts the failures as they happened.
Counted == \A s \in Sources : doubt[s] < 2 => mem[Api][s].fails = streak[s]

GInv == /\ Typed /\ FetchTyped /\ PcTyped /\ PendTyped
        /\ \A s \in Sources : doubt[s] = 0 => InOrder(s)
        /\ Counted

-----------------------------------------------------------------------------
(* States of a source and what is done to them.                            *)

\* The threshold, the cool-down and what a record of a source holds.
LEMMA StateFacts ==
    /\ DisableAfter \in Nat /\ DisableAfter > 0 /\ Cooldown \in Nat /\ Cooldown > 0
    /\ Initially \in State /\ Initially.fails = 0 /\ Initially.until = 0 /\ Initially.manual = FALSE
    /\ \A st \in State : /\ st.fails \in 0..DisableAfter /\ st.until \in 0..Cooldown
                         /\ st.manual \in BOOLEAN
    /\ \A n \in 0..DisableAfter : OneMore(n) \in 0..DisableAfter
<1>1. DisableAfter \in Nat /\ DisableAfter > 0 /\ Cooldown \in Nat /\ Cooldown > 0
  BY GovernanceAssumption
<1> QED
  BY <1>1 DEF State, Initially, OneMore

\* A failure more, or none left, and a cool-down only once there were enough.
LEMMA ObservedFacts ==
    ASSUME NEW st \in State, NEW ok \in BOOLEAN
    PROVE  LET o == Observed(st, ok)
           IN  /\ o \in State /\ o.manual = st.manual
               /\ o.fails = IF ok THEN 0 ELSE OneMore(st.fails)
               /\ o.until > st.until => ~ok /\ o.fails = DisableAfter
<1>1. /\ st.fails \in 0..DisableAfter /\ st.until \in 0..Cooldown /\ st.manual \in BOOLEAN
      /\ OneMore(st.fails) \in 0..DisableAfter
      /\ DisableAfter \in Nat /\ DisableAfter > 0 /\ Cooldown \in Nat /\ Cooldown > 0
      /\ 0 \in 0..DisableAfter /\ 0 \in 0..Cooldown /\ Cooldown \in 0..Cooldown
  BY StateFacts
<1>2. CASE ok
  <2>1. ASSUME NEW o, o = [st EXCEPT !.fails = 0, !.until = 0]
        PROVE  o \in State /\ o.manual = st.manual /\ o.fails = 0 /\ o.until = 0
    BY <1>1, <2>1, Zenon DEF State
  <2> QED
    BY <1>1, <1>2, <2>1 DEF Observed
<1>3. CASE ~ok
  <2> DEFINE n == OneMore(st.fails)
  <2>1. ASSUME NEW o, o = [st EXCEPT !.fails = n]
        PROVE  o \in State /\ o.manual = st.manual /\ o.fails = n /\ o.until = st.until
    BY <1>1, <2>1, Zenon DEF State
  <2>2. ASSUME NEW q \in State, NEW o, o = [q EXCEPT !.until = Cooldown]
        PROVE  o \in State /\ o.manual = q.manual /\ o.fails = q.fails /\ o.until = Cooldown
    BY <1>1, <2>2, Zenon DEF State
  <2>3. Observed(st, ok) = IF n >= DisableAfter THEN Cooled([st EXCEPT !.fails = n])
                           ELSE [st EXCEPT !.fails = n]
    BY <1>3, Zenon DEF Observed
  <2>4. CASE n >= DisableAfter
    <3>1. Observed(st, ok) = [[st EXCEPT !.fails = n] EXCEPT !.until = Cooldown]
      BY <2>3, <2>4, Zenon DEF Cooled
    <3>2. n = DisableAfter
      BY <1>1, <2>4
    <3> DEFINE q == [st EXCEPT !.fails = n]
               o == Observed(st, ok)
    <3>3. q \in State /\ q.manual = st.manual /\ q.fails = n
      BY <2>1, Zenon
    <3>4. o = [q EXCEPT !.until = Cooldown]
      BY <3>1, Zenon
    <3> HIDE DEF q, o
    <3>5. o \in State /\ o.manual = q.manual /\ o.fails = q.fails
      BY <2>2, <3>3, <3>4, Zenon
    <3> QED
      BY <1>3, <3>2, <3>3, <3>5, ZenonT(30) DEF o
  <2>5. CASE ~(n >= DisableAfter)
    BY <1>1, <1>3, <2>1, <2>3, <2>5, SMTT(30)
  <2> QED
    BY <2>4, <2>5, Zenon
<1> QED
  BY <1>2, <1>3, Zenon

\* The row counts on from its own failures and takes the rest.
LEMMA RowRecordedFacts ==
    ASSUME NEW st \in State, NEW w \in Records
    PROVE  LET r == RowRecorded(st, w)
           IN  /\ r \in State /\ r.manual = w.state.manual /\ r.until = w.state.until
               /\ r.fails = IF w.ok THEN 0 ELSE OneMore(st.fails)
<1>1. w.state \in State /\ w.ok \in BOOLEAN
  BY Zenon DEF Records
<1> DEFINE q == w.state
           n == IF w.ok THEN 0 ELSE OneMore(st.fails)
<1>2. n \in 0..DisableAfter /\ q \in State
  BY <1>1, StateFacts, Zenon
<1>3. RowRecorded(st, w) = [q EXCEPT !.fails = n]
  BY Zenon DEF RowRecorded
<1> HIDE DEF q, n
<1>4. ASSUME NEW r, r = [q EXCEPT !.fails = n]
      PROVE  r \in State /\ r.manual = q.manual /\ r.until = q.until /\ r.fails = n
  BY <1>2, <1>4, StateFacts, Zenon DEF State
<1> QED
  BY <1>3, <1>4, Zenon DEF q, n

\* What a switch does to the row and to the map.
RowSwitched(st, on) == [st EXCEPT !.manual = ~on, !.until = 0]
MapSwitched(st, on) == [st EXCEPT !.manual = ~on, !.until = IF on THEN 0 ELSE @]

\* What a switch leaves in the row and in the map.
LEMMA SwitchFacts ==
    ASSUME NEW st \in State, NEW on \in BOOLEAN
    PROVE  /\ LET q == RowSwitched(st, on)
              IN  q \in State /\ q.fails = st.fails /\ q.manual = ~on /\ q.until = 0
           /\ LET q == MapSwitched(st, on)
              IN  q \in State /\ q.fails = st.fails /\ q.manual = ~on /\ q.until = IF on THEN 0 ELSE st.until
<1>1. st.fails \in 0..DisableAfter /\ st.until \in 0..Cooldown /\ 0 \in 0..Cooldown /\ (~on) \in BOOLEAN
  BY StateFacts, Zenon
<1>2. ASSUME NEW q, NEW n \in 0..Cooldown, q = [st EXCEPT !.manual = ~on, !.until = n]
      PROVE  q \in State /\ q.fails = st.fails /\ q.manual = ~on /\ q.until = n
  BY <1>1, <1>2, Zenon DEF State
<1>3. MapSwitched(st, on) = [st EXCEPT !.manual = ~on, !.until = IF on THEN 0 ELSE st.until]
  BY Zenon DEF MapSwitched, State
<1>4. (IF on THEN 0 ELSE st.until) \in 0..Cooldown
  BY <1>1, Zenon
<1> QED
  BY <1>1, <1>2, <1>3, <1>4, ZenonT(30) DEF RowSwitched

-----------------------------------------------------------------------------
(* The type invariant.                                                     *)

\* The parts make up the types.
LEMMA TypeParts == Typed /\ FetchTyped /\ PcTyped => TypeOK
<1>1. ASSUME PcTyped, NEW a \in Actors
      PROVE  pend[a] \in CASE pc[a] = "write" -> Records [] pc[a] = "switch" -> Switches [] OTHER -> {Nothing}
  <2>1. CASE pc[a] = "write"
    BY <1>1, <2>1, Zenon DEF PcTyped
  <2>2. CASE pc[a] = "switch"
    BY <1>1, <2>2, Zenon DEF PcTyped
  <2>3. CASE pc[a] \notin {"write", "switch"}
    BY <1>1, <2>3, Zenon DEF PcTyped
  <2> QED
    BY <2>1, <2>2, <2>3, Zenon
<1> QED
  BY <1>1, Zenon DEF TypeOK, Typed, FetchTyped, PcTyped

\* One actor moves; the others stay where they are.
LEMMA ActorMoves ==
    ASSUME PcTyped, PendTyped, NEW a \in Actors,
           pc' = [pc EXCEPT ![a] = pc'[a]], pend' = [pend EXCEPT ![a] = pend'[a]],
           \/ pc'[a] = "write" /\ pend'[a] \in Records
           \/ pc'[a] = "switch" /\ pend'[a] \in Switches
           \/ pc'[a] \in {"idle", "fetch", "record"} /\ pend'[a] = Nothing
    PROVE  /\ PcTyped' /\ PendTyped'
           /\ \A b \in Actors \ {a} : pc'[b] = pc[b] /\ pend'[b] = pend[b]
<1>1. \A b \in Actors \ {a} : pc'[b] = pc[b] /\ pend'[b] = pend[b]
  BY Zenon DEF PcTyped, PendTyped
<1>2. pend'[a] \in {Nothing} \cup Records \cup Switches
  BY Zenon
<1>3. PendTyped'
  BY <1>2, Zenon DEF PendTyped
<1>4. pc' \in [Actors -> {"idle", "fetch", "record", "write", "switch"}]
  BY Zenon DEF PcTyped
<1>5. PcTyped'
  BY <1>1, <1>4, Zenon DEF PcTyped
<1> QED
  BY <1>1, <1>3, <1>5, Zenon

\* doubt grows, or stays.
LEMMA DoubtMoves ==
    ASSUME Typed, NEW s \in Sources
    PROVE  /\ Doubtful(s) => doubt' \in [Sources -> 0..2] /\ doubt'[s] # 0 /\ (doubt'[s] < 2 => doubt[s] < 2)
                             /\ \A u \in Sources \ {s} : doubt'[u] = doubt[u]
           /\ Overlap(s) => doubt' \in [Sources -> 0..2] /\ (doubt'[s] = 0 => doubt[s] = 0 /\ ~InFlight(s))
                            /\ (doubt'[s] < 2 => doubt[s] < 2)
                            /\ \A u \in Sources \ {s} : doubt'[u] = doubt[u]
<1>1. doubt \in [Sources -> 0..2] /\ doubt[s] \in 0..2
  BY Zenon DEF Typed
<1>2. ASSUME Doubtful(s)
      PROVE  /\ doubt' \in [Sources -> 0..2] /\ doubt'[s] # 0 /\ (doubt'[s] < 2 => doubt[s] < 2)
             /\ \A u \in Sources \ {s} : doubt'[u] = doubt[u]
  <2>1. doubt' = [doubt EXCEPT ![s] = IF doubt[s] = 0 THEN 1 ELSE doubt[s]]
    BY <1>2, Zenon DEF Doubtful
  <2> QED
    BY <1>1, <2>1
<1>3. CASE InFlight(s)
  BY <1>2, <1>3, Zenon DEF Overlap
<1>4. CASE ~InFlight(s)
  BY <1>1, <1>2, <1>4, Zenon DEF Overlap
<1> QED
  BY <1>2, <1>3, <1>4, Zenon

\* recordSource, its effect on the map and on what is to be written.
MapRecorded(a, s, ok) ==
    LET o == Observed(mem[Api][s], ok)
    IN  /\ o \in State /\ mem' \in [Procs -> [Sources -> State]]
        /\ mem'[Api][s] = o /\ \A u \in Sources \ {s} : mem'[Api][u] = mem[Api][u]
        /\ PcTyped' /\ PendTyped' /\ pc'[a] = "write"
        /\ pend'[a].src = s /\ pend'[a].ok = ok /\ pend'[a].state = o
        /\ \A b \in Actors \ {a} : pc'[b] = pc[b] /\ pend'[b] = pend[b]
        /\ streak' \in [Sources -> 0..DisableAfter]
        /\ streak'[s] = IF ok THEN 0 ELSE OneMore(streak[s])
        /\ \A u \in Sources \ {s} : streak'[u] = streak[u]
        /\ doubt' \in [Sources -> 0..2] /\ (doubt'[s] = 0 => doubt[s] = 0 /\ ~InFlight(s))
        /\ doubt'[s] < 2 => doubt[s] < 2
        /\ \A u \in Sources \ {s} : doubt'[u] = doubt[u]

\* RecordSource writes the map and leaves its row to be written.
LEMMA RecordMoves ==
    ASSUME Typed, PcTyped, PendTyped, Procs = {Api}, NEW a \in Actors, NEW s \in Sources, NEW ok \in BOOLEAN,
           RecordSource(a, s, ok)
    PROVE  MapRecorded(a, s, ok)
<1>1. Typed /\ PcTyped /\ ProcOf(a) = Api /\ Api \in Procs
  BY GovernanceAssumption, Zenon DEF ProcOf, Actors
<1> DEFINE o == Observed(mem[Api][s], ok)
           w == [src |-> s, ok |-> ok, state |-> o]
<1>2. mem[Api] \in [Sources -> State] /\ mem[Api][s] \in State
  BY <1>1, Zenon DEF Typed
<1>3. o \in State
  BY <1>2, ObservedFacts, Zenon
<1>4. /\ mem' = [mem EXCEPT ![Api] = [mem[Api] EXCEPT ![s] = o]]
      /\ pc' = [pc EXCEPT ![a] = "write"] /\ pend' = [pend EXCEPT ![a] = w]
      /\ streak' = [streak EXCEPT ![s] = IF ok THEN 0 ELSE OneMore(streak[s])]
      /\ Overlap(s)
  BY <1>1, Zenon DEF RecordSource, Typed
<1>5. w \in Records /\ w.src = s /\ w.ok = ok /\ w.state = o
  BY <1>3, Zenon DEF Records
<1> HIDE DEF o, w
<1>6. /\ mem' \in [Procs -> [Sources -> State]] /\ mem'[Api][s] = o
      /\ \A u \in Sources \ {s} : mem'[Api][u] = mem[Api][u]
  BY <1>1, <1>2, <1>3, <1>4, ZenonT(30) DEF Typed
<1>7. /\ PcTyped' /\ PendTyped' /\ pc'[a] = "write" /\ pend'[a] = w
      /\ \A b \in Actors \ {a} : pc'[b] = pc[b] /\ pend'[b] = pend[b]
  <2>1. pc'[a] = "write" /\ pend'[a] = w
    BY <1>1, <1>4, Zenon DEF PcTyped, PendTyped
  <2>2. pc' = [pc EXCEPT ![a] = pc'[a]] /\ pend' = [pend EXCEPT ![a] = pend'[a]]
    BY <1>4, <2>1, Zenon
  <2> QED
    BY <1>1, <1>5, <2>1, <2>2, ActorMoves, ZenonT(30)
<1>8. streak[s] \in 0..DisableAfter /\ 0 \in 0..DisableAfter /\ OneMore(streak[s]) \in 0..DisableAfter
  BY <1>1, StateFacts, Zenon DEF Typed
<1>9. /\ streak' \in [Sources -> 0..DisableAfter] /\ streak'[s] = IF ok THEN 0 ELSE OneMore(streak[s])
      /\ \A u \in Sources \ {s} : streak'[u] = streak[u]
  BY <1>1, <1>4, <1>8, Zenon DEF Typed
<1> QED
  BY <1>1, <1>3, <1>4, <1>5, <1>6, <1>7, <1>9, DoubtMoves, ZenonT(30) DEF o, MapRecorded

-----------------------------------------------------------------------------
(* Steps.                                                                  *)

\* What CooldownEarned says of a source.
Earned(s) == doubt'[s] < 2 /\ mem[Api][s].until < mem'[Api][s].until => streak'[s] = DisableAfter

\* A source that no step touches stays in order.
LEMMA Unmoved ==
    ASSUME NEW s \in Sources, InOrder(s), mem'[Api][s] = mem[Api][s], row'[s] = row[s],
           \A a \in Actors : /\ On(a, s)' <=> On(a, s)
                             /\ On(a, s) => pc'[a] = pc[a] /\ pend'[a] = pend[a]
    PROVE  InOrder(s)'
<1>1. InFlight(s)' <=> InFlight(s)
  BY Zenon DEF InFlight, On
<1>2. ~InFlight(s)' => Agree(mem'[Api][s], row'[s])
  BY <1>1, Zenon DEF InOrder
<1>3. ASSUME NEW a \in Actors, On(a, s)'
      PROVE  /\ \A b \in Actors : On(b, s)' => b = a
             /\ pc'[a] = "write" => Recording(pend'[a], mem'[Api][s], row'[s])
             /\ pc'[a] = "switch" => Switching(pend'[a], mem'[Api][s], row'[s])
  BY <1>3, Zenon DEF InOrder
<1> QED
  BY <1>2, <1>3, Zenon DEF InOrder, Agree, Recording, Switching

\* A source on which nothing is under way is in order when map and row agree.
LEMMA Calm ==
    ASSUME NEW s \in Sources, \A a \in Actors : ~On(a, s)', Agree(mem'[Api][s], row'[s])
    PROVE  InOrder(s)'
BY Zenon DEF InOrder, On, Agree

\* A source on which one actor is at work.
LEMMA AtWork ==
    ASSUME NEW s \in Sources, NEW a \in Actors, On(a, s)', \A b \in Actors \ {a} : ~On(b, s)',
           \/ pc'[a] = "write" /\ Recording(pend'[a], mem'[Api][s], row'[s])
           \/ pc'[a] = "switch" /\ Switching(pend'[a], mem'[Api][s], row'[s])
    PROVE  InOrder(s)'
<1>1. InFlight(s)'
  BY Zenon DEF On, InFlight
<1> QED
  BY <1>1, Zenon DEF InOrder, Recording, Switching

\* A fetch or a probe is recorded in the map.
LEMMA RecordedKeeps ==
    ASSUME GInv, Procs = {Api}, NEW a \in Actors, NEW s \in Sources, NEW ok \in BOOLEAN,
           ~(pc[a] \in {"write", "switch"}), RecordSource(a, s, ok), row' = row
    PROVE  /\ Typed' /\ PcTyped' /\ PendTyped' /\ Counted'
           /\ \A u \in Sources : doubt'[u] = 0 => InOrder(u)'
           /\ \A u \in Sources : Earned(u)
<1> DEFINE m == mem[Api][s]
           o == Observed(m, ok)
<1>1. Typed /\ PcTyped /\ PendTyped /\ Counted /\ m \in State
  BY GovernanceAssumption, Zenon DEF GInv, Typed
<1>2. /\ o \in State /\ mem' \in [Procs -> [Sources -> State]]
      /\ mem'[Api][s] = o /\ \A u \in Sources \ {s} : mem'[Api][u] = mem[Api][u]
      /\ PcTyped' /\ PendTyped' /\ pc'[a] = "write"
      /\ pend'[a].src = s /\ pend'[a].ok = ok /\ pend'[a].state = o
      /\ \A b \in Actors \ {a} : pc'[b] = pc[b] /\ pend'[b] = pend[b]
      /\ streak' \in [Sources -> 0..DisableAfter]
      /\ streak'[s] = IF ok THEN 0 ELSE OneMore(streak[s])
      /\ \A u \in Sources \ {s} : streak'[u] = streak[u]
      /\ doubt' \in [Sources -> 0..2] /\ (doubt'[s] = 0 => doubt[s] = 0 /\ ~InFlight(s))
      /\ doubt'[s] < 2 => doubt[s] < 2
      /\ \A u \in Sources \ {s} : doubt'[u] = doubt[u]
  <2>1. MapRecorded(a, s, ok)
    BY <1>1, RecordMoves, Zenon
  <2> QED
    BY <2>1, Zenon DEF MapRecorded
<1>3. /\ o.manual = m.manual /\ o.fails = IF ok THEN 0 ELSE OneMore(m.fails)
      /\ o.until > m.until => ~ok /\ o.fails = DisableAfter
  BY <1>1, ObservedFacts, Zenon
<1>4. m.until \in Nat /\ o.until \in Nat /\ Typed'
  BY <1>1, <1>2, StateFacts DEF Typed
<1> HIDE DEF o
<1>5. doubt'[s] < 2 => o.fails = streak'[s]
  BY <1>1, <1>2, <1>3, Zenon DEF Counted
<1>6. Counted'
  BY <1>1, <1>2, <1>5 DEF Counted
<1>7. \A u \in Sources : Earned(u)
  <2>1. Earned(s)
    BY <1>2, <1>3, <1>4, <1>5, ZenonT(30) DEF Earned
  <2>2. ASSUME NEW u \in Sources \ {s} PROVE Earned(u)
    <3>1. mem[Api][u] \in State /\ mem'[Api][u] = mem[Api][u]
      BY <1>1, <1>2, GovernanceAssumption DEF Typed
    <3>2. mem[Api][u].until \in Nat
      BY <3>1, StateFacts
    <3> QED
      BY <3>1, <3>2 DEF Earned
  <2> QED
    BY <2>1, <2>2, Zenon
<1>8. ASSUME doubt'[s] = 0 PROVE InOrder(s)'
  <2>1. Agree(m, row[s]) /\ \A b \in Actors : ~On(b, s)
    BY <1>2, <1>8, Zenon DEF GInv, InOrder, InFlight, On
  <2>2. On(a, s)' /\ \A b \in Actors \ {a} : ~On(b, s)'
    BY <1>2, <2>1, Zenon DEF On
  <2>3. Recording(pend'[a], mem'[Api][s], row'[s])
    BY <1>2, <1>3, <2>1, Zenon DEF Recording, Agree
  <2> QED
    BY <1>2, <2>2, <2>3, AtWork, ZenonT(30)
<1>9. ASSUME NEW u \in Sources \ {s}, doubt'[u] = 0 PROVE InOrder(u)'
  <2>1. InOrder(u) /\ mem'[Api][u] = mem[Api][u] /\ row'[u] = row[u]
    BY <1>2, <1>9, Zenon DEF GInv
  <2>2. \A b \in Actors : (On(b, u)' <=> On(b, u)) /\ (On(b, u) => pc'[b] = pc[b] /\ pend'[b] = pend[b])
    BY <1>2, <1>9, Zenon DEF On
  <2> QED
    BY <2>1, <2>2, Unmoved, Zenon
<1> QED
  BY <1>2, <1>4, <1>6, <1>7, <1>8, <1>9, ZenonT(30)

\* What a step must keep.
Keeps == GInv' /\ \A s \in Sources : Earned(s)

\* A step that leaves the map as it is earns no cool-down.
LEMMA MapStays ==
    ASSUME Typed, NEW s \in Sources, mem'[Api][s] = mem[Api][s]
    PROVE  Earned(s)
<1>1. mem[Api][s] \in State
  BY GovernanceAssumption, Zenon DEF Typed
<1>2. mem[Api][s].until \in Nat
  BY <1>1, StateFacts
<1> QED
  BY <1>2 DEF Earned

\* A fetch goes on: nothing is written.
LEMMA FetchKeeps ==
    ASSUME GInv, NEW f \in Fetchers, StartFetch(f) \/ FetchAll(f) \/ ReplaceNodes(f)
    PROVE  Keeps
<1>1. Typed /\ FetchTyped /\ PcTyped /\ PendTyped /\ Counted /\ f \in Actors /\ Home[f] \in Procs
  BY GovernanceAssumption, Zenon DEF GInv, Actors
<1>2. UNCHANGED <<mem, row, pend, streak, doubt>>
  BY Zenon DEF StartFetch, FetchAll, ReplaceNodes
<1>3. pc[f] \notin {"write", "switch"} /\ \E to \in {"idle", "fetch", "record"} : pc' = [pc EXCEPT ![f] = to]
  BY Zenon DEF StartFetch, FetchAll, ReplaceNodes
<1>4. pc'[f] \in {"idle", "fetch", "record"} /\ pc' = [pc EXCEPT ![f] = pc'[f]] /\ pend'[f] = Nothing
  BY <1>1, <1>2, <1>3, ZenonT(30) DEF PcTyped
<1>5. pend' = [pend EXCEPT ![f] = pend'[f]]
  BY <1>1, <1>2, Zenon DEF PendTyped
<1>6. PcTyped' /\ PendTyped' /\ \A b \in Actors \ {f} : pc'[b] = pc[b] /\ pend'[b] = pend[b]
  BY <1>1, <1>4, <1>5, ActorMoves, ZenonT(30)
<1>7. FetchTyped'
  <2>1. CASE StartFetch(f)
    BY <1>1, <2>1, Zenon DEF StartFetch, FetchTyped, EnabledSources, nodeVars
  <2>2. CASE FetchAll(f)
    BY <1>1, <2>2, Zenon DEF FetchAll, FetchTyped, nodeVars
  <2>3. CASE ReplaceNodes(f)
    <3> DEFINE new == got[f] \cup (held[Home[f]] \cap failed[f])
    <3>1. new \in SUBSET Sources
      BY <1>1, Zenon DEF FetchTyped
    <3>2. /\ UNCHANGED nodeVars \/ (held' = [held EXCEPT ![Home[f]] = new] /\ saved' = new)
          /\ got' = [got EXCEPT ![f] = {}] /\ failed' = [failed EXCEPT ![f] = {}] /\ todo' = todo
      BY <2>3, Zenon DEF ReplaceNodes
    <3> HIDE DEF new
    <3> QED
      BY <1>1, <3>1, <3>2, ZenonT(30) DEF FetchTyped, nodeVars
  <2> QED
    BY <2>1, <2>2, <2>3, ZenonT(30)
<1>8. ASSUME NEW s \in Sources, doubt'[s] = 0 PROVE InOrder(s)'
  <2>1. InOrder(s) /\ mem'[Api][s] = mem[Api][s] /\ row'[s] = row[s]
    BY <1>2, <1>8, Zenon DEF GInv
  <2>2. \A b \in Actors : (On(b, s)' <=> On(b, s)) /\ (On(b, s) => pc'[b] = pc[b] /\ pend'[b] = pend[b])
    BY <1>3, <1>4, <1>6, ZenonT(30) DEF On
  <2> QED
    BY <2>1, <2>2, Unmoved, ZenonT(30)
<1>9. Typed' /\ Counted' /\ \A s \in Sources : Earned(s)
  BY <1>1, <1>2, MapStays, ZenonT(30) DEF Typed, Counted
<1> QED
  BY <1>6, <1>7, <1>8, <1>9, ZenonT(30) DEF Keeps, GInv

\* The record of a fetched document, in the map.
LEMMA DocumentKeeps ==
    ASSUME GInv, Procs = {Api}, NEW f \in Fetchers, RecordDocument(f)
    PROVE  Keeps
<1>1. FetchTyped /\ f \in Actors /\ ~(pc[f] \in {"write", "switch"}) /\ row' = row /\ UNCHANGED nodeVars
  BY Zenon DEF GInv, RecordDocument, Actors
<1>2. PICK s \in todo[f] : /\ todo' = [todo EXCEPT ![f] = @ \ {s}]
                           /\ \/ /\ RecordSource(f, s, TRUE)
                                 /\ got' = [got EXCEPT ![f] = @ \cup {s}] /\ UNCHANGED failed
                              \/ /\ RecordSource(f, s, FALSE)
                                 /\ failed' = [failed EXCEPT ![f] = @ \cup {s}] /\ UNCHANGED got
  BY Zenon DEF RecordDocument
<1>3. s \in Sources
  BY <1>1, <1>2, Zenon DEF FetchTyped
<1>4. FetchTyped'
  <2>1. todo' \in [Fetchers -> SUBSET Sources]
    BY <1>1, <1>2, Zenon DEF FetchTyped
  <2>2. got' \in [Fetchers -> SUBSET Sources] /\ failed' \in [Fetchers -> SUBSET Sources]
    <3>1. /\ got \in [Fetchers -> SUBSET Sources] /\ failed \in [Fetchers -> SUBSET Sources]
          /\ got[f] \cup {s} \in SUBSET Sources /\ failed[f] \cup {s} \in SUBSET Sources
      BY <1>1, <1>3, Zenon DEF FetchTyped
    <3>2. CASE got' = [got EXCEPT ![f] = got[f] \cup {s}] /\ failed' = failed
      BY <3>1, <3>2, Zenon
    <3>3. CASE failed' = [failed EXCEPT ![f] = failed[f] \cup {s}] /\ got' = got
      BY <3>1, <3>3, Zenon
    <3> QED
      BY <1>2, <3>2, <3>3, Zenon
  <2> QED
    BY <1>1, <2>1, <2>2, ZenonT(30) DEF FetchTyped, nodeVars
<1>5. \E ok \in BOOLEAN : RecordSource(f, s, ok)
  BY <1>2, Zenon
<1>6. /\ Typed' /\ PcTyped' /\ PendTyped' /\ Counted'
      /\ \A u \in Sources : doubt'[u] = 0 => InOrder(u)'
      /\ \A u \in Sources : Earned(u)
  BY <1>1, <1>3, <1>5, RecordedKeeps, ZenonT(30)
<1> QED
  BY <1>4, <1>6, Zenon DEF Keeps, GInv

\* The record of a probe, in the map.
LEMMA ProbeKeeps ==
    ASSUME GInv, Procs = {Api}, NEW r \in Requests, ProbeSource(r)
    PROVE  Keeps
<1>1. r \in Actors /\ ~(pc[r] \in {"write", "switch"}) /\ UNCHANGED <<row, fetchVars, nodeVars>>
  BY Zenon DEF ProbeSource, Actors
<1>2. PICK s \in Sources, ok \in BOOLEAN : RecordSource(r, s, ok)
  BY Zenon DEF ProbeSource
<1>3. FetchTyped'
  BY <1>1, Zenon DEF GInv, FetchTyped, fetchVars, nodeVars
<1>4. /\ Typed' /\ PcTyped' /\ PendTyped' /\ Counted'
      /\ \A u \in Sources : doubt'[u] = 0 => InOrder(u)'
      /\ \A u \in Sources : Earned(u)
  BY <1>1, <1>2, RecordedKeeps, ZenonT(30)
<1> QED
  BY <1>3, <1>4, Zenon DEF Keeps, GInv

\* An actor is done with its write.
LEMMA ResumeMoves ==
    ASSUME PcTyped, PendTyped, NEW a \in Actors, Resume(a)
    PROVE  /\ PcTyped' /\ PendTyped' /\ pc'[a] \notin {"write", "switch"}
           /\ \A b \in Actors \ {a} : pc'[b] = pc[b] /\ pend'[b] = pend[b]
<1>1. pc'[a] \in {"idle", "record"} /\ pend'[a] = Nothing
  BY Zenon DEF Resume, PcTyped, PendTyped
<1>2. pc' = [pc EXCEPT ![a] = pc'[a]] /\ pend' = [pend EXCEPT ![a] = pend'[a]]
  BY <1>1, Zenon DEF Resume, PcTyped, PendTyped
<1> QED
  BY <1>1, <1>2, ActorMoves, ZenonT(30)

\* The row that follows a record.
LEMMA RowWriteKeeps ==
    ASSUME GInv, Procs = {Api}, NEW a \in Actors, RecordSourceFetch(a)
    PROVE  Keeps
<1> DEFINE w == pend[a]
<1>1. /\ Typed /\ FetchTyped /\ PcTyped /\ PendTyped /\ Counted /\ pc[a] = "write"
      /\ UNCHANGED <<mem, fetchVars, nodeVars, streak, doubt>> /\ Resume(a)
  BY Zenon DEF GInv, RecordSourceFetch
<1>2. w \in Records /\ w.src \in Sources
  BY <1>1, Zenon DEF PcTyped, Records
<1> PICK s \in Sources : s = w.src
  BY <1>2, Zenon
<1>3. row' = [row EXCEPT ![s] = RowRecorded(row[s], w)] /\ row[s] \in State
  BY <1>1, <1>2, Zenon DEF RecordSourceFetch, Typed
<1>4. /\ PcTyped' /\ PendTyped' /\ pc'[a] \notin {"write", "switch"}
      /\ \A b \in Actors \ {a} : pc'[b] = pc[b] /\ pend'[b] = pend[b]
  BY <1>1, ResumeMoves, Zenon
<1> DEFINE r == RowRecorded(row[s], w)
<1>5. /\ r \in State /\ r.manual = w.state.manual /\ r.until = w.state.until
      /\ r.fails = IF w.ok THEN 0 ELSE OneMore(row[s].fails)
  BY <1>2, <1>3, RowRecordedFacts, ZenonT(30)
<1> HIDE DEF r
<1>6. /\ row' \in [Sources -> State] /\ row'[s] = r /\ \A u \in Sources \ {s} : row'[u] = row[u]
  BY <1>1, <1>2, <1>3, <1>5, ZenonT(30) DEF Typed, r
<1>7. On(a, s)
  BY <1>1, Zenon DEF On
<1> HIDE DEF w
<1>8. ASSUME doubt'[s] = 0 PROVE InOrder(s)'
  <2>1. InOrder(s)
    BY <1>1, <1>2, <1>8, ZenonT(30) DEF GInv
  <2>2. Recording(w, mem[Api][s], row[s])
    BY <1>1, <1>7, <2>1, ZenonT(30) DEF InOrder, w
  <2>3. \A b \in Actors : ~On(b, s)'
    BY <1>4, <1>7, <2>1, ZenonT(30) DEF InOrder, On
  <2>4. mem[Api][s] \in State
    BY <1>1, <1>2, GovernanceAssumption, SMTT(30) DEF Typed
  <2>5. Agree(mem'[Api][s], row'[s])
    BY <1>1, <1>5, <1>6, <2>2, <2>4, StateFacts, SMTT(30) DEF Agree, Recording
  <2> QED
    BY <1>2, <2>3, <2>5, Calm, ZenonT(30)
<1>9. ASSUME NEW u \in Sources \ {s}, doubt'[u] = 0 PROVE InOrder(u)'
  <2>1. InOrder(u) /\ mem'[Api][u] = mem[Api][u] /\ row'[u] = row[u]
    BY <1>1, <1>6, <1>9, ZenonT(30) DEF GInv
  <2>2. \A b \in Actors : (On(b, u)' <=> On(b, u)) /\ (On(b, u) => pc'[b] = pc[b] /\ pend'[b] = pend[b])
    BY <1>4, <1>9, Zenon DEF On, w
  <2> QED
    BY <2>1, <2>2, Unmoved, ZenonT(30)
<1>10. Typed' /\ Counted' /\ FetchTyped' /\ \A u \in Sources : Earned(u)
  BY <1>1, <1>6, MapStays, ZenonT(30) DEF Typed, Counted, FetchTyped, fetchVars, nodeVars
<1> QED
  BY <1>4, <1>8, <1>9, <1>10, ZenonT(30) DEF Keeps, GInv

\* A row that cannot be written leaves the source in doubt.
LEMMA ErrorKeeps ==
    ASSUME GInv, Procs = {Api}, NEW a \in Actors, RecordSourceError(a)
    PROVE  Keeps
<1>1. /\ Typed /\ FetchTyped /\ PcTyped /\ PendTyped /\ Counted /\ pc[a] = "write"
      /\ UNCHANGED <<mem, row, fetchVars, nodeVars, streak>> /\ Resume(a)
  BY Zenon DEF GInv, RecordSourceError
<1>2. PICK s \in Sources : s = pend[a].src /\ Doubtful(s)
  BY <1>1, Zenon DEF PcTyped, Records, RecordSourceError, Doubtful
<1>3. /\ PcTyped' /\ PendTyped' /\ pc'[a] \notin {"write", "switch"}
      /\ \A b \in Actors \ {a} : pc'[b] = pc[b] /\ pend'[b] = pend[b]
  BY <1>1, ResumeMoves, Zenon
<1>4. /\ doubt' \in [Sources -> 0..2] /\ doubt'[s] # 0 /\ (doubt'[s] < 2 => doubt[s] < 2)
      /\ \A u \in Sources \ {s} : doubt'[u] = doubt[u]
  BY <1>1, <1>2, DoubtMoves, ZenonT(30)
<1>5. ASSUME NEW u \in Sources, doubt'[u] = 0 PROVE InOrder(u)'
  <2>1. u # s
    BY <1>4, <1>5, Zenon
  <2>2. InOrder(u) /\ mem'[Api][u] = mem[Api][u] /\ row'[u] = row[u]
    BY <1>1, <1>4, <1>5, <2>1, ZenonT(30) DEF GInv
  <2>3. \A b \in Actors : (On(b, u)' <=> On(b, u)) /\ (On(b, u) => pc'[b] = pc[b] /\ pend'[b] = pend[b])
    BY <1>2, <1>3, <2>1, ZenonT(30) DEF On
  <2> QED
    BY <2>2, <2>3, Unmoved, ZenonT(30)
<1>6. Counted'
  BY <1>1, <1>4, Zenon DEF Counted
<1>7. Typed' /\ FetchTyped' /\ \A u \in Sources : Earned(u)
  BY <1>1, <1>4, MapStays, ZenonT(30) DEF Typed, FetchTyped, fetchVars, nodeVars
<1> QED
  BY <1>3, <1>5, <1>6, <1>7, ZenonT(30) DEF Keeps, GInv

\* SetSourceEnabled writes the row first.
LEMMA SwitchRowKeeps ==
    ASSUME GInv, Procs = {Api}, NEW a \in Requests, SwitchRow(a)
    PROVE  Keeps
<1>1. /\ Typed /\ FetchTyped /\ PcTyped /\ PendTyped /\ Counted /\ a \in Actors /\ pc[a] = "idle"
      /\ UNCHANGED <<mem, fetchVars, nodeVars, streak>> /\ pc' = [pc EXCEPT ![a] = "switch"]
  BY Zenon DEF GInv, SwitchRow, Actors
<1>2. PICK s \in Sources, on \in BOOLEAN :
         /\ row' = [row EXCEPT ![s].manual = ~on, ![s].until = 0]
         /\ pend' = [pend EXCEPT ![a] = [src |-> s, enabled |-> on]]
         /\ Overlap(s)
  BY Zenon DEF SwitchRow
<1> DEFINE w == [src |-> s, enabled |-> on]
           q == RowSwitched(row[s], on)
<1>3. w \in Switches /\ w.src = s /\ w.enabled = on
  BY Zenon DEF Switches
<1>4. row[s] \in State /\ row' = [row EXCEPT ![s] = q]
  BY <1>1, <1>2, Zenon DEF Typed, RowSwitched
<1>5. q \in State /\ q.fails = row[s].fails /\ q.manual = ~on /\ q.until = 0
  BY <1>4, SwitchFacts, Zenon
<1> HIDE DEF q, w
<1>6. row' \in [Sources -> State] /\ row'[s] = q /\ \A u \in Sources \ {s} : row'[u] = row[u]
  BY <1>1, <1>4, <1>5, ZenonT(30) DEF Typed
<1>7. pc'[a] = "switch" /\ pend'[a] = w
  BY <1>1, <1>2, Zenon DEF PcTyped, PendTyped, w
<1>8. /\ PcTyped' /\ PendTyped'
      /\ \A b \in Actors \ {a} : pc'[b] = pc[b] /\ pend'[b] = pend[b]
  <2>1. pc' = [pc EXCEPT ![a] = pc'[a]] /\ pend' = [pend EXCEPT ![a] = pend'[a]]
    BY <1>1, <1>2, <1>7, Zenon DEF w
  <2> QED
    BY <1>1, <1>3, <1>7, <2>1, ActorMoves, ZenonT(30)
<1>9. /\ doubt' \in [Sources -> 0..2] /\ (doubt'[s] = 0 => doubt[s] = 0 /\ ~InFlight(s))
      /\ (doubt'[s] < 2 => doubt[s] < 2) /\ \A u \in Sources \ {s} : doubt'[u] = doubt[u]
  BY <1>1, <1>2, DoubtMoves, ZenonT(30)
<1>10. ASSUME doubt'[s] = 0 PROVE InOrder(s)'
  <2>1. Agree(mem[Api][s], row[s]) /\ \A b \in Actors : ~On(b, s)
    BY <1>9, <1>10, Zenon DEF GInv, InOrder, InFlight, On
  <2>2. On(a, s)' /\ \A b \in Actors \ {a} : ~On(b, s)'
    BY <1>3, <1>7, <1>8, <2>1, ZenonT(30) DEF On
  <2>3. Switching(pend'[a], mem'[Api][s], row'[s])
    BY <1>1, <1>3, <1>5, <1>6, <1>7, <2>1, ZenonT(30) DEF Switching, Agree
  <2> QED
    BY <1>1, <1>7, <2>2, <2>3, AtWork, ZenonT(30)
<1>11. ASSUME NEW u \in Sources \ {s}, doubt'[u] = 0 PROVE InOrder(u)'
  <2>1. InOrder(u) /\ mem'[Api][u] = mem[Api][u] /\ row'[u] = row[u]
    BY <1>1, <1>6, <1>9, <1>11, ZenonT(30) DEF GInv
  <2>2. \A b \in Actors : (On(b, u)' <=> On(b, u)) /\ (On(b, u) => pc'[b] = pc[b] /\ pend'[b] = pend[b])
    BY <1>1, <1>3, <1>7, <1>8, <1>11, ZenonT(30) DEF On
  <2> QED
    BY <2>1, <2>2, Unmoved, ZenonT(30)
<1>12. Counted'
  BY <1>1, <1>9, Zenon DEF Counted
<1>13. Typed' /\ FetchTyped' /\ \A u \in Sources : Earned(u)
  BY <1>1, <1>6, <1>9, MapStays, ZenonT(30) DEF Typed, FetchTyped, fetchVars, nodeVars
<1> QED
  BY <1>8, <1>10, <1>11, <1>12, <1>13, ZenonT(30) DEF Keeps, GInv

\* SetSourceEnabled then writes the map.
LEMMA SwitchMapKeeps ==
    ASSUME GInv, Procs = {Api}, NEW a \in Requests, SwitchMap(a)
    PROVE  Keeps
<1> DEFINE w == pend[a]
<1>1. /\ Typed /\ FetchTyped /\ PcTyped /\ PendTyped /\ Counted /\ a \in Actors /\ pc[a] = "switch"
      /\ UNCHANGED <<row, fetchVars, nodeVars, streak, doubt>> /\ Resume(a)
  BY Zenon DEF GInv, SwitchMap, Actors
<1>2. w \in Switches /\ w.src \in Sources /\ w.enabled \in BOOLEAN /\ Api \in Procs
  BY <1>1, GovernanceAssumption, Zenon DEF PcTyped, Switches
<1> PICK s \in Sources : s = w.src
  BY <1>2, Zenon
<1>3. /\ PcTyped' /\ PendTyped' /\ pc'[a] \notin {"write", "switch"}
      /\ \A b \in Actors \ {a} : pc'[b] = pc[b] /\ pend'[b] = pend[b]
  BY <1>1, ResumeMoves, Zenon
<1> DEFINE m == mem[Api][s]
           q == MapSwitched(m, w.enabled)
<1>4. m \in State /\ mem[Api] \in [Sources -> State]
  BY <1>1, <1>2, Zenon DEF Typed
<1>5. mem' = [mem EXCEPT ![Api] = [mem[Api] EXCEPT ![s] = q]]
  <2>1. mem' = [mem EXCEPT ![Api][s].manual = ~w.enabled, ![Api][s].until = IF w.enabled THEN 0 ELSE @]
    BY Zenon DEF SwitchMap
  <2> QED
    BY <1>1, <1>2, <1>4, <2>1, ZenonT(30) DEF MapSwitched, Typed, State
<1>6. q \in State /\ q.fails = m.fails /\ q.manual = ~w.enabled /\ q.until = IF w.enabled THEN 0 ELSE m.until
  BY <1>2, <1>4, SwitchFacts, ZenonT(30)
<1> HIDE DEF q
<1>7. /\ mem' \in [Procs -> [Sources -> State]] /\ mem'[Api][s] = q
      /\ \A u \in Sources \ {s} : mem'[Api][u] = mem[Api][u]
  BY <1>1, <1>2, <1>4, <1>5, <1>6, ZenonT(30) DEF Typed
<1>8. On(a, s)
  BY <1>1, Zenon DEF On
<1>9. ASSUME doubt'[s] = 0 PROVE InOrder(s)'
  <2>1. InOrder(s)
    BY <1>1, <1>9, Zenon DEF GInv
  <2>2. Switching(w, m, row[s])
    BY <1>1, <1>8, <2>1, ZenonT(30) DEF InOrder
  <2>3. \A b \in Actors : ~On(b, s)'
    <3>1. \A b \in Actors : On(b, s) => b = a
      BY <1>1, <1>8, <2>1, ZenonT(30) DEF InOrder
    <3> QED
      BY <1>3, <3>1, Zenon DEF On
  <2>4. m.until \in Nat
    BY <1>4, StateFacts
  <2>5. Agree(mem'[Api][s], row'[s])
    <3>1. q.fails = row[s].fails /\ q.manual = row[s].manual /\ row[s].until = 0
      BY <1>6, <2>2, Zenon DEF Switching
    <3>2. row[s].until <= q.until /\ (~q.manual => q.until = row[s].until)
      <4> DEFINE on == w.enabled
      <4>1. q.manual = ~on /\ q.until = (IF on THEN 0 ELSE m.until) /\ on \in BOOLEAN
        BY <1>2, <1>6, Zenon
      <4> HIDE DEF on, m
      <4>2. CASE on
        BY <2>4, <3>1, <4>1, <4>2, SMTT(30)
      <4>3. CASE ~on
        <5>1. q.manual
          BY <4>1, <4>3, Zenon
        <5> QED
          BY <2>4, <3>1, <4>1, <4>3, <5>1, SMTT(30)
      <4> QED
        BY <4>2, <4>3, Zenon
    <3> QED
      BY <1>1, <1>7, <3>1, <3>2, ZenonT(30) DEF Agree
  <2> QED
    BY <2>3, <2>5, Calm, ZenonT(30)
<1>10. ASSUME NEW u \in Sources \ {s}, doubt'[u] = 0 PROVE InOrder(u)'
  <2>1. InOrder(u) /\ mem'[Api][u] = mem[Api][u] /\ row'[u] = row[u]
    BY <1>1, <1>7, <1>10, ZenonT(30) DEF GInv
  <2>2. \A b \in Actors : (On(b, u)' <=> On(b, u)) /\ (On(b, u) => pc'[b] = pc[b] /\ pend'[b] = pend[b])
    BY <1>3, <1>10, Zenon DEF On, w
  <2> QED
    BY <2>1, <2>2, Unmoved, ZenonT(30)
<1>11. Counted'
  BY <1>1, <1>6, <1>7, ZenonT(30) DEF Counted
<1>12. \A u \in Sources : Earned(u)
  <2>1. Earned(s)
    <3>1. m.until \in Nat /\ q.until \in Nat
      BY <1>4, <1>6, StateFacts, SMTT(30)
    <3>2. ~(m.until < q.until)
      BY <1>6, <3>1
    <3> QED
      BY <1>7, <3>2, Zenon DEF Earned
  <2> QED
    BY <1>1, <1>7, <2>1, MapStays, ZenonT(30)
<1>13. Typed' /\ FetchTyped'
  BY <1>1, <1>7, Zenon DEF Typed, FetchTyped, fetchVars, nodeVars
<1> QED
  BY <1>3, <1>9, <1>10, <1>11, <1>12, <1>13, ZenonT(30) DEF Keeps, GInv

\* A process starts from the table only where that is known to say what its map said.
LEMMA RestartKeeps ==
    ASSUME GInv, Procs = {Api}, NEW p \in Procs, Restart(p)
    PROVE  Keeps
<1>1. /\ Typed /\ FetchTyped /\ PcTyped /\ PendTyped /\ Counted /\ Api \in Procs /\ p = Api
      /\ UNCHANGED <<row, saved, streak>> /\ row \in [Sources -> State]
  BY GovernanceAssumption, Zenon DEF GInv, Restart, Typed
<1>2. {a \in Actors : ProcOf(a) = p} = Actors /\ Fetchers \subseteq Actors
  BY <1>1, GovernanceAssumption, ZenonT(30) DEF ProcOf, Actors
<1>3. /\ pc' = [a \in Actors |-> "idle"] /\ pend' = [a \in Actors |-> Nothing]
      /\ todo' = [f \in Fetchers |-> {}] /\ got' = [f \in Fetchers |-> {}] /\ failed' = [f \in Fetchers |-> {}]
      /\ held' = [held EXCEPT ![p] = saved]
  BY <1>2, Zenon DEF Restart
<1>4. PcTyped' /\ PendTyped' /\ FetchTyped'
  BY <1>1, <1>3, ZenonT(30) DEF PcTyped, PendTyped, FetchTyped
<1>5. \/ /\ mem' = [mem EXCEPT ![Api] = row]
         /\ doubt' = [s \in Sources |->
               IF doubt[s] > 0 \/ s \in {pend[a].src : a \in {b \in Actors : pc[b] \in {"write", "switch"}}}
               THEN 2 ELSE 0]
      \/ /\ mem' = [mem EXCEPT ![Api] = [s \in Sources |-> Initially]]
         /\ doubt' = [s \in Sources |-> 2]
  BY <1>1, <1>2, Zenon DEF Restart
<1>6. \/ /\ \A s \in Sources : mem'[Api][s] = row[s] /\ doubt'[s] \in 0..2
                               /\ (doubt'[s] < 2 => doubt[s] = 0 /\ ~InFlight(s))
         /\ mem' \in [Procs -> [Sources -> State]] /\ doubt' \in [Sources -> 0..2]
      \/ /\ \A s \in Sources : doubt'[s] = 2
         /\ mem' \in [Procs -> [Sources -> State]] /\ doubt' \in [Sources -> 0..2]
  <2>1. CASE /\ mem' = [mem EXCEPT ![Api] = row]
             /\ doubt' = [s \in Sources |->
                   IF doubt[s] > 0 \/ s \in {pend[a].src : a \in {b \in Actors : pc[b] \in {"write", "switch"}}}
                   THEN 2 ELSE 0]
    <3>1. mem' \in [Procs -> [Sources -> State]] /\ \A s \in Sources : mem'[Api][s] = row[s]
      BY <1>1, <2>1, Zenon DEF Typed
    <3>2. doubt' \in [Sources -> 0..2]
      BY <2>1
    <3>3. ASSUME NEW s \in Sources, doubt'[s] < 2 PROVE doubt[s] = 0 /\ ~InFlight(s)
      <4>1. doubt[s] \in 0..2
        BY <1>1, Zenon DEF Typed
      <4>2. ~(doubt[s] > 0) /\ s \notin {pend[a].src : a \in {b \in Actors : pc[b] \in {"write", "switch"}}}
        BY <2>1, <3>3
      <4> QED
        BY <4>1, <4>2 DEF InFlight
    <3> QED
      BY <3>1, <3>2, <3>3, ZenonT(30)
  <2>2. CASE /\ mem' = [mem EXCEPT ![Api] = [s \in Sources |-> Initially]]
             /\ doubt' = [s \in Sources |-> 2]
    BY <1>1, <2>2, StateFacts, SMTT(30) DEF Typed
  <2> QED
    BY <1>5, <2>1, <2>2, ZenonT(30)
<1>7. ASSUME NEW s \in Sources, doubt'[s] < 2
      PROVE  mem'[Api][s] = row[s] /\ Agree(mem[Api][s], row[s]) /\ doubt[s] = 0
  <2>1. doubt'[s] # 2
    BY <1>7
  <2>2. mem'[Api][s] = row[s] /\ doubt[s] = 0 /\ ~InFlight(s)
    BY <1>6, <1>7, <2>1, Zenon
  <2> QED
    BY <2>2, Zenon DEF GInv, InOrder
<1>8. ASSUME NEW s \in Sources PROVE row[s].until \in Nat /\ mem[Api][s].until \in Nat
  <2>1. row[s] \in State /\ mem[Api][s] \in State
    BY <1>1, Zenon DEF Typed
  <2> QED
    BY <2>1, StateFacts
<1>9. ASSUME NEW s \in Sources, doubt'[s] = 0 PROVE InOrder(s)'
  <2>1. mem'[Api][s] = row'[s] /\ \A a \in Actors : ~On(a, s)'
    <3>1. doubt'[s] < 2
      BY <1>9
    <3> QED
      BY <1>1, <1>3, <1>7, <3>1, ZenonT(30) DEF On
  <2>2. Agree(mem'[Api][s], row'[s])
    BY <1>1, <1>8, <2>1, SMTT(30) DEF Agree
  <2> QED
    BY <2>1, <2>2, Calm, ZenonT(30)
<1>10. Counted'
  <2>1. ASSUME NEW s \in Sources, doubt'[s] < 2 PROVE mem'[Api][s].fails = streak'[s]
    <3>1. mem'[Api][s] = row[s] /\ Agree(mem[Api][s], row[s]) /\ doubt[s] < 2
      BY <1>7, <2>1
    <3> QED
      BY <1>1, <3>1, ZenonT(30) DEF Counted, Agree
  <2> QED
    BY <2>1, Zenon DEF Counted
<1>11. \A s \in Sources : Earned(s)
  BY <1>7, <1>8 DEF Earned, Agree
<1>12. Typed'
  BY <1>1, <1>6, Zenon DEF Typed
<1> QED
  BY <1>4, <1>9, <1>10, <1>11, <1>12, ZenonT(30) DEF Keeps, GInv

\* An hour takes the same from every copy of a cool-down.
Later(st) == [st EXCEPT !.until = IF st.until > 0 THEN st.until - 1 ELSE 0]

\* What an hour does to a record.
LEMMA LaterFacts ==
    ASSUME NEW st \in State
    PROVE  /\ Later(st) \in State /\ Later(st).fails = st.fails /\ Later(st).manual = st.manual
           /\ Later(st).until = IF st.until > 0 THEN st.until - 1 ELSE 0
<1> DEFINE n == IF st.until > 0 THEN st.until - 1 ELSE 0
<1>1. n \in 0..Cooldown /\ st.fails \in 0..DisableAfter /\ st.manual \in BOOLEAN
  BY StateFacts
<1> HIDE DEF n
<1>2. ASSUME NEW q, q = [st EXCEPT !.until = n]
      PROVE  q \in State /\ q.fails = st.fails /\ q.manual = st.manual /\ q.until = n
  BY <1>1, <1>2, Zenon DEF State
<1> QED
  BY <1>2 DEF Later, n

\* An hour shortens the cool-downs of map and row alike.
LEMMA TickKeeps ==
    ASSUME GInv, Procs = {Api}, Tick
    PROVE  Keeps
<1>1. /\ Typed /\ FetchTyped /\ PcTyped /\ PendTyped /\ Counted /\ Api \in Procs
      /\ UNCHANGED <<pc, fetchVars, nodeVars, streak, doubt>>
  BY GovernanceAssumption, Zenon DEF GInv, Tick
<1>2. /\ mem' = [p \in Procs |-> [s \in Sources |-> Later(mem[p][s])]]
      /\ row' = [s \in Sources |-> Later(row[s])]
      /\ pend' = [a \in Actors |-> IF pc[a] = "write" THEN [pend[a] EXCEPT !.state = Later(pend[a].state)]
                                   ELSE pend[a]]
  BY Zenon DEF Tick, Later
<1>3. ASSUME NEW s \in Sources
      PROVE  /\ mem[Api][s] \in State /\ row[s] \in State
             /\ mem'[Api][s] = Later(mem[Api][s]) /\ row'[s] = Later(row[s])
  BY <1>1, <1>2, Zenon DEF Typed
<1>4. mem' \in [Procs -> [Sources -> State]] /\ row' \in [Sources -> State]
  <2>1. \A p \in Procs, s \in Sources : Later(mem[p][s]) \in State /\ Later(row[s]) \in State
    BY <1>1, LaterFacts, Zenon DEF Typed
  <2> QED
    BY <1>2, <2>1, Zenon
<1>5. ASSUME NEW a \in Actors, pc[a] = "write"
      PROVE  /\ pend'[a] \in Records /\ pend'[a].src = pend[a].src /\ pend'[a].ok = pend[a].ok
             /\ pend[a].state \in State /\ pend'[a].state = Later(pend[a].state)
  <2> DEFINE w == pend[a]
             q == Later(w.state)
  <2>1. w \in Records /\ w.src \in Sources /\ w.ok \in BOOLEAN /\ w.state \in State
    BY <1>1, <1>5, Zenon DEF PcTyped, Records
  <2>2. q \in State
    BY <2>1, LaterFacts, Zenon
  <2>3. pend'[a] = [w EXCEPT !.state = q]
    BY <1>2, <1>5, Zenon
  <2> HIDE DEF w, q
  <2>4. ASSUME NEW v, v = [w EXCEPT !.state = q]
        PROVE  v \in Records /\ v.src = w.src /\ v.ok = w.ok /\ v.state = q
    BY <2>1, <2>2, <2>4, ZenonT(30) DEF Records
  <2> QED
    BY <2>1, <2>3, <2>4, ZenonT(30) DEF w, q
<1>6. \A a \in Actors : pc[a] # "write" => pend'[a] = pend[a]
  BY <1>2, Zenon
<1>7. PcTyped'
  BY <1>1, <1>5, <1>6, ZenonT(30) DEF PcTyped
<1>8. PendTyped'
  <2>1. \A a \in Actors : pend'[a] \in {Nothing} \cup Records \cup Switches
    BY <1>1, <1>5, <1>6, ZenonT(30) DEF PendTyped
  <2>2. pend' = [a \in Actors |-> pend'[a]]
    BY <1>2, Zenon
  <2> QED
    BY <2>1, <2>2, Zenon DEF PendTyped
<1>9. \A a \in Actors, s \in Sources : On(a, s)' <=> On(a, s)
  BY <1>1, <1>5, <1>6, ZenonT(30) DEF On
<1>10. ASSUME NEW s \in Sources, doubt'[s] = 0 PROVE InOrder(s)'
  <2> DEFINE m == mem[Api][s]
             r == row[s]
  <2>1. InOrder(s) /\ m \in State /\ r \in State /\ mem'[Api][s] = Later(m) /\ row'[s] = Later(r)
    BY <1>1, <1>3, <1>10, ZenonT(30) DEF GInv
  <2>2. /\ Later(m).fails = m.fails /\ Later(m).manual = m.manual
        /\ Later(m).until = (IF m.until > 0 THEN m.until - 1 ELSE 0)
        /\ Later(r).fails = r.fails /\ Later(r).manual = r.manual
        /\ Later(r).until = (IF r.until > 0 THEN r.until - 1 ELSE 0)
        /\ m.until \in Nat /\ r.until \in Nat
    BY <2>1, LaterFacts, StateFacts, SMTT(30)
  <2> HIDE DEF m, r
  <2>3. Agree(m, r) => Agree(Later(m), Later(r))
    BY <2>2 DEF Agree
  <2>4. ASSUME NEW a \in Actors, On(a, s), pc[a] = "write", Recording(pend[a], m, r)
        PROVE  Recording(pend'[a], Later(m), Later(r))
    BY <1>5, <2>2, <2>4, ZenonT(30) DEF Recording
  <2>5. ASSUME NEW a \in Actors, On(a, s), pc[a] = "switch", Switching(pend[a], m, r)
        PROVE  Switching(pend'[a], Later(m), Later(r))
    <3>1. pend'[a] = pend[a]
      BY <1>6, <2>5, Zenon
    <3> QED
      BY <2>2, <2>5, <3>1, SMTT(30) DEF Switching
  <2>6. CASE \A a \in Actors : ~On(a, s)
    <3>1. ~InFlight(s)
      BY <2>6, Zenon DEF InFlight, On
    <3>2. Agree(mem'[Api][s], row'[s])
      BY <2>1, <2>3, <3>1, ZenonT(30) DEF InOrder, m, r
    <3> QED
      BY <1>9, <2>6, <3>2, Calm, ZenonT(30)
  <2>7. ASSUME NEW a \in Actors, On(a, s) PROVE InOrder(s)'
    <3>1. /\ \A b \in Actors : On(b, s) => b = a
          /\ pc[a] = "write" => Recording(pend[a], m, r)
          /\ pc[a] = "switch" => Switching(pend[a], m, r)
      BY <2>1, <2>7, Zenon DEF InOrder, m, r
    <3>2. pc[a] \in {"write", "switch"} /\ pc'[a] = pc[a]
      BY <1>1, <2>7, Zenon DEF On
    <3>3. \/ pc'[a] = "write" /\ Recording(pend'[a], mem'[Api][s], row'[s])
          \/ pc'[a] = "switch" /\ Switching(pend'[a], mem'[Api][s], row'[s])
      BY <2>1, <2>4, <2>5, <2>7, <3>1, <3>2, ZenonT(30)
    <3> QED
      BY <1>9, <2>7, <3>1, <3>3, AtWork, ZenonT(30)
  <2> QED
    BY <2>6, <2>7, Zenon
<1>11. Counted'
  BY <1>1, <1>3, LaterFacts, Zenon DEF Counted
<1>12. ASSUME NEW s \in Sources PROVE Earned(s)
  <2>1. mem[Api][s].until \in Nat
    BY <1>3, StateFacts
  <2>2. mem'[Api][s].until = IF mem[Api][s].until > 0 THEN mem[Api][s].until - 1 ELSE 0
    BY <1>3, LaterFacts, Zenon
  <2> QED
    BY <2>1, <2>2 DEF Earned
<1>13. Typed' /\ FetchTyped'
  BY <1>1, <1>4, Zenon DEF Typed, FetchTyped, fetchVars, nodeVars
<1> QED
  BY <1>7, <1>8, <1>10, <1>11, <1>12, <1>13, ZenonT(30) DEF Keeps, GInv

\* The invariant holds at the start.
LEMMA GovernanceInit == Init => GInv
<1> SUFFICES ASSUME Init PROVE GInv
  BY Zenon
<1>1. Typed /\ FetchTyped
  BY StateFacts DEF Init, Typed, FetchTyped
<1>2. PcTyped /\ PendTyped
  BY Zenon DEF Init, PcTyped, PendTyped
<1>3. \A s \in Sources : mem[Api][s] = Initially /\ row[s] = Initially /\ streak[s] = 0
  BY GovernanceAssumption, Zenon DEF Init
<1>4. \A s \in Sources : InOrder(s)
  <2>1. \A s \in Sources : Agree(mem[Api][s], row[s])
    <3>1. Agree(Initially, Initially)
      BY StateFacts DEF Agree
    <3> QED
      BY <1>3, <3>1, Zenon
  <2>2. \A a \in Actors : pc[a] = "idle"
    BY Zenon DEF Init
  <2> QED
    BY <2>1, <2>2, Zenon DEF InOrder, On
<1>5. Counted
  BY <1>3, StateFacts, Zenon DEF Counted
<1> QED
  BY <1>1, <1>2, <1>4, <1>5, ZenonT(30) DEF GInv

\* Every step keeps the invariant and starts no cool-down that is not earned.
LEMMA GovernanceNext == Procs = {Api} /\ GInv /\ [Next]_vars => Keeps
<1> SUFFICES ASSUME Procs = {Api}, GInv, [Next]_vars PROVE Keeps
  BY Zenon
<1>1. ASSUME UNCHANGED vars PROVE Keeps
  <2>0. mem' = mem /\ row' = row /\ pc' = pc /\ pend' = pend
    BY <1>1, Zenon DEF vars
  <2>1. \A s \in Sources : InOrder(s) => InOrder(s)'
    BY <2>0, Zenon DEF InOrder, InFlight, On
  <2>2. \A s \in Sources : Earned(s)
    BY <1>1, MapStays, Zenon DEF vars, GInv
  <2>3. Typed' /\ FetchTyped' /\ PcTyped' /\ PendTyped' /\ Counted'
    BY <1>1, Zenon DEF vars, fetchVars, nodeVars, GInv, Typed, FetchTyped, PcTyped, PendTyped, Counted
  <2> QED
    BY <1>1, <2>1, <2>2, <2>3, ZenonT(30) DEF Keeps, GInv, vars
<1>2. ASSUME NEW a \in Actors, RecordSourceFetch(a) \/ RecordSourceError(a) PROVE Keeps
  BY <1>2, RowWriteKeeps, ErrorKeeps, ZenonT(30)
<1>3. ASSUME NEW f \in Fetchers, StartFetch(f) \/ FetchAll(f) \/ RecordDocument(f) \/ ReplaceNodes(f) PROVE Keeps
  BY <1>3, FetchKeeps, DocumentKeeps, ZenonT(30)
<1>4. ASSUME NEW r \in Requests, ProbeSource(r) \/ SwitchRow(r) \/ SwitchMap(r) PROVE Keeps
  BY <1>4, ProbeKeeps, SwitchRowKeeps, SwitchMapKeeps, ZenonT(30)
<1> QED
  BY <1>1, <1>2, <1>3, <1>4, RestartKeeps, TickKeeps, ZenonT(30) DEF Next

-----------------------------------------------------------------------------

\* In one process GInv always holds: whichever order fetches, probes and switches
\* come in, and whatever fails in between.
THEOREM Invariance ==
    ASSUME Procs = {Api}
    PROVE  Spec => []GInv
<1>1. GInv /\ [Next]_vars => GInv'
  BY GovernanceNext, Zenon DEF Keeps
<1> QED
  BY <1>1, GovernanceInit, PTL DEF Spec

\* In one process the row of a source says what the map says, once their writes are
\* through and unless two overlapped or one failed (recordSource, SetSourceEnabled).
THEOREM RowsAgree ==
    ASSUME Procs = {Api}
    PROVE  Spec => []RowIsMap
<1>1. GInv => RowIsMap
  BY Zenon DEF GInv, InOrder, Agree, RowIsMap
<1>2. Spec => []GInv
  BY Invariance, Zenon
<1> QED
  BY <1>1, <1>2, PTL

\* In one process no step starts a cool-down unless the last DisableAfter fetches and
\* probes of the source all failed (recordSource, NewWithOptions).
THEOREM CooldownsEarned ==
    ASSUME Procs = {Api}
    PROVE  Spec => CooldownEarned
<1>1. GInv /\ [Next]_vars =>
         [\A p \in Procs, s \in Sources :
             doubt'[s] < 2 /\ mem[p][s].until < mem'[p][s].until => streak'[s] = DisableAfter]_vars
  BY GovernanceNext, Zenon DEF Keeps, Earned
<1>2. Spec => []GInv
  BY Invariance, Zenon
<1> QED
  BY <1>1, <1>2, PTL DEF Spec, CooldownEarned

-----------------------------------------------------------------------------
(* The administrators of a tenant.                                         *)

SessionsSpec == SessionsInit /\ [][SessionsNext]_sessionVars

AccountRows == {NoAccount} \cup [role : Roles, enabled : BOOLEAN]
Issued == [account : Accounts, role : Roles, expires : Nat]

SessionsTypeOK ==
    /\ accounts \in [Accounts -> AccountRows]
    /\ sessions \subseteq Issued
    /\ hour \in Nat
    /\ stale \in BOOLEAN

\* The role of an account is for life, so that its sessions have it too.
RolesLast == \A s \in sessions : accounts[s.account].role = s.role

SInv == SessionsTypeOK /\ RolesLast /\ OneAdminLeft

\* a is an enabled administrator of the accounts kept.
Acts(kept, a) == kept[a] = [role |-> "admin", enabled |-> TRUE]

\* OneAdminLeft, of any accounts kept.
AdminLeft(kept) ==
    \A a \in Accounts : kept[a].role = "admin" =>
        \E b \in Accounts : TenantOf[b] = TenantOf[a] /\ Acts(kept, b)

\* The rows of accounts.
LEMMA RowFacts ==
    /\ NoAccount \in AccountRows /\ NoAccount.role = "none" /\ "none" \notin Roles
    /\ \A role \in Roles, e \in BOOLEAN : [role |-> role, enabled |-> e] \in AccountRows
    /\ \A r \in AccountRows : /\ r # NoAccount => r \in [role : Roles, enabled : BOOLEAN]
                              /\ r.role = "admin" /\ r.enabled = TRUE => r = [role |-> "admin", enabled |-> TRUE]
                              /\ r.role \in Roles <=> r # NoAccount
                              /\ r.enabled \in BOOLEAN
<1>1. NoAccount.role = "none" /\ "none" \notin Roles
  BY Zenon DEF NoAccount, Roles
<1>2. \A r \in [role : Roles, enabled : BOOLEAN] :
          /\ r.role \in Roles /\ r.enabled \in BOOLEAN
          /\ r.role = "admin" /\ r.enabled = TRUE => r = [role |-> "admin", enabled |-> TRUE]
  OBVIOUS
<1>3. NoAccount.role # "admin" /\ NoAccount.enabled = FALSE
  BY Zenon DEF NoAccount
<1> QED
  BY <1>1, <1>2, <1>3, Zenon DEF AccountRows

\* Only a session with the role of an administrator administers.
LEMMA OnlyAdmins ==
    ASSUME NEW role \in Roles, Allows(role, "admin")
    PROVE  role = "admin"
<1>1. Level["viewer"] = 1 /\ Level["operator"] = 2 /\ Level["admin"] = 3
  BY Zenon DEF Level
<1> QED
  BY <1>1 DEF Allows, Roles

\* An account that is created, or enabled, leaves the enabled administrators.
LEMMA AdminStays ==
    ASSUME NEW kept \in [Accounts -> AccountRows], NEW a \in Accounts, NEW r \in AccountRows,
           AdminLeft(kept), r.role \in Roles, r.enabled = TRUE, kept[a] = NoAccount \/ r.role = kept[a].role
    PROVE  AdminLeft([kept EXCEPT ![a] = r])
<1> DEFINE new == [kept EXCEPT ![a] = r]
<1>1. new[a] = r /\ \A x \in Accounts \ {a} : new[x] = kept[x]
  BY Zenon
<1> HIDE DEF new
<1>2. r.role = "admin" => Acts(new, a)
  BY <1>1, RowFacts, Zenon DEF Acts
<1>3. ASSUME NEW b \in Accounts, Acts(kept, b) PROVE Acts(new, b)
  <2>1. CASE b # a
    BY <1>1, <1>3, <2>1, Zenon DEF Acts
  <2>2. CASE b = a
    <3>1. kept[a].role = "admin"
      BY <1>3, <2>2 DEF Acts
    <3>2. r.role = "admin"
      BY <3>1, RowFacts, Zenon
    <3> QED
      BY <1>2, <2>2, <3>2, Zenon
  <2> QED
    BY <2>1, <2>2, Zenon
<1>4. ASSUME NEW x \in Accounts, new[x].role = "admin"
      PROVE  \E b \in Accounts : TenantOf[b] = TenantOf[x] /\ Acts(new, b)
  <2>1. CASE x = a
    BY <1>1, <1>2, <1>4, <2>1, Zenon
  <2>2. CASE x # a
    BY <1>1, <1>3, <1>4, <2>2, Zenon DEF AdminLeft
  <2> QED
    BY <2>1, <2>2, Zenon
<1>5. AdminLeft(new)
  BY <1>4, Zenon DEF AdminLeft
<1> QED
  BY <1>5, Zenon DEF new

\* EnsureBootstrapUser, at any time.
LEMMA BootstrapKeeps ==
    ASSUME NEW kept \in [Accounts -> AccountRows], NEW b \in BootstrapUsers
    PROVE  /\ Bootstrapped(kept, b) \in [Accounts -> AccountRows]
           /\ AdminLeft(kept) => AdminLeft(Bootstrapped(kept, b))
           /\ \A a \in Accounts : kept[a] # NoAccount => Bootstrapped(kept, b)[a].role = kept[a].role
<1>1. b \in Accounts
  BY SessionsAssumption, Zenon
<1> DEFINE r == IF kept[b] = NoAccount THEN [role |-> "admin", enabled |-> TRUE] ELSE [kept[b] EXCEPT !.enabled = TRUE]
<1>2. Bootstrapped(kept, b) = [kept EXCEPT ![b] = r]
  BY Zenon DEF Bootstrapped
<1>3. r \in AccountRows /\ r.role \in Roles /\ r.enabled = TRUE /\ (kept[b] = NoAccount \/ r.role = kept[b].role)
  <2>1. CASE kept[b] = NoAccount
    BY <2>1, RowFacts, Zenon DEF Roles
  <2>2. CASE kept[b] # NoAccount
    <3>1. kept[b] \in [role : Roles, enabled : BOOLEAN]
      BY <1>1, <2>2, RowFacts, Zenon
    <3>2. \A q \in [role : Roles, enabled : BOOLEAN] :
             /\ [q EXCEPT !.enabled = TRUE] \in [role : Roles, enabled : BOOLEAN]
             /\ [q EXCEPT !.enabled = TRUE].role = q.role /\ [q EXCEPT !.enabled = TRUE].enabled = TRUE
      BY Zenon
    <3> QED
      BY <2>2, <3>1, <3>2, Zenon DEF AccountRows
  <2> QED
    BY <2>1, <2>2, Zenon
<1> HIDE DEF r
<1> QED
  BY <1>1, <1>2, <1>3, AdminStays, ZenonT(30)

\* The invariant holds before the first start.
LEMMA SessionsInitInv == SessionsInit => SInv
<1> SUFFICES ASSUME SessionsInit PROVE SInv
  BY Zenon
<1> DEFINE none == [a \in Accounts |-> NoAccount]
<1>1. none \in [Accounts -> AccountRows] /\ AdminLeft(none)
  BY RowFacts, Zenon DEF AdminLeft, Roles
<1>2. PICK b \in BootstrapUsers : accounts = Bootstrapped(none, b)
  BY Zenon DEF SessionsInit
<1> HIDE DEF none
<1>3. accounts \in [Accounts -> AccountRows] /\ AdminLeft(accounts)
  BY <1>1, <1>2, BootstrapKeeps, Zenon
<1> QED
  BY <1>3, Zenon DEF SessionsInit, SInv, SessionsTypeOK, RolesLast, OneAdminLeft, AdminLeft, Acts

\* One account of the tenant of s changes, by a session of an administrator: the
\* account the session belongs to is one that is enabled, or stale says so.
LEMMA AdministeredBy ==
    ASSUME SInv, NEW s \in sessions, NEW from, Administers(s, from)
    PROVE  /\ s.account \in Accounts
           /\ accounts[s.account].enabled = TRUE => Acts(accounts, s.account)
<1>1. s \in Issued /\ accounts[s.account].role = s.role
  BY Zenon DEF SInv, SessionsTypeOK, RolesLast
<1>2. s.account \in Accounts /\ s.role \in Roles
  BY <1>1, Zenon DEF Issued
<1>3. s.role = "admin"
  BY <1>2, OnlyAdmins, Zenon DEF Administers
<1>4. accounts[s.account] \in AccountRows
  BY <1>2, Zenon DEF SInv, SessionsTypeOK
<1> QED
  BY <1>1, <1>2, <1>3, <1>4, RowFacts, ZenonT(30) DEF Acts

\* Every step keeps the invariant.
LEMMA SessionsNextInv == SInv /\ [SessionsNext]_sessionVars => SInv'
<1> SUFFICES ASSUME SInv, [SessionsNext]_sessionVars PROVE SInv'
  BY Zenon
<1>1. SessionsTypeOK /\ RolesLast /\ (~stale => AdminLeft(accounts))
  BY Zenon DEF SInv, OneAdminLeft, AdminLeft, Acts
<1>2. \A s \in sessions : s.account \in Accounts /\ s.role \in Roles
  BY <1>1, Zenon DEF SessionsTypeOK, Issued
<1>3. ASSUME UNCHANGED <<sessions, hour>>, accounts' \in [Accounts -> AccountRows], stale' \in BOOLEAN,
             \A a \in Accounts : accounts[a] # NoAccount => accounts'[a].role = accounts[a].role,
             ~stale' => AdminLeft(accounts')
      PROVE  SInv'
  <2>1. SessionsTypeOK'
    BY <1>1, <1>3, Zenon DEF SessionsTypeOK
  <2>2. RolesLast'
    <3>1. \A s \in sessions : accounts[s.account] # NoAccount
      BY <1>1, <1>2, RowFacts, Zenon DEF RolesLast
    <3> QED
      BY <1>1, <1>2, <1>3, <3>1, Zenon DEF RolesLast
  <2>3. OneAdminLeft'
    BY <1>3, Zenon DEF OneAdminLeft, AdminLeft, Acts
  <2> QED
    BY <2>1, <2>2, <2>3, Zenon DEF SInv
<1>4. ASSUME NEW a \in Accounts, Login(a) PROVE SInv'
  <2> DEFINE s == [account |-> a, role |-> accounts[a].role, expires |-> hour + SessionTTL]
  <2>1. accounts[a] \in [role : Roles, enabled : BOOLEAN]
    BY <1>1, <1>4, RowFacts, Zenon DEF Login, MayLogin, SessionsTypeOK
  <2>2. s \in Issued /\ s.account = a /\ s.role = accounts[a].role
    BY <1>1, <2>1, SessionsAssumption, SMTT(30) DEF Issued, SessionsTypeOK
  <2>3. sessions' = sessions \cup {s} /\ UNCHANGED <<accounts, hour, stale>>
    BY <1>4, Zenon DEF Login
  <2> HIDE DEF s
  <2>4. SessionsTypeOK' /\ RolesLast'
    BY <1>1, <2>2, <2>3, Zenon DEF SessionsTypeOK, RolesLast
  <2>5. OneAdminLeft'
    BY <2>3, Zenon DEF SInv, OneAdminLeft
  <2> QED
    BY <2>4, <2>5, Zenon DEF SInv
<1>5. ASSUME RestartServer PROVE SInv'
  <2>1. PICK b \in BootstrapUsers : accounts' = Bootstrapped(accounts, b)
    BY <1>5, Zenon DEF RestartServer
  <2>2. /\ accounts' \in [Accounts -> AccountRows]
        /\ AdminLeft(accounts) => AdminLeft(accounts')
        /\ \A a \in Accounts : accounts[a] # NoAccount => accounts'[a].role = accounts[a].role
    BY <1>1, <2>1, BootstrapKeeps, Zenon DEF SessionsTypeOK
  <2> QED
    BY <1>1, <1>3, <1>5, <2>2, Zenon DEF RestartServer, SessionsTypeOK
<1>6. ASSUME HourPasses PROVE SInv'
  BY <1>6 DEF HourPasses, SInv, SessionsTypeOK, RolesLast, OneAdminLeft
<1>7. ASSUME NEW s \in sessions, NEW from, NEW a \in Accounts, NEW role \in Roles,
             handleAdminCreateUser(s, from, a, role)
      PROVE  SInv'
  <2> DEFINE r == [role |-> role, enabled |-> TRUE]
  <2>1. /\ accounts[a] = NoAccount /\ accounts' = [accounts EXCEPT ![a] = r] /\ UNCHANGED <<sessions, hour>>
        /\ stale' = (stale \/ ~accounts[s.account].enabled)
    BY <1>7, Zenon DEF handleAdminCreateUser, Changed
  <2>2. r \in AccountRows /\ r.role \in Roles /\ r.enabled = TRUE
    BY RowFacts, Zenon
  <2> HIDE DEF r
  <2>3. AdminLeft(accounts) => AdminLeft(accounts')
    BY <1>1, <2>1, <2>2, AdminStays, ZenonT(30) DEF SessionsTypeOK
  <2>4. /\ accounts' \in [Accounts -> AccountRows]
        /\ \A x \in Accounts : accounts[x] # NoAccount => accounts'[x].role = accounts[x].role
    BY <1>1, <2>1, <2>2, Zenon DEF SessionsTypeOK
  <2>5. stale' \in BOOLEAN /\ (~stale' => ~stale)
    BY <2>1, Zenon
  <2> QED
    BY <1>1, <1>3, <2>1, <2>3, <2>4, <2>5, Zenon
<1>8. ASSUME NEW s \in sessions, NEW from, NEW a \in Accounts, NEW enabled \in BOOLEAN,
             setUserEnabled(s, from, a, enabled)
      PROVE  SInv'
  <2> DEFINE r == [accounts[a] EXCEPT !.enabled = enabled]
  <2>1. /\ Administers(s, from) /\ (a = s.account => enabled)
        /\ accounts[a] # NoAccount /\ TenantOf[a] = TenantOf[s.account]
        /\ accounts' = [accounts EXCEPT ![a].enabled = enabled] /\ UNCHANGED <<sessions, hour>>
        /\ stale' = (stale \/ ~accounts[s.account].enabled)
    BY <1>8, Zenon DEF setUserEnabled, MaySetEnabled, InTenant, Changed
  <2>2. accounts' = [accounts EXCEPT ![a] = r]
    BY <2>1, Zenon
  <2>3. r \in AccountRows /\ r.role = accounts[a].role /\ r.role \in Roles /\ r.enabled = enabled
    <3>1. accounts[a] \in [role : Roles, enabled : BOOLEAN]
      BY <1>1, <2>1, RowFacts, Zenon DEF SessionsTypeOK
    <3>2. \A q \in [role : Roles, enabled : BOOLEAN] :
             /\ [q EXCEPT !.enabled = enabled] \in [role : Roles, enabled : BOOLEAN]
             /\ [q EXCEPT !.enabled = enabled].role = q.role /\ [q EXCEPT !.enabled = enabled].enabled = enabled
      BY Zenon
    <3> QED
      BY <3>1, <3>2, Zenon DEF AccountRows
  <2> HIDE DEF r
  <2>4. /\ accounts' \in [Accounts -> AccountRows]
        /\ accounts'[a] = r /\ \A x \in Accounts \ {a} : accounts'[x] = accounts[x]
        /\ \A x \in Accounts : accounts'[x].role = accounts[x].role
    BY <1>1, <2>2, <2>3, Zenon DEF SessionsTypeOK
  <2>5. stale' \in BOOLEAN /\ (~stale' => ~stale /\ accounts[s.account].enabled)
    BY <2>1, Zenon
  <2>6. ASSUME ~stale' PROVE AdminLeft(accounts')
    <3>1. CASE enabled = TRUE
      BY <1>1, <2>2, <2>3, <2>5, <2>6, <3>1, AdminStays, ZenonT(30) DEF SessionsTypeOK
    <3>2. CASE enabled # TRUE
      <4>1. s.account \in Accounts /\ Acts(accounts, s.account)
        <5>1. s.account \in Accounts /\ accounts[s.account] \in AccountRows
          BY <1>1, <1>2, Zenon DEF SessionsTypeOK
        <5>2. accounts[s.account].enabled \in BOOLEAN
          BY <5>1, RowFacts, Zenon
        <5> QED
          BY <2>1, <2>5, <2>6, <5>2, AdministeredBy, ZenonT(30)
      <4>2. s.account # a /\ Acts(accounts', s.account)
        BY <2>1, <2>4, <3>2, <4>1, ZenonT(30) DEF Acts
      <4>3. ASSUME NEW x \in Accounts, accounts'[x].role = "admin"
            PROVE  \E b \in Accounts : TenantOf[b] = TenantOf[x] /\ Acts(accounts', b)
        <5>1. PICK b \in Accounts : TenantOf[b] = TenantOf[x] /\ Acts(accounts, b)
          BY <1>1, <2>4, <2>5, <2>6, <4>3, Zenon DEF AdminLeft
        <5>2. CASE b = a
          BY <2>1, <4>1, <4>2, <5>1, <5>2, Zenon
        <5>3. CASE b # a
          BY <2>4, <5>1, <5>3, Zenon DEF Acts
        <5> QED
          BY <5>2, <5>3, Zenon
      <4> QED
        BY <4>3, Zenon DEF AdminLeft
    <3> QED
      BY <3>1, <3>2, Zenon
  <2> QED
    BY <1>3, <2>1, <2>4, <2>5, <2>6, Zenon
<1>9. ASSUME UNCHANGED sessionVars PROVE SInv'
  BY <1>9, Zenon DEF sessionVars, SInv, SessionsTypeOK, RolesLast, OneAdminLeft
<1> QED
  BY <1>4, <1>5, <1>6, <1>7, <1>8, <1>9, Zenon DEF SessionsNext

\* The administrators of a tenant cannot lock each other out: unless a session of a
\* disabled account acts, one of them stays enabled (setUserEnabled refuses to
\* disable the account that asks).
THEOREM AdminStaysEnabled == SessionsSpec => []OneAdminLeft
<1>1. SInv => OneAdminLeft
  BY Zenon DEF SInv
<1> QED
  BY <1>1, SessionsInitInv, SessionsNextInv, PTL DEF SessionsSpec

-----------------------------------------------------------------------------
(* The rate of a client.                                                   *)

LimiterSpec == LimiterInit /\ [][LimiterNext]_limiterVars

Bucket == [tokens : Nat, last : Nat]
Full == Burst * Unit

\* The units v may still take: what its bucket holds now, or a full one.
Left(v) == IF visitors[v] = NoBucket THEN Full ELSE Filled(visitors[v])

LimiterTypeOK ==
    /\ second \in Nat
    /\ visitors \in [Visitors -> {NoBucket} \cup Bucket]
    /\ \A v \in Visitors : visitors[v] # NoBucket => visitors[v].tokens <= Full /\ visitors[v].last <= second
    /\ granted \in [Visitors -> Seq(Nat)]
    /\ refused \in [Visitors -> BOOLEAN]

\* Since any request that was let through, the requests let through and what is
\* left are at most a burst and what the rate granted.
Accounted ==
    \A v \in Visitors : \A i \in 1..Len(granted[v]) :
        (Len(granted[v]) - i + 1) * Unit + Left(v) <= Full + Rate * (second - granted[v][i])

\* The requests let through, from one to another.
Paced ==
    \A v \in Visitors : \A i \in 1..Len(granted[v]) : \A j \in i..Len(granted[v]) :
        (j - i + 1) * Unit <= Full + Rate * (granted[v][j] - granted[v][i])

\* What the rate granted since the last request let through is not lost, and a
\* client is refused only without enough of it.
Refilled ==
    \A v \in Visitors :
        /\ refused[v] => Left(v) < Unit
        /\ Len(granted[v]) > 0 => Left(v) = Full \/ Left(v) >= Rate * (second - granted[v][Len(granted[v])])

RInv == LimiterTypeOK /\ Accounted /\ Paced /\ Refilled

\* What the assumption says of a full bucket.
LEMMA LimiterConstants ==
    /\ Unit \in Nat /\ Rate \in Nat /\ IdleAfter \in Nat /\ Unit > 0
    /\ Full \in Nat /\ Full >= Unit /\ Rate * IdleAfter >= Full
<1>1. Unit \in Nat \ {0} /\ Burst \in Nat \ {0} /\ Rate \in Nat \ {0} /\ IdleAfter \in Nat \ {0}
  BY LimiterAssumption, Zenon
<1>2. Full \in Nat /\ Full >= Unit
  BY <1>1 DEF Full
<1> QED
  BY <1>1, <1>2, LimiterAssumption, SMTT(30) DEF Full

\* A call is counted for the one who made it, through whichever proxies and
\* headers it comes.
LEMMA ClientIsCaller ==
    ASSUME NEW r \in Calls
    PROVE  ClientIP(r) = r.by /\ r.by \in Visitors
<1> DEFINE stops == {k \in DOMAIN r.xff : r.xff[k] # Junk /\ (r.xff[k] \notin TrustedProxies \/ k = 1)}
           known == {k \in DOMAIN r.real : r.real[k] # Junk}
<1>1. r.by \in Visitors /\ r.by \notin TrustedProxies /\ r.by # Junk
  BY CallsAssumption, LimiterAssumption, Zenon
<1>2. DOMAIN r.xff = 1..Len(r.xff) /\ DOMAIN r.real = 1..Len(r.real) /\ Len(r.xff) \in Nat /\ Len(r.real) \in Nat
  BY CallsAssumption
<1>3. CASE r.remote = r.by
  BY <1>1, <1>3, Zenon DEF ClientIP
<1>4. ASSUME r.remote \in TrustedProxies, NEW k \in DOMAIN r.xff, r.xff[k] = r.by,
             \A l \in DOMAIN r.xff : l > k => r.xff[l] \in TrustedProxies
      PROVE  ClientIP(r) = r.by
  <2>1. k \in stops
    BY <1>1, <1>4, Zenon
  <2>2. \A l \in stops : l <= k
    BY <1>2, <1>4
  <2>3. \A m \in stops : (\A l \in stops : l <= m) => m = k
    BY <1>2, <2>1, <2>2, SMTT(30)
  <2>4. (CHOOSE m \in stops : \A l \in stops : l <= m) = k
    BY <2>1, <2>2, <2>3, Zenon
  <2> QED
    BY <1>4, <2>1, <2>4, Zenon DEF ClientIP
<1>5. ASSUME r.remote \in TrustedProxies, r.xff = <<>>, NEW k \in DOMAIN r.real, r.real[k] = r.by,
             \A l \in DOMAIN r.real : l < k => r.real[l] = Junk
      PROVE  ClientIP(r) = r.by
  <2>1. stops = {}
    BY <1>5
  <2>2. k \in known
    BY <1>1, <1>5, Zenon
  <2>3. \A l \in known : k <= l
    BY <1>2, <1>5
  <2>4. \A m \in known : (\A l \in known : m <= l) => m = k
    BY <1>2, <2>2, <2>3, SMTT(30)
  <2>5. (CHOOSE m \in known : \A l \in known : m <= l) = k
    BY <2>2, <2>3, <2>4, Zenon
  <2> QED
    BY <1>5, <2>1, <2>2, <2>5, ZenonT(30) DEF ClientIP
<1> QED
  BY <1>1, <1>3, <1>4, <1>5, CallsAssumption, Zenon

\* What a bucket holds is never less than nothing, nor more than a burst.
LEMMA LeftBounds ==
    ASSUME LimiterTypeOK, NEW v \in Visitors
    PROVE  Left(v) \in Nat /\ Left(v) <= Full
<1>1. CASE visitors[v] = NoBucket
  BY <1>1, LimiterConstants DEF Left
<1>2. CASE visitors[v] # NoBucket
  <2>1. /\ visitors[v].tokens \in Nat /\ visitors[v].last \in Nat /\ second \in Nat
        /\ visitors[v].last <= second
    BY <1>2, Zenon DEF LimiterTypeOK, Bucket
  <2>2. (second - visitors[v].last) * Rate \in Nat
    BY <2>1, LimiterConstants
  <2> QED
    BY <1>2, <2>1, <2>2, LimiterConstants, SMTT(30) DEF Left, Filled, Full
<1> QED
  BY <1>1, <1>2, Zenon

\* A second adds what the rate grants, up to a burst.
LEMMA SecondRefills ==
    ASSUME LimiterTypeOK, SecondPasses, NEW v \in Visitors
    PROVE  Left(v)' = IF Left(v) + Rate > Full THEN Full ELSE Left(v) + Rate
<1>1. visitors'[v] = visitors[v] /\ second' = second + 1
  BY Zenon DEF SecondPasses
<1>2. CASE visitors[v] = NoBucket
  BY <1>1, <1>2, LimiterConstants, SMTT(30) DEF Left, Full
<1>3. CASE visitors[v] # NoBucket
  <2> DEFINE x == visitors[v].tokens + (second - visitors[v].last) * Rate
             y == visitors[v].tokens + ((second + 1) - visitors[v].last) * Rate
  <2>1. visitors[v].tokens \in Nat /\ visitors[v].last \in Nat /\ second \in Nat
    BY <1>3, Zenon DEF LimiterTypeOK, Bucket
  <2>2. x \in Int /\ y = x + Rate
    <3>1. \A k, r \in Int : k * r \in Int /\ (k + 1) * r = k * r + r
      OBVIOUS
    <3>2. PICK k \in Int : k = second - visitors[v].last
      BY <2>1
    <3>3. (second + 1) - visitors[v].last = k + 1 /\ Rate \in Int
      BY <2>1, <3>2, LimiterConstants, SMTT(30)
    <3>4. k * Rate \in Int /\ (k + 1) * Rate = k * Rate + Rate
      BY <3>1, <3>3, Zenon
    <3> QED
      BY <2>1, <3>2, <3>3, <3>4, SMTT(30)
  <2>3. /\ Left(v) = IF x > Full THEN Full ELSE x
        /\ Left(v)' = IF y > Full THEN Full ELSE y
    BY <1>1, <1>3, Zenon DEF Left, Filled, Full
  <2> QED
    BY <2>2, <2>3, LimiterConstants, SMTT(30)
<1> QED
  BY <1>2, <1>3, Zenon

\* The cleanup forgets only buckets that are full again.
LEMMA CleanupLosesNothing ==
    ASSUME LimiterTypeOK, Cleanup, NEW v \in Visitors
    PROVE  Left(v)' = Left(v)
<1>1. visitors'[v] = (IF visitors[v] # NoBucket /\ Idle(v) THEN NoBucket ELSE visitors[v]) /\ second' = second
  BY Zenon DEF Cleanup
<1>2. CASE visitors[v] # NoBucket /\ Idle(v)
  <2> DEFINE age == second - visitors[v].last
  <2>1. visitors[v].tokens \in Nat /\ visitors[v].last \in Nat /\ second \in Nat
    BY <1>2, Zenon DEF LimiterTypeOK, Bucket
  <2>2. age \in Int /\ age > IdleAfter
    BY <1>2, <2>1 DEF Idle
  <2>3. ASSUME NEW n \in Int, n > IdleAfter PROVE n * Rate >= Rate * IdleAfter
    BY <2>3, LimiterConstants
  <2>4. age * Rate >= Full /\ age * Rate \in Int
    BY <2>2, <2>3, LimiterConstants, SMTT(30)
  <2>5. Left(v) = Full
    <3>1. Left(v) = IF visitors[v].tokens + age * Rate > Full THEN Full ELSE visitors[v].tokens + age * Rate
      BY <1>2, Zenon DEF Left, Filled, Full
    <3>2. ASSUME NEW m \in Int, NEW t \in Nat, m >= Full PROVE t + m > Full \/ t + m = Full
      BY <3>2, LimiterConstants
    <3>3. visitors[v].tokens + age * Rate > Full \/ visitors[v].tokens + age * Rate = Full
      BY <2>1, <2>4, <3>2, Zenon
    <3> QED
      BY <3>1, <3>3, Zenon
  <2> QED
    BY <1>1, <1>2, <2>5, Zenon DEF Left, Full
<1>3. CASE ~(visitors[v] # NoBucket /\ Idle(v))
  BY <1>1, <1>3, Zenon DEF Left, Filled, Full
<1> QED
  BY <1>2, <1>3, Zenon

\* A bucket that was just written holds what was written.
LEMMA JustWritten ==
    ASSUME NEW v \in Visitors, NEW n \in Nat, n <= Full, second' = second, second \in Nat,
           visitors'[v] = [tokens |-> n, last |-> second]
    PROVE  visitors'[v] \in Bucket /\ visitors'[v] # NoBucket /\ Left(v)' = n
<1>1. visitors'[v].tokens = n /\ visitors'[v].last = second /\ visitors'[v] \in Bucket
  BY DEF Bucket
<1>2. NoBucket.tokens = -1
  BY Zenon DEF NoBucket
<1>3. visitors'[v] # NoBucket
  BY <1>1, <1>2
<1>4. n + (second - second) * Rate = n
  BY LimiterConstants
<1> QED
  BY <1>1, <1>3, <1>4, LimiterConstants, SMTT(30) DEF Left, Filled, Full

\* A request takes a unit's worth from what was left to the client, or leaves it.
LEMMA CallTakes ==
    ASSUME LimiterTypeOK, NEW r \in Calls, AllowRate(r)
    PROVE  /\ LimiterTypeOK' /\ \A u \in Visitors \ {r.by} : Left(u)' = Left(u)
           /\ UNCHANGED second
           /\ \/ /\ Left(r.by) >= Unit /\ Left(r.by)' = Left(r.by) - Unit
                 /\ granted' = [granted EXCEPT ![r.by] = Append(granted[r.by], second)]
                 /\ refused' = [refused EXCEPT ![r.by] = FALSE]
              \/ /\ Left(r.by) < Unit /\ Left(r.by)' = Left(r.by)
                 /\ granted' = granted
                 /\ refused' = [refused EXCEPT ![r.by] = TRUE]
<1> DEFINE v == r.by
<1>1. ClientIP(r) = v /\ v \in Visitors /\ second' = second /\ second \in Nat
  BY ClientIsCaller, Zenon DEF AllowRate, LimiterTypeOK
<1>2. Left(v) \in Nat /\ Left(v) <= Full
  BY <1>1, LeftBounds, Zenon
<1> HIDE DEF v
<1>3. ASSUME NEW n \in Nat, n <= Full,
             visitors' = [visitors EXCEPT ![v] = [tokens |-> n, last |-> second]],
             granted' \in [Visitors -> Seq(Nat)], refused' \in [Visitors -> BOOLEAN]
      PROVE  LimiterTypeOK' /\ Left(v)' = n /\ \A u \in Visitors \ {v} : Left(u)' = Left(u)
  <2>1. visitors'[v] = [tokens |-> n, last |-> second] /\ \A u \in Visitors \ {v} : visitors'[u] = visitors[u]
    BY <1>1, <1>3, Zenon DEF LimiterTypeOK
  <2>2. visitors'[v] \in Bucket /\ visitors'[v] # NoBucket /\ Left(v)' = n
    BY <1>1, <1>3, <2>1, JustWritten, Zenon
  <2>3. visitors'[v].tokens = n /\ visitors'[v].last = second
    BY <2>1
  <2>4. \A u \in Visitors \ {v} : Left(u)' = Left(u)
    BY <1>1, <2>1, Zenon DEF Left, Filled, Full
  <2>5. visitors' \in [Visitors -> {NoBucket} \cup Bucket]
    BY <1>1, <1>3, <2>1, <2>2, Zenon DEF LimiterTypeOK
  <2>6. \A u \in Visitors : visitors'[u] # NoBucket => visitors'[u].tokens <= Full /\ visitors'[u].last <= second
    BY <1>1, <1>3, <2>1, <2>3, SMTT(30) DEF LimiterTypeOK
  <2> QED
    BY <1>1, <1>3, <2>2, <2>4, <2>5, <2>6, Zenon DEF LimiterTypeOK, Full
<1>4. CASE visitors[v] = NoBucket \/ Filled(visitors[v]) >= Unit
  <2>1. Left(v) >= Unit
    BY <1>4, LimiterConstants, Zenon DEF Left
  <2>2. /\ visitors' = [visitors EXCEPT ![v] = [tokens |-> Left(v) - Unit, last |-> second]]
        /\ granted' = [granted EXCEPT ![v] = Append(granted[v], second)]
        /\ refused' = [refused EXCEPT ![v] = FALSE]
    <3>1. \/ /\ visitors' = [visitors EXCEPT ![v] =
                     [tokens |-> (IF visitors[v] = NoBucket THEN Burst * Unit ELSE Filled(visitors[v])) - Unit,
                      last |-> second]]
             /\ granted' = [granted EXCEPT ![v] = Append(granted[v], second)]
             /\ refused' = [refused EXCEPT ![v] = FALSE]
          \/ visitors[v] # NoBucket /\ Filled(visitors[v]) < Unit
      BY <1>1, Zenon DEF AllowRate, v
    <3>2. ~(visitors[v] # NoBucket /\ Filled(visitors[v]) < Unit)
      BY <1>2, <1>4, LimiterConstants, SMTT(30) DEF Left
    <3> QED
      BY <3>1, <3>2, Zenon DEF Left, Full
  <2>3. Left(v) - Unit \in Nat /\ Left(v) - Unit <= Full
    BY <1>2, <2>1, LimiterConstants, SMTT(30)
  <2>4. granted' \in [Visitors -> Seq(Nat)] /\ refused' \in [Visitors -> BOOLEAN]
    BY <1>1, <2>2 DEF LimiterTypeOK
  <2>5. LimiterTypeOK' /\ Left(v)' = Left(v) - Unit /\ \A u \in Visitors \ {v} : Left(u)' = Left(u)
    BY <1>3, <2>2, <2>3, <2>4, ZenonT(30)
  <2> QED
    BY <1>1, <2>1, <2>2, <2>5, Zenon DEF v
<1>5. CASE visitors[v] # NoBucket /\ ~(Filled(visitors[v]) >= Unit)
  <2>1. Left(v) < Unit
    BY <1>2, <1>5, LimiterConstants, SMTT(30) DEF Left
  <2>2. /\ visitors' = [visitors EXCEPT ![v] = [tokens |-> Left(v), last |-> second]]
        /\ granted' = granted
        /\ refused' = [refused EXCEPT ![v] = TRUE]
    <3>1. visitors' = [visitors EXCEPT ![v] = [tokens |-> Filled(visitors[v]), last |-> second]]
          /\ granted' = granted /\ refused' = [refused EXCEPT ![v] = TRUE]
      BY <1>1, <1>5, Zenon DEF AllowRate, Refuse, v
    <3> QED
      BY <1>5, <3>1, Zenon DEF Left
  <2>3. granted' \in [Visitors -> Seq(Nat)] /\ refused' \in [Visitors -> BOOLEAN]
    BY <1>1, <2>2, Zenon DEF LimiterTypeOK
  <2>4. LimiterTypeOK' /\ Left(v)' = Left(v) /\ \A u \in Visitors \ {v} : Left(u)' = Left(u)
    BY <1>2, <1>3, <2>2, <2>3, ZenonT(30)
  <2> QED
    BY <1>1, <2>1, <2>2, <2>4, Zenon DEF v
<1> QED
  BY <1>4, <1>5, Zenon

\* Without requests there is nothing to account for.
LEMMA LimiterInitInv == LimiterInit => RInv
<1> SUFFICES ASSUME LimiterInit PROVE RInv
  BY Zenon
<1>1. \A v \in Visitors : granted[v] = <<>> /\ Len(granted[v]) = 0 /\ refused[v] = FALSE
  BY Zenon DEF LimiterInit
<1>2. LimiterTypeOK
  BY DEF LimiterInit, LimiterTypeOK
<1> QED
  BY <1>1, <1>2 DEF RInv, Accounted, Paced, Refilled

\* Every step keeps the invariant.
LEMMA LimiterNextInv == RInv /\ [LimiterNext]_limiterVars => RInv'
<1> SUFFICES ASSUME RInv, [LimiterNext]_limiterVars PROVE RInv'
  BY Zenon
<1> USE LimiterConstants
<1>1. /\ LimiterTypeOK /\ second \in Nat /\ granted \in [Visitors -> Seq(Nat)]
      /\ \A v \in Visitors : /\ Left(v) \in Nat /\ Left(v) <= Full
                             /\ granted[v] \in Seq(Nat) /\ Len(granted[v]) \in Nat
                             /\ \A i \in 1..Len(granted[v]) : granted[v][i] \in Nat
  BY LeftBounds DEF RInv, LimiterTypeOK
<1>2. ASSUME LimiterTypeOK', UNCHANGED <<second, granted, refused>>, \A v \in Visitors : Left(v)' = Left(v)
      PROVE  RInv'
  BY <1>2, Zenon DEF RInv, Accounted, Paced, Refilled, Full
<1>3. ASSUME Cleanup PROVE RInv'
  <2>1. LimiterTypeOK'
    BY <1>1, <1>3, Zenon DEF Cleanup, LimiterTypeOK, Full
  <2> QED
    BY <1>1, <1>2, <1>3, <2>1, CleanupLosesNothing, Zenon DEF Cleanup
<1>4. ASSUME SecondPasses PROVE RInv'
  <2>1. /\ second' = second + 1 /\ UNCHANGED <<visitors, granted>>
        /\ refused' = [v \in Visitors |-> FALSE]
    BY <1>4, Zenon DEF SecondPasses
  <2>2. LimiterTypeOK'
    <3>1. \A v \in Visitors : visitors[v] # NoBucket => visitors[v].last \in Nat /\ visitors[v].last <= second
      BY <1>1, Zenon DEF LimiterTypeOK, Bucket
    <3>2. \A v \in Visitors : visitors[v] # NoBucket => visitors[v].last <= second + 1
      BY <1>1, <3>1
    <3> QED
      BY <1>1, <2>1, <3>2, SMTT(30) DEF LimiterTypeOK, Full
  <2>3. \A v \in Visitors : Left(v)' = IF Left(v) + Rate > Full THEN Full ELSE Left(v) + Rate
    BY <1>1, <1>4, SecondRefills, Zenon
  <2>4. ASSUME NEW g \in Nat PROVE Rate * ((second + 1) - g) = Rate * (second - g) + Rate /\ Rate * (second - g) \in Int
    BY <1>1
  <2>5. ASSUME NEW v \in Visitors, NEW i \in 1..Len(granted[v])
        PROVE  (Len(granted[v]) - i + 1) * Unit + Left(v)' <= Full + Rate * (second' - granted[v][i])
    <3> DEFINE a == (Len(granted[v]) - i + 1) * Unit
               b == Rate * (second - granted[v][i])
    <3>1. a \in Int /\ b \in Int /\ a + Left(v) <= Full + b
      BY <1>1, <2>4 DEF RInv, Accounted
    <3>2. Rate * (second' - granted[v][i]) = b + Rate
      BY <1>1, <2>1, <2>4, Zenon
    <3> HIDE DEF a, b
    <3>3. a + Left(v)' <= Full + (b + Rate)
      BY <1>1, <2>3, <3>1, SMTT(30)
    <3> QED
      BY <3>2, <3>3, Zenon DEF a
  <2>6. ASSUME NEW v \in Visitors, Len(granted[v]) > 0
        PROVE  Left(v)' = Full \/ Left(v)' >= Rate * (second' - granted[v][Len(granted[v])])
    <3> DEFINE b == Rate * (second - granted[v][Len(granted[v])])
    <3>1. granted[v][Len(granted[v])] \in Nat
      BY <1>1, <2>6
    <3>2. b \in Int /\ (Left(v) = Full \/ Left(v) >= b) /\ Rate * (second' - granted[v][Len(granted[v])]) = b + Rate
      BY <2>1, <2>4, <2>6, <3>1, ZenonT(30) DEF RInv, Refilled
    <3> HIDE DEF b
    <3> QED
      BY <1>1, <2>3, <3>2, SMTT(30)
  <2>7. \A v \in Visitors : refused'[v] = FALSE
    BY <2>1, Zenon
  <2>8. Accounted' /\ Refilled'
    BY <2>1, <2>5, <2>6, <2>7, Zenon DEF Accounted, Refilled, Full
  <2>9. Paced'
    BY <2>1, Zenon DEF RInv, Paced, Full
  <2> QED
    BY <2>2, <2>8, <2>9, Zenon DEF RInv
<1>5. ASSUME NEW r \in Calls, AllowRate(r) PROVE RInv'
  <2> DEFINE v == r.by
             n == Len(granted[v])
  <2>1. v \in Visitors
    BY ClientIsCaller, Zenon
  <2>2. /\ LimiterTypeOK' /\ (\A u \in Visitors \ {v} : Left(u)' = Left(u)) /\ second' = second
        /\ \/ /\ Left(v) >= Unit /\ Left(v)' = Left(v) - Unit
              /\ granted' = [granted EXCEPT ![v] = Append(granted[v], second)]
              /\ refused' = [refused EXCEPT ![v] = FALSE]
           \/ /\ Left(v) < Unit /\ Left(v)' = Left(v)
              /\ granted' = granted
              /\ refused' = [refused EXCEPT ![v] = TRUE]
    BY <1>1, <1>5, CallTakes, Zenon
  <2> HIDE DEF v
  <2>3. CASE Left(v) >= Unit
    <3>1. /\ Left(v)' = Left(v) - Unit
          /\ granted' = [granted EXCEPT ![v] = Append(granted[v], second)]
          /\ refused' = [refused EXCEPT ![v] = FALSE]
      BY <1>1, <2>1, <2>2, <2>3, SMTT(30)
    <3>2. /\ Len(granted'[v]) = n + 1 /\ granted'[v][n + 1] = second
          /\ \A i \in 1..n : granted'[v][i] = granted[v][i]
          /\ \A u \in Visitors \ {v} : granted'[u] = granted[u] /\ refused'[u] = refused[u] /\ Left(u)' = Left(u)
          /\ refused'[v] = FALSE
      BY <1>1, <2>1, <2>2, <3>1, SMTT(30) DEF LimiterTypeOK
    <3>3. n \in Nat /\ \A i \in 1..(n + 1) : i \in 1..n \/ i = n + 1
      BY <1>1, <2>1
    <3> HIDE DEF n
    <3>4. ASSUME NEW i \in 1..(n + 1)
          PROVE  ((n + 1) - i + 1) * Unit + Left(v)' <= Full + Rate * (second - granted'[v][i])
      <4>1. CASE i = n + 1
        <5>1. ((n + 1) - i + 1) * Unit = Unit /\ Rate * (second - granted'[v][i]) = 0
          BY <1>1, <3>2, <3>3, <4>1, SMTT(30)
        <5>2. Unit + Left(v)' <= Full + 0
          BY <1>1, <2>1, <2>3, <3>1, SMTT(30)
        <5> QED
          BY <5>1, <5>2, Zenon
      <4>2. CASE i \in 1..n
        <5> DEFINE a == (n - i + 1) * Unit
                   b == Rate * (second - granted[v][i])
        <5>1. a \in Int /\ ((n + 1) - i + 1) * Unit = a + Unit
          BY <3>3, <4>2
        <5>2. b \in Int /\ Rate * (second - granted'[v][i]) = b
          <6>1. granted'[v][i] = granted[v][i]
            BY <3>2, <4>2, Zenon
          <6>2. granted[v][i] \in Nat
            BY <2>1, <4>2, SMTT(30) DEF RInv, LimiterTypeOK, n
          <6>3. second \in Nat /\ Rate \in Nat
            BY <2>1, LimiterConstants, Zenon DEF RInv, LimiterTypeOK
          <6>4. second - granted[v][i] \in Int
            BY <6>2, <6>3
          <6> QED
            BY <6>1, <6>3, <6>4, SMTT(30)
        <5>3. a + Left(v) <= Full + b
          BY <2>1, <4>2, Zenon DEF RInv, Accounted, n
        <5> HIDE DEF a, b
        <5>4. (a + Unit) + Left(v)' <= Full + b
          BY <1>1, <2>1, <2>3, <3>1, <5>1, <5>2, <5>3, SMTT(30)
        <5> QED
          BY <5>1, <5>2, <5>4, Zenon
      <4> QED
        BY <3>3, <4>1, <4>2, Zenon
    <3>5. Accounted'
      <4>1. \A u \in Visitors \ {v} : \A i \in 1..Len(granted'[u]) :
               (Len(granted'[u]) - i + 1) * Unit + Left(u)' <= Full + Rate * (second' - granted'[u][i])
        BY <2>2, <3>2, Zenon DEF RInv, Accounted
      <4>2. \A i \in 1..Len(granted'[v]) :
               (Len(granted'[v]) - i + 1) * Unit + Left(v)' <= Full + Rate * (second' - granted'[v][i])
        BY <2>2, <3>2, <3>4, Zenon
      <4> QED
        BY <4>1, <4>2, Zenon DEF Accounted, Full
    <3>6. Paced'
      <4>1. ASSUME NEW i \in 1..(n + 1), NEW j \in i..(n + 1)
            PROVE  (j - i + 1) * Unit <= Full + Rate * (granted'[v][j] - granted'[v][i])
        <5>1. CASE j = n + 1
          <6>1. Left(v)' \in Nat
            BY <1>1, <2>1, <2>3, <3>1, SMTT(30)
          <6> DEFINE a == ((n + 1) - i + 1) * Unit
                     b == Rate * (second - granted'[v][i])
          <6>2. granted'[v][i] \in Nat
            <7>1. CASE i = n + 1
              BY <1>1, <3>2, <7>1, Zenon
            <7>2. CASE i \in 1..n
              BY <1>1, <2>1, <3>2, <7>2, Zenon DEF n
            <7> QED
              BY <3>3, <7>1, <7>2, Zenon
          <6>3. a \in Int /\ b \in Int /\ a + Left(v)' <= Full + b
            <7>1. a \in Int
              BY <3>3, LimiterConstants
            <7>2. b \in Int
              <8> DEFINE g == granted'[v][i]
              <8>1. g \in Nat /\ second \in Nat /\ Rate \in Nat
                BY <1>1, <6>2, LimiterConstants, Zenon
              <8> HIDE DEF g
              <8>2. Rate * (second - g) \in Int
                BY <8>1
              <8> QED
                BY <8>2, Zenon DEF g
            <7> QED
              BY <3>4, <7>1, <7>2, Zenon
          <6> HIDE DEF a, b
          <6>4. a <= Full + b
            BY <6>1, <6>3
          <6> QED
            BY <3>2, <5>1, <6>4, Zenon DEF a, b
        <5>2. CASE j # n + 1
          <6>1. i \in 1..n /\ j \in i..n /\ j \in 1..n
            BY <3>3, <5>2
          <6> QED
            BY <2>1, <3>2, <6>1, Zenon DEF RInv, Paced, n
        <5> QED
          BY <5>1, <5>2, Zenon
      <4>2. \A u \in Visitors \ {v} : \A i \in 1..Len(granted'[u]) : \A j \in i..Len(granted'[u]) :
               (j - i + 1) * Unit <= Full + Rate * (granted'[u][j] - granted'[u][i])
        BY <2>1, <3>2, Zenon DEF RInv, Paced
      <4>3. \A i \in 1..Len(granted'[v]) : \A j \in i..Len(granted'[v]) :
               (j - i + 1) * Unit <= Full + Rate * (granted'[v][j] - granted'[v][i])
        BY <3>2, <4>1, Zenon
      <4> QED
        BY <4>2, <4>3, Zenon DEF Paced, Full
    <3>7. Refilled'
      <4>1. Left(v)' >= Rate * (second - second)
        BY <1>1, <2>1, <2>3, <3>1, SMTT(30)
      <4>2. \A u \in Visitors \ {v} :
               /\ refused'[u] => Left(u)' < Unit
               /\ Len(granted'[u]) > 0 => Left(u)' = Full \/ Left(u)' >= Rate * (second' - granted'[u][Len(granted'[u])])
        BY <2>2, <3>2, Zenon DEF RInv, Refilled
      <4> QED
        BY <2>2, <3>2, <4>1, <4>2, Zenon DEF Refilled, Full
    <3> QED
      BY <2>2, <3>5, <3>6, <3>7, Zenon DEF RInv
  <2>4. CASE ~(Left(v) >= Unit)
    <3>1. /\ Left(v) < Unit /\ Left(v)' = Left(v) /\ granted' = granted
          /\ \A u \in Visitors \ {v} : refused'[u] = refused[u]
      BY <1>1, <2>1, <2>2, <2>4, Zenon DEF LimiterTypeOK
    <3>2. \A u \in Visitors : Left(u)' = Left(u)
      BY <2>2, <3>1, Zenon
    <3>3. Accounted' /\ Paced'
      BY <2>2, <3>1, <3>2, Zenon DEF RInv, Accounted, Paced, Full
    <3>4. Refilled'
      BY <2>2, <3>1, <3>2, Zenon DEF RInv, Refilled, Full
    <3> QED
      BY <2>2, <3>3, <3>4, Zenon DEF RInv
  <2> QED
    BY <2>3, <2>4, Zenon
<1>6. ASSUME UNCHANGED limiterVars PROVE RInv'
  <2>1. LimiterTypeOK' /\ \A v \in Visitors : Left(v)' = Left(v)
    BY <1>1, <1>6, Zenon DEF limiterVars, LimiterTypeOK, Left, Filled, Full
  <2> QED
    BY <1>2, <1>6, <2>1, Zenon DEF limiterVars
<1> QED
  BY <1>3, <1>4, <1>5, <1>6, Zenon DEF LimiterNext

\* Over every interval a client gets at most a burst and what the rate grants in that
\* time, and it is never refused once what one request takes was granted since the
\* last one: for every rate, burst, set of proxies and way a call may come (ClientIP,
\* AllowRate, cleanup).
THEOREM RateIsKept == LimiterSpec => []RateKept
<1>1. RInv => RateKept
  <2> SUFFICES ASSUME RInv, NEW v \in Visitors
               PROVE  /\ \A i \in DOMAIN granted[v] : \A j \in i..Len(granted[v]) :
                            (j - i + 1) * Unit <= Burst * Unit + Rate * (granted[v][j] - granted[v][i])
                      /\ refused[v] /\ granted[v] # <<>> =>
                            (second - granted[v][Len(granted[v])]) * Rate < Unit
    BY Zenon DEF RateKept
  <2>1. /\ granted[v] \in Seq(Nat) /\ DOMAIN granted[v] = 1..Len(granted[v]) /\ Len(granted[v]) \in Nat
        /\ second \in Nat /\ Left(v) \in Nat
    BY LeftBounds DEF RInv, LimiterTypeOK
  <2>2. \A i \in DOMAIN granted[v] : \A j \in i..Len(granted[v]) :
           (j - i + 1) * Unit <= Burst * Unit + Rate * (granted[v][j] - granted[v][i])
    BY <2>1, Zenon DEF RInv, Paced, Full
  <2>3. ASSUME refused[v], granted[v] # <<>>
        PROVE  (second - granted[v][Len(granted[v])]) * Rate < Unit
    <3> DEFINE g == granted[v][Len(granted[v])]
    <3>1. Len(granted[v]) > 0 /\ g \in Nat
      BY <2>1, <2>3
    <3>2. Left(v) < Unit /\ (Left(v) = Full \/ Left(v) >= Rate * (second - g))
      BY <2>3, <3>1, Zenon DEF RInv, Refilled
    <3>3. (second - g) * Rate = Rate * (second - g) /\ Rate * (second - g) \in Int
      BY <2>1, <3>1, LimiterConstants, SMTT(30)
    <3> QED
      BY <2>1, <3>2, <3>3, LimiterConstants, SMTT(30)
  <2> QED
    BY <2>2, <2>3, Zenon
<1> QED
  BY <1>1, LimiterInitInv, LimiterNextInv, PTL DEF LimiterSpec

-----------------------------------------------------------------------------
(* An orderly shutdown.                                                    *)

ShutSpec == ShutInit /\ [][ShutNext]_shutVars

ShutTypeOK ==
    /\ main \in {"serve", "scheduler", "http", "cancel", "snapshot", "wait", "flush", "bye"}
    /\ loop \in {"jitter", "startup", "ticker", "stopped"}
    /\ http \in [Handlers -> {"idle", "call"}]
    /\ direct \in [Jobs -> {"new", "running", "over"}]
    /\ expired \in BOOLEAN

\* The jobs of Service.active are those that run.
ActiveRun == active = {j \in Jobs : direct[j] = "running"}

\* Once Stop has returned there is no loop.
LoopGone == main \notin {"serve", "scheduler"} => loop = "stopped"

\* What each later step of main has settled, unless the time was over.
Settled ==
    ~expired =>
        /\ main \in {"cancel", "snapshot", "wait", "flush", "bye"} => \A h \in Handlers : http[h] = "idle"
        /\ main = "snapshot" => active \subseteq canceled
        /\ main = "wait" => active \subseteq pending /\ pending \subseteq canceled
        /\ main \in {"flush", "bye"} => active = {}
        /\ main = "bye" => ~unsaved

EInv == ShutTypeOK /\ ActiveRun /\ LoopGone /\ Settled

-----------------------------------------------------------------------------

\* startNow keeps active what runs, whichever way it ends.
LEMMA StartKeeps ==
    ASSUME ShutTypeOK, ActiveRun, startNow
    PROVE  direct' \in [Jobs -> {"new", "running", "over"}] /\ ActiveRun'
<1>1. CASE UNCHANGED <<direct, active>>
  BY <1>1, Zenon DEF ShutTypeOK, ActiveRun
<1>2. ASSUME NEW j \in Jobs, direct' = [direct EXCEPT ![j] = "running"], active' = active \cup {j}
      PROVE  direct' \in [Jobs -> {"new", "running", "over"}] /\ ActiveRun'
  BY <1>2, Zenon DEF ShutTypeOK, ActiveRun
<1> QED
  BY <1>1, <1>2, Zenon DEF startNow

\* The invariant at the start.
LEMMA ShutInitInv == ShutInit => EInv
BY Zenon DEF ShutInit, EInv, ShutTypeOK, ActiveRun, LoopGone, Settled

\* Each step of the loop, of a request, of a job and of main keeps it.
LEMMA ShutNextInv == EInv /\ [ShutNext]_shutVars => EInv'
<1> SUFFICES ASSUME EInv, [ShutNext]_shutVars PROVE EInv'
  BY Zenon
<1>1. ShutTypeOK /\ ActiveRun /\ LoopGone /\ Settled
  BY Zenon DEF EInv
<1>2. ASSUME JitterOver \/ LoopStops PROVE EInv'
  <2>1. UNCHANGED <<main, http, direct, active, canceled, pending, expired, unsaved>>
        /\ loop # "stopped" /\ loop' \in {"startup", "ticker", "stopped"} /\ (loop' # "stopped" => loop = "jitter")
    BY <1>2, Zenon DEF JitterOver, LoopStops, LoopTo
  <2> QED
    BY <1>1, <2>1, Zenon DEF EInv, ShutTypeOK, ActiveRun, LoopGone, Settled
<1>3. ASSUME Fire PROVE EInv'
  <2>1. /\ startNow /\ loop \in {"startup", "ticker"} /\ loop' = "ticker"
        /\ UNCHANGED <<main, http, canceled, pending, expired, unsaved>>
    BY <1>3, Zenon DEF Fire, LoopTo
  <2>2. main \in {"serve", "scheduler"}
    BY <1>1, <2>1, Zenon DEF LoopGone
  <2>3. direct' \in [Jobs -> {"new", "running", "over"}] /\ ActiveRun'
    BY <1>1, <2>1, StartKeeps, Zenon
  <2> QED
    BY <1>1, <2>1, <2>2, <2>3, Zenon DEF EInv, ShutTypeOK, LoopGone, Settled
<1>4. ASSUME NEW h \in Handlers, Request(h) PROVE EInv'
  BY <1>1, <1>4, Zenon DEF Request, EInv, ShutTypeOK, ActiveRun, LoopGone, Settled
<1>5. ASSUME NEW h \in Handlers, startJob(h) PROVE EInv'
  <2>1. /\ startNow /\ http[h] = "call" /\ http' = [http EXCEPT ![h] = "idle"]
        /\ UNCHANGED <<main, loop, canceled, pending, expired, unsaved>>
    BY <1>5, Zenon DEF startJob
  <2>2. expired \/ main \in {"serve", "scheduler", "http"}
    BY <1>1, <2>1, Zenon DEF Settled, ShutTypeOK
  <2>3. direct' \in [Jobs -> {"new", "running", "over"}] /\ ActiveRun'
    BY <1>1, <2>1, StartKeeps, Zenon
  <2> QED
    BY <1>1, <2>1, <2>2, <2>3, Zenon DEF EInv, ShutTypeOK, LoopGone, Settled
<1>6. ASSUME NEW j \in Jobs, WriteStore(j) PROVE EInv'
  BY <1>1, <1>6, Zenon DEF WriteStore, EInv, ShutTypeOK, ActiveRun, LoopGone, Settled
<1>7. ASSUME NEW j \in Jobs, Finish(j) PROVE EInv'
  <2>1. ActiveRun' /\ direct' \in [Jobs -> {"new", "running", "over"}]
    BY <1>1, <1>7, Zenon DEF Finish, ShutTypeOK, ActiveRun
  <2>2. active' \subseteq active /\ UNCHANGED <<main, loop, http, canceled, pending, expired, unsaved>>
    BY <1>7, Zenon DEF Finish
  <2> QED
    BY <1>1, <2>1, <2>2, Zenon DEF EInv, ShutTypeOK, LoopGone, Settled
<1>8. ASSUME Signal \/ StopScheduler \/ ShutdownHTTP PROVE EInv'
  <2>1. UNCHANGED <<loop, http, direct, active, canceled, pending, expired, unsaved>>
        /\ main' \in {"scheduler", "http", "cancel"}
        /\ (main' = "http" => loop = "stopped")
        /\ (main' = "cancel" => main = "http" /\ (expired \/ \A h \in Handlers : http[h] = "idle"))
    BY <1>8, Zenon DEF Signal, StopScheduler, ShutdownHTTP, MainTo
  <2> QED
    BY <1>1, <2>1, Zenon DEF EInv, ShutTypeOK, ActiveRun, LoopGone, Settled
<1>9. ASSUME CancelJob \/ Snapshot PROVE EInv'
  BY <1>1, <1>9, Zenon DEF CancelJob, Snapshot, MainTo, EInv, ShutTypeOK, ActiveRun, LoopGone, Settled
<1>10. ASSUME WaitForJob \/ Flush PROVE EInv'
  <2>1. CASE WaitForJob
    BY <1>1, <2>1, Zenon DEF WaitForJob, MainTo, EInv, ShutTypeOK, ActiveRun, LoopGone, Settled
  <2>2. CASE Flush
    BY <1>1, <2>2, Zenon DEF Flush, MainTo, EInv, ShutTypeOK, ActiveRun, LoopGone, Settled
  <2> QED
    BY <1>10, <2>1, <2>2, Zenon
<1>11. ASSUME Expire PROVE EInv'
  BY <1>1, <1>11, Zenon DEF Expire, EInv, ShutTypeOK, ActiveRun, LoopGone, Settled
<1>12. ASSUME UNCHANGED shutVars PROVE EInv'
  BY <1>1, <1>12, Zenon DEF shutVars, EInv, ShutTypeOK, ActiveRun, LoopGone, Settled
<1> QED
  BY <1>2, <1>3, <1>4, <1>5, <1>6, <1>7, <1>8, <1>9, <1>10, <1>11, <1>12, Zenon DEF ShutNext, Gone

\* A shutdown within its time waits only for jobs it canceled and ends with the node
\* store saved and without a job, a request or the loop left (main, Scheduler.Stop,
\* CancelJob, WaitForJob), whatever the jobs and requests do meanwhile.
THEOREM ExitIsClean == ShutSpec => []CleanExit
<1>1. EInv => CleanExit
  BY Zenon DEF EInv, ShutTypeOK, LoopGone, Settled, CleanExit
<1> QED
  BY <1>1, ShutInitInv, ShutNextInv, PTL DEF ShutSpec
=============================================================================
