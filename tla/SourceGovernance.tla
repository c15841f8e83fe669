-------------------------- MODULE SourceGovernance --------------------------
(***************************************************************************)
(* Which sources are fetched: the failures in a row of every source, the   *)
(* cool-down they lead to, and the switch of the operator, as each process *)
(* has them in memory (Service.sources) and as the table source_states has *)
(* them.  Fetches (doFetch, in any process) and requests to the API        *)
(* (ProbeSource, SetSourceEnabled) run concurrently.  The map is changed   *)
(* under its lock, the row in a statement of its own: after the map when a *)
(* fetch is recorded, before it when a source is switched.                 *)
(*                                                                         *)
(* Counters, latencies, contributions and the health score decide nothing  *)
(* and are left out.  Failures are counted up to DisableAfter, the only    *)
(* value they are compared with.  DisabledUntil is the hours left; an      *)
(* empty one and one in the past are both 0.                               *)
(***************************************************************************)
EXTENDS Naturals

CONSTANTS Sources,       \* the sources enabled in the configuration
          Procs, Api,    \* the processes; the one that serves requests
          Fetchers,      \* goroutines that run doFetch
          Home,          \* Home[f]: the process of fetcher f
          Requests,      \* concurrent requests to the API
          DisableAfter,  \* Governance.DisableAfterFailures
          Cooldown       \* Governance.CooldownHours

ASSUME GovernanceAssumption ==
    /\ Api \in Procs /\ Home \in [Fetchers -> Procs] /\ Fetchers \cap Requests = {}
    /\ DisableAfter \in Nat \ {0} /\ Cooldown \in Nat \ {0}

VARIABLES mem,     \* mem[p][s]: Service.sources of process p
          row,     \* row[s]: table source_states
          pc,      \* where each fetcher and request is
          todo,    \* documents that a fetcher has not yet recorded
          got,     \* sources whose document gave nodes, in the fetch under way
          failed,  \* sources that failed in it
          pend,    \* the write that is still to follow
          held,    \* held[p]: sources with nodes in the node map of p
          saved,   \* sources with nodes in the table of nodes
          streak,  \* history: failures in a row of a source, over all processes
          doubt    \* history: 1 when the row of a source may lag behind the map,
                   \* 2 when a process started from such a row or from none

fetchVars == <<todo, got, failed>>
nodeVars == <<held, saved>>
vars == <<mem, row, pc, fetchVars, pend, nodeVars, streak, doubt>>

Actors == Fetchers \cup Requests
ProcOf(a) == IF a \in Fetchers THEN Home[a] ELSE Api

State == [fails : 0..DisableAfter, until : 0..Cooldown, manual : BOOLEAN]
Initially == [fails |-> 0, until |-> 0, manual |-> FALSE]
Nothing == [src |-> "none"]
Records == [src : Sources, ok : BOOLEAN, state : State]
Switches == [src : Sources, enabled : BOOLEAN]

TypeOK == /\ mem \in [Procs -> [Sources -> State]] /\ row \in [Sources -> State]
          /\ pc \in [Actors -> {"idle", "fetch", "record", "write", "switch"}]
          /\ todo \in [Fetchers -> SUBSET Sources] /\ got \in [Fetchers -> SUBSET Sources]
          /\ failed \in [Fetchers -> SUBSET Sources]
          /\ \A a \in Actors : pend[a] \in CASE pc[a] = "write"  -> Records
                                             [] pc[a] = "switch" -> Switches
                                             [] OTHER -> {Nothing}
          /\ held \in [Procs -> SUBSET Sources] /\ saved \in SUBSET Sources
          /\ streak \in [Sources -> 0..DisableAfter] /\ doubt \in [Sources -> 0..2]

Init == /\ mem = [p \in Procs |-> [s \in Sources |-> Initially]]
        /\ row = [s \in Sources |-> Initially]
        /\ pc = [a \in Actors |-> "idle"] /\ pend = [a \in Actors |-> Nothing]
        /\ todo = [f \in Fetchers |-> {}] /\ got = todo /\ failed = todo
        /\ held = [p \in Procs |-> {}] /\ saved = {}
        /\ streak = [s \in Sources |-> 0] /\ doubt = [s \in Sources |-> 0]

\* A write to the map or the row of s whose counterpart is still to come.
InFlight(s) == \E a \in Actors : pc[a] \in {"write", "switch"} /\ pend[a].src = s
Doubtful(s) == doubt' = [doubt EXCEPT ![s] = IF @ = 0 THEN 1 ELSE @]
Overlap(s) == IF InFlight(s) THEN Doubtful(s) ELSE UNCHANGED doubt
-----------------------------------------------------------------------------
(* recordSource.                                                           *)

OneMore(n) == IF n < DisableAfter THEN n + 1 ELSE n

Cooled(st) == [st EXCEPT !.until = Cooldown]

ObservedStill(st, ok) ==   \* mutant
    IF ok THEN [st EXCEPT !.until = 0]
    ELSE LET n == OneMore(st.fails)  next == [st EXCEPT !.fails = n]
         IN  IF n >= DisableAfter THEN Cooled(next) ELSE next
\* The state after a fetch that gave nodes, or not.
Observed(st, ok) ==
    IF ok THEN [st EXCEPT !.fails = 0, !.until = 0]
    ELSE LET n == OneMore(st.fails)  next == [st EXCEPT !.fails = n]
         IN  IF n >= DisableAfter THEN Cooled(next) ELSE next

\* Under the lock of the map.
RecordSource(a, s, ok) ==
    LET p == ProcOf(a)  next == Observed(mem[p][s], ok) IN
    /\ mem' = [mem EXCEPT ![p][s] = next]
    /\ pc' = [pc EXCEPT ![a] = "write"]
    /\ pend' = [pend EXCEPT ![a] = [src |-> s, ok |-> ok, state |-> next]]
    /\ streak' = [streak EXCEPT ![s] = IF ok THEN 0 ELSE OneMore(@)]
    /\ Overlap(s)

RowEnabled(st, w) ==   \* mutant
    [w.state EXCEPT !.fails = IF w.ok THEN 0 ELSE OneMore(st.fails), !.manual = FALSE]
\* RecordSourceFetch: the failures are counted in the row, the rest is copied.
RowRecorded(st, w) == [w.state EXCEPT !.fails = IF w.ok THEN 0 ELSE OneMore(st.fails)]

\* A fetcher goes on with its next document.
Resume(a) == /\ pc' = [pc EXCEPT ![a] = IF a \in Fetchers THEN "record" ELSE "idle"]
             /\ pend' = [pend EXCEPT ![a] = Nothing]

RecordSourceFetch(a) ==
    LET w == pend[a] IN
    /\ pc[a] = "write"
    /\ row' = [row EXCEPT ![w.src] = RowRecorded(@, w)]
    /\ Resume(a)
    /\ UNCHANGED <<mem, fetchVars, nodeVars, streak, doubt>>

\* The error of the statement is only logged.
RecordSourceError(a) ==
    /\ pc[a] = "write"
    /\ Doubtful(pend[a].src)
    /\ Resume(a)
    /\ UNCHANGED <<mem, row, fetchVars, nodeVars, streak>>
-----------------------------------------------------------------------------
(* doFetch.                                                                *)

Enabled(st) == ~st.manual /\ st.until = 0
EnabledSources(p) == {s \in Sources : Enabled(mem[p][s])}

StartFetch(f) ==
    /\ pc[f] = "idle"
    /\ EnabledSources(Home[f]) # {}
    /\ todo' = [todo EXCEPT ![f] = EnabledSources(Home[f])]
    /\ pc' = [pc EXCEPT ![f] = "fetch"]
    /\ UNCHANGED <<mem, row, got, failed, pend, nodeVars, streak, doubt>>

\* FetchAll returns; when the job was canceled meanwhile nothing is recorded.
FetchAll(f) ==
    /\ pc[f] = "fetch"
    /\ \/ pc' = [pc EXCEPT ![f] = "record"] /\ UNCHANGED todo
       \/ pc' = [pc EXCEPT ![f] = "idle"] /\ todo' = [todo EXCEPT ![f] = {}]
    /\ UNCHANGED <<mem, row, got, failed, pend, nodeVars, streak, doubt>>

RecordDocument(f) ==
    /\ pc[f] = "record"
    /\ \E s \in todo[f] :
          /\ todo' = [todo EXCEPT ![f] = @ \ {s}]
          /\ \/ /\ RecordSource(f, s, TRUE)
                /\ got' = [got EXCEPT ![f] = @ \cup {s}] /\ UNCHANGED failed
             \/ /\ RecordSource(f, s, FALSE)
                /\ failed' = [failed EXCEPT ![f] = @ \cup {s}] /\ UNCHANGED got
    /\ UNCHANGED <<row, nodeVars>>

\* The nodes of the sources that failed are carried over; when all failed nothing
\* is replaced.  (NodeStore has the steps of replaceNodes.)
ReplaceNodes(f) ==
    LET p == Home[f]  sources == got[f] \cup (held[p] \cap failed[f]) IN
    /\ pc[f] = "record" /\ todo[f] = {}
    /\ IF got[f] = {} THEN UNCHANGED nodeVars
       ELSE held' = [held EXCEPT ![p] = sources] /\ saved' = sources
    /\ pc' = [pc EXCEPT ![f] = "idle"]
    /\ got' = [got EXCEPT ![f] = {}] /\ failed' = [failed EXCEPT ![f] = {}]
    /\ UNCHANGED <<mem, row, todo, pend, streak, doubt>>
-----------------------------------------------------------------------------
(* Requests.                                                               *)

\* ProbeSource fetches one source, enabled or not.
ProbeSource(r) ==
    /\ pc[r] = "idle"
    /\ \E s \in Sources, ok \in BOOLEAN : RecordSource(r, s, ok)
    /\ UNCHANGED <<row, fetchVars, nodeVars>>

\* SetSourceEnabled: the row first, which loses its cool-down either way, ...
SwitchRow(r) ==
    /\ pc[r] = "idle"
    /\ \E s \in Sources, enabled \in BOOLEAN :
          /\ row' = [row EXCEPT ![s].manual = ~enabled, ![s].until = 0]
          /\ pend' = [pend EXCEPT ![r] = [src |-> s, enabled |-> enabled]]
          /\ Overlap(s)
    /\ pc' = [pc EXCEPT ![r] = "switch"]
    /\ UNCHANGED <<mem, fetchVars, nodeVars, streak>>

\* ... and then the map, which keeps it when the source is switched off.
SwitchMap(r) ==
    LET w == pend[r] IN
    /\ pc[r] = "switch"
    /\ mem' = [mem EXCEPT ![Api][w.src].manual = ~w.enabled,
                         ![Api][w.src].until = IF w.enabled THEN 0 ELSE @]
    /\ Resume(r)
    /\ UNCHANGED <<row, fetchVars, nodeVars, streak, doubt>>

\* A process ends, at any point, and starts again from the table, or with nothing known
\* of its sources when the table cannot be read.
Restart(p) ==
    LET mine == {a \in Actors : ProcOf(a) = p}
        lost == {pend[a].src : a \in {b \in mine : pc[b] \in {"write", "switch"}}}
    IN
    /\ \/ /\ mem' = [mem EXCEPT ![p] = row]
          /\ doubt' = [s \in Sources |-> IF doubt[s] > 0 \/ s \in lost THEN 2 ELSE 0]
       \/ /\ mem' = [mem EXCEPT ![p] = [s \in Sources |-> Initially]]
          /\ doubt' = [s \in Sources |-> 2]
    /\ held' = [held EXCEPT ![p] = saved]
    /\ pc' = [a \in Actors |-> IF a \in mine THEN "idle" ELSE pc[a]]
    /\ pend' = [a \in Actors |-> IF a \in mine THEN Nothing ELSE pend[a]]
    /\ todo' = [f \in Fetchers |-> IF f \in mine THEN {} ELSE todo[f]]
    /\ got' = [f \in Fetchers |-> IF f \in mine THEN {} ELSE got[f]]
    /\ failed' = [f \in Fetchers |-> IF f \in mine THEN {} ELSE failed[f]]
    /\ UNCHANGED <<row, saved, streak>>

\* An hour passes.
Tick ==
    LET later(st) == [st EXCEPT !.until = IF @ > 0 THEN @ - 1 ELSE 0] IN
    /\ mem' = [p \in Procs |-> [s \in Sources |-> later(mem[p][s])]]
    /\ row' = [s \in Sources |-> later(row[s])]
    /\ pend' = [a \in Actors |-> IF pc[a] = "write" THEN [pend[a] EXCEPT !.state = later(@)]
                                 ELSE pend[a]]
    /\ UNCHANGED <<pc, fetchVars, nodeVars, streak, doubt>>

Next == \/ \E a \in Actors : RecordSourceFetch(a) \/ RecordSourceError(a)
        \/ \E f \in Fetchers : StartFetch(f) \/ FetchAll(f) \/ RecordDocument(f) \/ ReplaceNodes(f)
        \/ \E r \in Requests : ProbeSource(r) \/ SwitchRow(r) \/ SwitchMap(r)
        \/ \E p \in Procs : Restart(p)
        \/ Tick

Spec == Init /\ [][Next]_vars
-----------------------------------------------------------------------------
\* With one process the row of a source says what the map says, failures, switch and
\* cool-down, once their writes are through, unless two writes of the source
\* overlapped or one failed.  (A source that is switched off keeps its cool-down in
\* the map only, where the switch hides it.)
RowIsMap ==
    \A s \in Sources : doubt[s] = 0 /\ ~InFlight(s) =>
       LET m == mem[Api][s]  r == row[s] IN
       /\ m.fails = r.fails /\ m.manual = r.manual
       /\ ~m.manual => m.until = r.until

\* With one process a source enters cool-down only when its last DisableAfter
\* fetches and probes, however they overlapped, all failed.  (A restart from a row
\* that lost a success may count wrong, and several processes do: each counts the
\* failures that it saw itself.)
CooldownEarned ==
    [][\A p \in Procs, s \in Sources :
          doubt'[s] < 2 /\ mem[p][s].until < mem'[p][s].until => streak'[s] = DisableAfter]_vars

\* config.yaml: "失败源沿用上次结果" (a failed source keeps its last results).  It does in
\* the fetches in which it fails; the first one in its cool-down drops its nodes.
FailedKeepsNodes ==
    [][\A f \in Fetchers : ReplaceNodes(f) =>
          \A s \in held[Home[f]] \ held'[Home[f]] :
             mem[Home[f]][s].manual \/ mem[Home[f]][s].fails = 0]_vars
=============================================================================
