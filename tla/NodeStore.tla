------------------------------ MODULE NodeStore -----------------------------
(***************************************************************************)
(* The nodes and where they live: the map that every process keeps in      *)
(* memory (internal/store), its snapshot file, and the table "nodes" that  *)
(* all processes share (internal/db/nodes.go).  A slot is a goroutine that *)
(* runs job phases, one after another; processes may have several.  A      *)
(* phase works on clones it took from the map, then writes them back to    *)
(* the map under its lock and to the table in further transactions.        *)
(*                                                                         *)
(* Of a node the model keeps what a write can lose: where it was found,    *)
(* when it was last seen and tested (0: never), whether its country is     *)
(* known, and how many tests in a row it failed.  Go maps are functions.   *)
(***************************************************************************)
EXTENDS Naturals, FiniteSets

CONSTANTS Nodes, Sources,
          Offers,      \* Offers[s]: the nodes source s may list
          Procs, Slots,
          Home,        \* Home[j]: the process of slot j
          Persistent,  \* processes with a snapshot file (store.New; cmd/server)
          DropAfter,   \* failed tests after which Prune drops a node (3)
          MaxNodes,    \* Filter.MaxStoreNodes, positive
          MaxClock     \* bound on the number of fetches and tests

ASSUME StoreAssumption ==
    /\ IsFiniteSet(Nodes) /\ IsFiniteSet(Sources) /\ Offers \in [Sources -> SUBSET Nodes]
    /\ Home \in [Slots -> Procs] /\ Persistent \subseteq Procs
    /\ DropAfter \in Nat \ {0} /\ MaxNodes \in Nat \ {0} /\ MaxClock \in Nat

VARIABLES hot,     \* hot[p]: Store.nodes of process p
          snap,    \* snap[p]: the nodes in snapshot.json of p
          table,   \* the nodes table
          pc,      \* where the phase of each slot is
          batch,   \* the nodes the phase works on
          stale,   \* the ids that db.ReplaceNodes is about to delete
          now,     \* counts fetches and tests
          synced   \* since the table was last replaced no phase was cut short and
                   \* no start left rows out

slotVars == <<pc, batch, stale>>
vars == <<hot, snap, table, slotVars, now, synced>>

Record == [src : Sources, seen : 0..MaxClock, tested : 0..MaxClock,
           geo : BOOLEAN, fails : 0..DropAfter]
NodeMap == UNION {[D -> Record] : D \in SUBSET Nodes}
Empty == [n \in {} |-> n]

Only(f, D) == [n \in DOMAIN f \cap D |-> f[n]]
\* g written over f.
Over(f, g) == [n \in DOMAIN f \cup DOMAIN g |-> IF n \in DOMAIN g THEN g[n] ELSE f[n]]

TypeOK == /\ hot \in [Procs -> NodeMap] /\ snap \in [Procs -> NodeMap] /\ table \in NodeMap
          /\ pc \in [Slots -> {"idle", "replace", "upsert", "save", "saveAll", "savePrune",
                               "prune", "readAll", "select", "delete"}]
          /\ batch \in [Slots -> NodeMap] /\ stale \in [Slots -> SUBSET Nodes]
          /\ now \in 0..MaxClock /\ synced \in BOOLEAN
          /\ \A j \in Slots : stale[j] \cap DOMAIN batch[j] = {}

Init == /\ hot = [p \in Procs |-> Empty] /\ snap = [p \in Procs |-> Empty]
        /\ table = Empty
        /\ pc = [j \in Slots |-> "idle"]
        /\ batch = [j \in Slots |-> Empty] /\ stale = [j \in Slots |-> {}]
        /\ now = 0 /\ synced = TRUE

Goto(j, to) == pc' = [pc EXCEPT ![j] = to]

\* The phase is over; what it worked on is forgotten.
Done(j) == /\ Goto(j, "idle")
           /\ batch' = [batch EXCEPT ![j] = Empty]
           /\ stale' = [stale EXCEPT ![j] = {}]
-----------------------------------------------------------------------------
(* What the phases write.                                                  *)

Fresh(s) == [src |-> s, seen |-> now + 1, tested |-> 0, geo |-> FALSE, fails |-> 0]

\* doFetch up to Clean: of the enabled sources some answer, with at least one node
\* each, and the nodes of those that failed are carried over as they are.  Of several
\* copies of a node Clean keeps any one (it compares metadata and source priority).
FetchAll(j) ==
    LET mine == hot[Home[j]] IN
    /\ pc[j] = "idle" /\ now < MaxClock
    /\ \E ok \in SUBSET Sources \ {{}} : \E failed \in SUBSET (Sources \ ok) :
       \E got \in [ok -> SUBSET Nodes \ {{}}] :
          /\ \A s \in ok : got[s] \subseteq Offers[s]
          /\ LET carried == {n \in DOMAIN mine : mine[n].src \in failed}
                 copies(n) == {Fresh(s) : s \in {u \in ok : n \in got[u]}}
                                \cup (IF n \in carried THEN {mine[n]} ELSE {})
                 all == carried \cup UNION {got[s] : s \in ok}
             IN \E clean \in [all -> UNION {copies(n) : n \in all}] :
                   /\ \A n \in all : clean[n] \in copies(n)
                   /\ batch' = [batch EXCEPT ![j] = clean]
    /\ now' = now + 1
    /\ Goto(j, "replace")
    /\ UNCHANGED <<hot, snap, table, stale, synced>>

\* doQuality up to its write: some of the nodes are due and tested.
TestAll(j) ==
    LET mine == hot[Home[j]] IN
    /\ pc[j] = "idle" /\ now < MaxClock
    /\ \E due \in SUBSET DOMAIN mine \ {{}} : \E alive \in SUBSET due :
          batch' = [batch EXCEPT ![j] = [n \in due |->
             [mine[n] EXCEPT !.tested = now + 1,
                             !.fails = IF n \in alive THEN 0
                                       ELSE IF @ < DropAfter THEN @ + 1 ELSE @]]]
    /\ now' = now + 1
    /\ Goto(j, "upsert")
    /\ UNCHANGED <<hot, snap, table, stale, synced>>

\* doGeo, and as far as these fields go doAI, doDial and doPurity, up to the write.
AnnotateNodes(j) ==
    LET mine == hot[Home[j]] IN
    /\ pc[j] = "idle"
    /\ \E some \in SUBSET DOMAIN mine \ {{}} : \E found \in SUBSET some :
          batch' = [batch EXCEPT ![j] = [n \in some |->
             [mine[n] EXCEPT !.geo = @ \/ n \in found]]]
    /\ Goto(j, "upsert")
    /\ UNCHANGED <<hot, snap, table, stale, now, synced>>
-----------------------------------------------------------------------------
(* The map and its snapshot.                                               *)

\* persistLocked, by an atomic rename; a process without snapshot has nothing to
\* do, and another one may fail, which ends the phase.
Persisted(p) == snap' = IF p \in Persistent THEN [snap EXCEPT ![p] = hot'[p]] ELSE snap
PersistError(j) == /\ Home[j] \in Persistent /\ Done(j)
                   /\ synced' = FALSE /\ UNCHANGED snap

KeepNothing(new, old) == new   \* mutant
\* mergeObservations
MergeObservations(new, old) ==
    [new EXCEPT !.tested = IF @ = 0 THEN old.tested ELSE @,
                !.fails = IF new.tested = 0 THEN old.fails ELSE @,
                !.geo = @ \/ old.geo]

Merged(new, old) ==
    [n \in DOMAIN new |-> IF n \in DOMAIN old THEN MergeObservations(new[n], old[n]) ELSE new[n]]

\* Store.ReplaceNodes; the nodes of the caller are merged in place.
ReplaceNodes(j) ==
    LET p == Home[j]  nodes == Merged(batch[j], hot[p]) IN
    /\ pc[j] = "replace"
    /\ hot' = [hot EXCEPT ![p] = nodes]
    /\ \/ /\ Persisted(p) /\ Goto(j, "saveAll")
          /\ batch' = [batch EXCEPT ![j] = nodes]
          /\ UNCHANGED <<stale, synced>>
       \/ PersistError(j)
    /\ UNCHANGED <<table, now>>

\* Store.UpsertNodes, a node that is in the map: an unknown country erases nothing.
Update(old, new) == [new EXCEPT !.src = old.src, !.geo = @ \/ old.geo]

\* Store.UpsertNodes; the nodes of the caller stay as they are.
UpsertNodes(j) ==
    LET p == Home[j]  mine == hot[p]  b == batch[j]
        nodes == [n \in DOMAIN b |-> IF n \in DOMAIN mine THEN Update(mine[n], b[n]) ELSE b[n]]
    IN  /\ pc[j] = "upsert"
        /\ hot' = [hot EXCEPT ![p] = Over(mine, nodes)]
        /\ \/ /\ Persisted(p)
              /\ Goto(j, "save") \/ Goto(j, "savePrune")
              /\ UNCHANGED <<batch, stale, synced>>
           \/ PersistError(j)
        /\ UNCHANGED <<table, now>>

Alive(r) == r.tested > 0 /\ r.fails = 0
Dropped(r) == r.tested > 0 /\ r.fails >= DropAfter

\* Store.Prune after quality: dead nodes go, and of the rest the best MaxNodes stay.
Prune(j) ==
    LET p == Home[j]  mine == hot[p]
        kept == {n \in DOMAIN mine : ~Dropped(mine[n])}
    IN  /\ pc[j] = "prune"
        /\ \E top \in SUBSET kept :
              /\ Cardinality(top) = IF Cardinality(kept) > MaxNodes THEN MaxNodes ELSE Cardinality(kept)
              /\ \A n \in top, m \in kept \ top : Alive(mine[m]) => Alive(mine[n])
              /\ hot' = [hot EXCEPT ![p] = Only(mine, top)]
        /\ \/ /\ Persisted(p) /\ Goto(j, "readAll")
              /\ UNCHANGED <<batch, stale, synced>>
           \/ PersistError(j)
        /\ UNCHANGED <<table, now>>

\* doQuality takes AllNodes once more, for db.ReplaceNodes.
ReadAll(j) ==
    /\ pc[j] = "readAll"
    /\ batch' = [batch EXCEPT ![j] = hot[Home[j]]]
    /\ Goto(j, "saveAll")
    /\ UNCHANGED <<hot, snap, table, stale, now, synced>>
-----------------------------------------------------------------------------
(* The table.                                                              *)

\* SaveNodes: one transaction, whole rows.
SavedOnce(j) == table' = Over(batch[j], table)   \* mutant
Saved(j) == table' = Over(table, batch[j])

\* upsertNodes, its SaveNodes; a quality phase may go on to prune.
SaveNodes(j) ==
    /\ \/ pc[j] = "save" /\ Done(j)
       \/ pc[j] = "savePrune" /\ Goto(j, "prune") /\ UNCHANGED <<batch, stale>>
    /\ Saved(j)
    /\ UNCHANGED <<hot, snap, now, synced>>

\* db.ReplaceNodes, its SaveNodes.
SaveAll(j) ==
    /\ pc[j] = "saveAll"
    /\ Saved(j) /\ Goto(j, "select")
    /\ UNCHANGED <<hot, snap, batch, stale, now, synced>>

StaleNone(j) == {}   \* mutant
\* db.ReplaceNodes: SELECT id, without those to keep.
Stale(j) == DOMAIN table \ DOMAIN batch[j]

SelectStale(j) ==
    /\ pc[j] = "select"
    /\ IF Stale(j) = {}
       THEN Done(j) /\ synced' = TRUE
       ELSE /\ Goto(j, "delete")
            /\ stale' = [stale EXCEPT ![j] = Stale(j)]
            /\ UNCHANGED <<batch, synced>>
    /\ UNCHANGED <<hot, snap, table, now>>

DeleteStale(j) ==
    /\ pc[j] = "delete"
    /\ table' = Only(table, DOMAIN table \ stale[j])
    /\ Done(j) /\ synced' = TRUE
    /\ UNCHANGED <<hot, snap, now>>

\* A statement fails: the phase ends and reports the error.
StatementError(j) ==
    /\ pc[j] \in {"save", "savePrune", "saveAll", "select", "delete"}
    /\ Done(j) /\ synced' = FALSE
    /\ UNCHANGED <<hot, snap, table, now>>

\* LoadNodes: the most recently seen rows, at most MaxNodes.
Loadable(D) ==
    /\ IF Cardinality(DOMAIN table) <= MaxNodes THEN D = DOMAIN table
       ELSE Cardinality(D) = MaxNodes
    /\ \A n \in D, m \in DOMAIN table \ D : table[n].seen >= table[m].seen

\* The snapshot that New reads; a process without one starts empty.
Load(p) == snap[p]

\* The map after a start: the snapshot, unless the table has rows; those are
\* merged with it.
Restored(p, D) == IF D = {} THEN Load(p) ELSE Merged(Only(table, D), Load(p))

\* The process ends, at any point, and starts again (New, NewWithOptions); a LoadNodes
\* that fails leaves it with its snapshot.
Restart(p) ==
    LET mine == {j \in Slots : Home[j] = p}
        whole == /\ synced /\ \A j \in mine : pc[j] = "idle"
                 /\ Cardinality(DOMAIN table) <= MaxNodes
    IN
    /\ \/ /\ \E D \in SUBSET DOMAIN table :
                Loadable(D) /\ hot' = [hot EXCEPT ![p] = Restored(p, D)]
          /\ synced' = whole
       \/ /\ hot' = [hot EXCEPT ![p] = Load(p)]
          /\ synced' = (whole /\ p \in Persistent)
    /\ Persisted(p)
    /\ pc' = [j \in Slots |-> IF j \in mine THEN "idle" ELSE pc[j]]
    /\ batch' = [j \in Slots |-> IF j \in mine THEN Empty ELSE batch[j]]
    /\ stale' = [j \in Slots |-> IF j \in mine THEN {} ELSE stale[j]]
    /\ UNCHANGED <<table, now>>
-----------------------------------------------------------------------------
SlotStep(j) == \/ FetchAll(j) \/ TestAll(j) \/ AnnotateNodes(j)
               \/ ReplaceNodes(j) \/ UpsertNodes(j) \/ Prune(j) \/ ReadAll(j)
               \/ SaveNodes(j) \/ SaveAll(j) \/ SelectStale(j) \/ DeleteStale(j)
               \/ StatementError(j)

Next == \/ \E j \in Slots : SlotStep(j)
        \/ \E p \in Procs : Restart(p)

Spec == Init /\ [][Next]_vars
-----------------------------------------------------------------------------
AtRest == \A j \in Slots : pc[j] = "idle"

\* With one process that runs one job at a time, the table holds exactly the nodes
\* and observations of the map whenever no job runs, however many phases wrote
\* to each; a phase that failed or was killed half way can part them only until the
\* next fetch or pruning, which db.ReplaceNodes ends with the two equal again.  (A
\* start that finds more than MaxNodes rows leaves some out, with the same remedy.)
TableIsMap == AtRest /\ synced => \A p \in Procs : table = hot[p]

\* A process with a snapshot restarted between two jobs comes back with the nodes it
\* had, even when it cannot read the table, as long as they are no more than
\* LoadNodes returns.
RestartHarmless ==
    [][\A p \in Procs :
          Restart(p) /\ p \in Persistent /\ AtRest /\ synced /\ Cardinality(DOMAIN table) <= MaxNodes
             => hot'[p] = hot[p]]_vars

\* In a process that runs one job at a time, a node that stays keeps what is known of
\* it: no fetch and no other phase sets back when it was seen or tested, or forgets
\* its country, although each writes clones taken long before.
ObservationsKept ==
    [][\A p \in Procs : ~Restart(p) =>
          \A n \in DOMAIN hot[p] \cap DOMAIN hot'[p] :
             /\ hot'[p][n].seen >= hot[p][n].seen
             /\ hot'[p][n].tested >= hot[p][n].tested
             /\ hot[p][n].geo => hot'[p][n].geo]_vars
=============================================================================
