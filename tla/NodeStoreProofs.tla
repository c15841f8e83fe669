--------------------------- MODULE NodeStoreProofs ---------------------------
(***************************************************************************)
(* The nodes of the map, the snapshot and the table, for any nodes,        *)
(* sources and caps.  A phase works on clones; what makes its writes       *)
(* harmless is that nobody else writes the map of its process meanwhile.   *)
(* So the first result is about processes that run one job at a time, any  *)
(* number of them; the others, about the table that they would share, are  *)
(* about a single process.                                                 *)
(***************************************************************************)
EXTENDS NodeStore, TLAPS

-----------------------------------------------------------------------------
(* Maps of nodes.                                                          *)

UpTo(f, k) == \A n \in DOMAIN f : f[n].seen <= k /\ f[n].tested <= k

\* A map has some nodes and a record for each.
LEMMA Maps ==
    \A f : f \in NodeMap <=> DOMAIN f \subseteq Nodes /\ f \in [DOMAIN f -> Record]
BY Zenon DEF NodeMap

\* The map without nodes.
LEMMA EmptyMap == Empty \in NodeMap /\ DOMAIN Empty = {} /\ \A k : UpTo(Empty, k)
BY Maps, Zenon DEF Empty, UpTo

\* Two maps with the same nodes and observations are the same map.
LEMMA SameMap ==
    ASSUME NEW f \in NodeMap, NEW g \in NodeMap, DOMAIN f = DOMAIN g,
           \A n \in DOMAIN f : f[n] = g[n]
    PROVE  f = g
BY Maps

\* A map written over another one.
LEMMA OverMap ==
    ASSUME NEW f \in NodeMap, NEW g \in NodeMap
    PROVE  /\ Over(f, g) \in NodeMap /\ DOMAIN Over(f, g) = DOMAIN f \cup DOMAIN g
           /\ \A n \in DOMAIN g : Over(f, g)[n] = g[n]
           /\ \A n \in DOMAIN f \ DOMAIN g : Over(f, g)[n] = f[n]
           /\ \A k : UpTo(f, k) /\ UpTo(g, k) => UpTo(Over(f, g), k)
<1>1. /\ DOMAIN Over(f, g) = DOMAIN f \cup DOMAIN g
      /\ \A n \in DOMAIN g : Over(f, g)[n] = g[n]
      /\ \A n \in DOMAIN f \ DOMAIN g : Over(f, g)[n] = f[n]
  BY Zenon DEF Over
<1>2. Over(f, g) \in [DOMAIN f \cup DOMAIN g -> Record]
  BY Maps, Zenon DEF Over
<1> QED
  BY <1>1, <1>2, Maps, Zenon DEF UpTo

\* A part of a map.
LEMMA OnlyMap ==
    ASSUME NEW f \in NodeMap, NEW D \in SUBSET DOMAIN f
    PROVE  /\ Only(f, D) \in NodeMap /\ DOMAIN Only(f, D) = D
           /\ \A n \in D : Only(f, D)[n] = f[n]
           /\ \A k : UpTo(f, k) => UpTo(Only(f, D), k)
<1>1. DOMAIN Only(f, D) = D /\ \A n \in D : Only(f, D)[n] = f[n]
  BY Zenon DEF Only
<1>2. Only(f, D) \in [D -> Record]
  BY Maps, Zenon DEF Only
<1> QED
  BY <1>1, <1>2, Maps, Zenon DEF UpTo

\* What mergeObservations carries over.
LEMMA MergeFacts ==
    ASSUME NEW a \in Record, NEW b \in Record, NEW q, q = MergeObservations(a, b)
    PROVE  /\ q \in Record /\ q.src = a.src /\ q.seen = a.seen
           /\ q.tested = IF a.tested = 0 THEN b.tested ELSE a.tested
           /\ q.fails = IF a.tested = 0 THEN b.fails ELSE a.fails
           /\ (b.geo => q.geo) /\ (a.geo => q.geo)
           /\ a = b => q = a
<1>1. DOMAIN a = {"src", "seen", "tested", "geo", "fails"}
  BY Zenon DEF Record
<1>2. a = b => (a.geo \/ b.geo) = a.geo
  BY Zenon DEF Record
<1>3. (a.geo \/ b.geo) \in BOOLEAN
  BY Zenon DEF Record
<1>4. PICK g \in BOOLEAN : g = (a.geo \/ b.geo)
  BY <1>3, Zenon
<1>5. q = [a EXCEPT !.tested = IF a.tested = 0 THEN b.tested ELSE a.tested,
                    !.fails = IF a.tested = 0 THEN b.fails ELSE a.fails, !.geo = g]
  BY <1>4, Zenon DEF MergeObservations, Record
<1>6. /\ q \in Record /\ q.src = a.src /\ q.seen = a.seen
      /\ q.tested = IF a.tested = 0 THEN b.tested ELSE a.tested
      /\ q.fails = IF a.tested = 0 THEN b.fails ELSE a.fails
      /\ q.geo = g
  BY <1>5, Zenon DEF Record
<1>7. (b.geo => q.geo) /\ (a.geo => q.geo)
  BY <1>4, <1>6, Zenon
<1>8. a = b => q = a
  <2> SUFFICES ASSUME a = b PROVE q = a
    BY Zenon
  <2>1. g = a.geo
    BY <1>2, <1>4, Zenon
  <2> QED
    BY <1>6, <2>1 DEF Record
<1> QED
  BY <1>6, <1>7, <1>8, Zenon

\* Fetched nodes with what was known of them.
LEMMA MergedMap ==
    ASSUME NEW new \in NodeMap, NEW old \in NodeMap
    PROVE  /\ Merged(new, old) \in NodeMap /\ DOMAIN Merged(new, old) = DOMAIN new
           /\ \A n \in DOMAIN new \cap DOMAIN old :
                 Merged(new, old)[n] = MergeObservations(new[n], old[n])
           /\ \A n \in DOMAIN new \ DOMAIN old : Merged(new, old)[n] = new[n]
           /\ \A k : UpTo(new, k) /\ UpTo(old, k) => UpTo(Merged(new, old), k)
<1>1. /\ DOMAIN Merged(new, old) = DOMAIN new
      /\ \A n \in DOMAIN new \cap DOMAIN old :
            Merged(new, old)[n] = MergeObservations(new[n], old[n])
      /\ \A n \in DOMAIN new \ DOMAIN old : Merged(new, old)[n] = new[n]
  BY Zenon DEF Merged
<1>2. ASSUME NEW n \in DOMAIN new PROVE Merged(new, old)[n] \in Record
  BY <1>1, Maps, MergeFacts
<1>3. Merged(new, old) \in [DOMAIN new -> Record]
  <2>1. Merged(new, old) = [n \in DOMAIN new |-> Merged(new, old)[n]]
    BY Zenon DEF Merged
  <2> QED
    BY <1>2, <2>1, Zenon
<1>4. ASSUME NEW k, UpTo(new, k), UpTo(old, k), NEW n \in DOMAIN new
      PROVE  Merged(new, old)[n].seen <= k /\ Merged(new, old)[n].tested <= k
  <2>1. CASE n \in DOMAIN old
    <3>1. PICK q : q = Merged(new, old)[n] /\ q = MergeObservations(new[n], old[n])
      BY <1>1, <2>1, Zenon
    <3>2. q.seen = new[n].seen /\ (q.tested = new[n].tested \/ q.tested = old[n].tested)
      BY <2>1, <3>1, Maps, MergeFacts, SMTT(30)
    <3> QED
      BY <1>4, <2>1, <3>1, <3>2, ZenonT(30) DEF UpTo
  <2>2. CASE n \notin DOMAIN old
    BY <1>1, <1>4, <2>2, Zenon DEF UpTo
  <2> QED
    BY <2>1, <2>2, Zenon
<1> QED
  BY <1>1, <1>3, <1>4, Maps, ZenonT(30) DEF UpTo

-----------------------------------------------------------------------------
(* The types: nothing is dated later than now, and only a deletion that is *)
(* under way has ids to delete.                                            *)

Pcs == {"idle", "replace", "upsert", "save", "saveAll", "savePrune",
        "prune", "readAll", "select", "delete"}

HotOK == hot \in [Procs -> NodeMap] /\ \A p \in Procs : UpTo(hot[p], now)
SnapOK == snap \in [Procs -> NodeMap] /\ \A p \in Procs : UpTo(snap[p], now)
TableOK == table \in NodeMap /\ UpTo(table, now)
BatchOK == batch \in [Slots -> NodeMap] /\ \A j \in Slots : UpTo(batch[j], now)
PcOK == /\ pc \in [Slots -> Pcs] /\ stale \in [Slots -> SUBSET Nodes]
        /\ \A j \in Slots : /\ pc[j] # "delete" => stale[j] = {}
                            /\ stale[j] \cap DOMAIN batch[j] = {}
NowOK == now \in 0..MaxClock /\ synced \in BOOLEAN

TInv == HotOK /\ SnapOK /\ TableOK /\ BatchOK /\ PcOK /\ NowOK

\* What a step leaves alone keeps its type, also when time passes.
LEMMA LeftAlone ==
    ASSUME TInv, now' = now \/ now' = now + 1
    PROVE  /\ UNCHANGED hot => HotOK'
           /\ UNCHANGED snap => SnapOK'
           /\ UNCHANGED table => TableOK'
           /\ \A f \in NodeMap : UpTo(f, now) => UpTo(f, now')
<1>1. now \in Nat /\ now <= now'
  BY DEF TInv, NowOK
<1>2. ASSUME NEW f \in NodeMap, UpTo(f, now) PROVE UpTo(f, now')
  <2>1. \A n \in DOMAIN f : f[n].seen \in Nat /\ f[n].tested \in Nat
    BY Maps, StoreAssumption DEF Record
  <2> QED
    BY <1>1, <1>2, <2>1 DEF UpTo
<1> QED
  BY <1>2, Zenon DEF TInv, HotOK, SnapOK, TableOK

\* The phase of one slot ends, or goes on with another batch.
LEMMA DoneTypes ==
    ASSUME TInv, NEW j \in Slots, Done(j), UNCHANGED now
    PROVE  /\ BatchOK' /\ PcOK' /\ pc'[j] = "idle" /\ batch'[j] = Empty
           /\ \A i \in Slots \ {j} : pc'[i] = pc[i] /\ batch'[i] = batch[i]
<1>1. /\ pc' = [pc EXCEPT ![j] = "idle"] /\ batch' = [batch EXCEPT ![j] = Empty]
      /\ stale' = [stale EXCEPT ![j] = {}]
  BY Zenon DEF Done, Goto
<1> QED
  BY <1>1, EmptyMap, Zenon DEF TInv, BatchOK, PcOK, Pcs

\* A phase that goes on to its next statement.
LEMMA GotoTypes ==
    ASSUME TInv, NEW j \in Slots, NEW to \in Pcs \ {"delete"}, Goto(j, to), UNCHANGED stale,
           NEW b \in NodeMap, UpTo(b, now'), batch' = [batch EXCEPT ![j] = b],
           pc[j] # "delete", now' = now \/ now' = now + 1
    PROVE  /\ BatchOK' /\ PcOK' /\ pc'[j] = to /\ batch'[j] = b
           /\ \A i \in Slots \ {j} : pc'[i] = pc[i] /\ batch'[i] = batch[i]
<1>1. pc' = [pc EXCEPT ![j] = to] /\ stale[j] = {}
  BY Zenon DEF Goto, TInv, PcOK
<1>2. PcOK' /\ pc'[j] = to /\ batch'[j] = b /\ \A i \in Slots \ {j} : pc'[i] = pc[i] /\ batch'[i] = batch[i]
  BY <1>1, Zenon DEF TInv, BatchOK, PcOK
<1>3. batch' \in [Slots -> NodeMap] /\ \A i \in Slots : UpTo(batch'[i], now')
  BY LeftAlone, Zenon DEF TInv, BatchOK
<1> QED
  BY <1>2, <1>3, Zenon DEF BatchOK

\* A write to the map of one process, and its snapshot.
LEMMA HotTypes ==
    ASSUME TInv, NEW p \in Procs, NEW f \in NodeMap, UpTo(f, now),
           hot' = [hot EXCEPT ![p] = f], UNCHANGED now
    PROVE  /\ HotOK' /\ hot'[p] = f /\ \A q \in Procs \ {p} : hot'[q] = hot[q]
           /\ Persisted(p) => SnapOK' /\ (p \in Persistent => snap'[p] = f)
<1>1. HotOK' /\ hot'[p] = f /\ \A q \in Procs \ {p} : hot'[q] = hot[q]
  BY Zenon DEF TInv, HotOK
<1> QED
  BY <1>1, Zenon DEF Persisted, TInv, SnapOK

-----------------------------------------------------------------------------
(* What the phases bring back to the map h that they started from.         *)

NotOlder(b, h) ==
    \A n \in DOMAIN b \cap DOMAIN h :
        b[n].seen >= h[n].seen /\ (b[n].tested = 0 \/ b[n].tested >= h[n].tested)

Clones(b, h) ==
    /\ DOMAIN b \subseteq DOMAIN h
    /\ \A n \in DOMAIN b : /\ b[n].src = h[n].src /\ b[n].seen >= h[n].seen
                           /\ b[n].tested >= h[n].tested /\ (h[n].geo => b[n].geo)

\* The map and the clones that a phase works with.
LEMMA HomeProc == ASSUME TInv, NEW j \in Slots
                  PROVE  /\ Home[j] \in Procs /\ hot[Home[j]] \in NodeMap /\ UpTo(hot[Home[j]], now)
                         /\ batch[j] \in NodeMap /\ UpTo(batch[j], now)
                         /\ \A n \in DOMAIN hot[Home[j]] :
                               /\ n \in Nodes /\ hot[Home[j]][n] \in Record
                               /\ hot[Home[j]][n].seen <= now /\ hot[Home[j]][n].tested <= now
BY Maps, StoreAssumption, Zenon DEF TInv, HotOK, BatchOK, UpTo

\* What the sources ok listed, with what is carried over of the failed ones.
Answered(ok, failed, got, mine, j) ==
    /\ \A s \in ok : got[s] \subseteq Offers[s]
    /\ LET carried == {n \in DOMAIN mine : mine[n].src \in failed}
           copies(n) == {Fresh(s) : s \in {u \in ok : n \in got[u]}}
                          \cup (IF n \in carried THEN {mine[n]} ELSE {})
           all == carried \cup UNION {got[s] : s \in ok}
       IN \E clean \in [all -> UNION {copies(n) : n \in all}] :
             /\ \A n \in all : clean[n] \in copies(n)
             /\ batch' = [batch EXCEPT ![j] = clean]

\* A fetch brings nodes that it saw just now and never tested, and copies of old ones.
LEMMA Fetched ==
    ASSUME TInv, NEW j \in Slots, FetchAll(j)
    PROVE  \E b \in NodeMap : /\ batch' = [batch EXCEPT ![j] = b] /\ UpTo(b, now')
                              /\ NotOlder(b, hot[Home[j]])
<1>1. PICK mine : mine = hot[Home[j]] /\ \A n \in DOMAIN mine :
             n \in Nodes /\ mine[n] \in Record /\ mine[n].seen <= now /\ mine[n].tested <= now
  BY HomeProc, Zenon
<1>2. PICK ok \in SUBSET Sources \ {{}}, failed \in SUBSET Sources :
         \E got \in [ok -> SUBSET Nodes \ {{}}] : Answered(ok, failed, got, mine, j)
  <2>1. \E ok \in SUBSET Sources \ {{}} : \E failed \in SUBSET (Sources \ ok) :
            \E got \in [ok -> SUBSET Nodes \ {{}}] : Answered(ok, failed, got, hot[Home[j]], j)
    BY Zenon DEF FetchAll, Answered
  <2> QED
    BY <1>1, <2>1, Zenon
<1>3. PICK got \in [ok -> SUBSET Nodes \ {{}}] : Answered(ok, failed, got, mine, j)
  BY <1>2, Zenon
<1> DEFINE carried == {n \in DOMAIN mine : mine[n].src \in failed}
           copies(n) == {Fresh(s) : s \in {u \in ok : n \in got[u]}}
                          \cup (IF n \in carried THEN {mine[n]} ELSE {})
           all == carried \cup UNION {got[s] : s \in ok}
<1>4. PICK clean \in [all -> UNION {copies(n) : n \in all}] :
            (\A n \in all : clean[n] \in copies(n)) /\ batch' = [batch EXCEPT ![j] = clean]
  BY <1>3, Zenon DEF Answered
<1>5. all \subseteq Nodes
  BY <1>1
<1>6. ASSUME NEW n \in all
      PROVE  (\E s \in Sources : clean[n] = Fresh(s)) \/ (n \in DOMAIN mine /\ clean[n] = mine[n])
  <2>1. clean[n] \in copies(n)
    BY <1>4, Zenon
  <2> QED
    BY <2>1, Zenon
<1>7. now \in Nat /\ now' = now + 1 /\ now + 1 \in 0..MaxClock
  BY StoreAssumption DEF FetchAll, TInv, NowOK
<1>8. \A s \in Sources : Fresh(s) \in Record /\ Fresh(s).seen = now + 1 /\ Fresh(s).tested = 0
  BY <1>7, StoreAssumption DEF Fresh, Record
<1> HIDE DEF all, copies, carried
<1>9. ASSUME NEW n \in all
      PROVE  /\ clean[n] \in Record /\ clean[n].seen <= now + 1 /\ clean[n].tested <= now + 1
             /\ n \in DOMAIN mine => /\ clean[n].seen >= mine[n].seen
                                     /\ clean[n].tested = 0 \/ clean[n].tested >= mine[n].tested
  <2>1. CASE \E s \in Sources : clean[n] = Fresh(s)
    <3>1. n \in DOMAIN mine => mine[n].seen \in Nat /\ mine[n].seen <= now
      BY <1>1, StoreAssumption DEF Record
    <3> QED
      BY <1>7, <1>8, <2>1, <3>1, SMTT(30)
  <2>2. CASE n \in DOMAIN mine /\ clean[n] = mine[n]
    BY <1>1, <1>7, <2>2, StoreAssumption, SMTT(30) DEF Record
  <2> QED
    BY <1>6, <2>1, <2>2, Zenon
<1>10. DOMAIN clean = all /\ clean \in [all -> Record]
  BY <1>4, <1>9, Zenon
<1>11. clean \in NodeMap /\ UpTo(clean, now') /\ NotOlder(clean, mine)
  BY <1>5, <1>7, <1>9, <1>10, Maps, ZenonT(30) DEF UpTo, NotOlder
<1> QED
  BY <1>1, <1>4, <1>11, Zenon

\* A test dates the clones to now, and keeps the rest of them.
LEMMA TestedBatch ==
    ASSUME TInv, NEW j \in Slots, TestAll(j)
    PROVE  \E b \in NodeMap : /\ batch' = [batch EXCEPT ![j] = b] /\ UpTo(b, now')
                              /\ Clones(b, hot[Home[j]])
<1> DEFINE mine == hot[Home[j]]
<1>1. \A n \in DOMAIN mine :
         n \in Nodes /\ mine[n] \in Record /\ mine[n].seen <= now /\ mine[n].tested <= now
  BY HomeProc, Zenon
<1>2. PICK due \in SUBSET DOMAIN mine \ {{}} : \E alive \in SUBSET due :
        batch' = [batch EXCEPT ![j] = [n \in due |->
             [mine[n] EXCEPT !.tested = now + 1,
                             !.fails = IF n \in alive THEN 0
                                       ELSE IF @ < DropAfter THEN @ + 1 ELSE @]]]
  BY Zenon DEF TestAll
<1> HIDE DEF mine
<1>3. PICK alive \in SUBSET due :
        batch' = [batch EXCEPT ![j] = [n \in due |->
             [mine[n] EXCEPT !.tested = now + 1,
                             !.fails = IF n \in alive THEN 0
                                       ELSE IF @ < DropAfter THEN @ + 1 ELSE @]]]
  BY <1>2, Zenon
<1>4. now \in Nat /\ now' = now + 1 /\ now + 1 \in 0..MaxClock
  <2>1. now < MaxClock /\ now' = now + 1
    BY Zenon DEF TestAll
  <2> QED
    BY <2>1, StoreAssumption DEF TInv, NowOK
<1> DEFINE b == [n \in due |-> [mine[n] EXCEPT !.tested = now + 1,
                                  !.fails = IF n \in alive THEN 0
                                            ELSE IF @ < DropAfter THEN @ + 1 ELSE @]]
<1>5. ASSUME NEW n \in due
      PROVE  /\ b[n] \in Record /\ b[n].src = mine[n].src /\ b[n].seen = mine[n].seen
             /\ b[n].tested = now + 1 /\ b[n].geo = mine[n].geo
             /\ b[n].tested >= mine[n].tested /\ b[n].seen <= now + 1
  <2>1. PICK r : r = mine[n] /\ r \in Record /\ r.tested <= now /\ r.seen <= now
    BY <1>1, Zenon
  <2>2. PICK f \in 0..DropAfter :
            f = IF n \in alive THEN 0 ELSE IF r.fails < DropAfter THEN r.fails + 1 ELSE r.fails
    BY <2>1, StoreAssumption DEF Record
  <2>3. PICK q : q = b[n]
    BY Zenon
  <2>4. q = [r EXCEPT !.tested = now + 1, !.fails = f]
    BY <2>1, <2>2, <2>3, Zenon DEF Record
  <2> HIDE DEF b
  <2>5. q.src = r.src /\ q.seen = r.seen /\ q.tested = now + 1 /\ q.geo = r.geo /\ q \in Record
    BY <1>4, <2>1, <2>4, Zenon DEF Record
  <2>6. r.seen \in Nat /\ r.tested \in Nat
    BY <2>1, StoreAssumption DEF Record
  <2>7. q.tested >= r.tested /\ q.seen <= now + 1
    BY <1>4, <2>1, <2>5, <2>6, SMTT(30)
  <2> QED
    BY <2>1, <2>3, <2>5, <2>7, ZenonT(30)
<1>6. DOMAIN b = due /\ b = [n \in due |-> b[n]]
  BY Zenon
<1>7. batch' = [batch EXCEPT ![j] = b]
  BY <1>3, Zenon
<1> HIDE DEF b
<1>8. b \in [due -> Record]
  BY <1>5, <1>6, Zenon
<1>9. \A n \in due : mine[n].seen \in Nat /\ now + 1 <= now + 1
  BY <1>1, <1>4, StoreAssumption DEF Record
<1>10. b \in NodeMap /\ UpTo(b, now') /\ Clones(b, mine)
  BY <1>1, <1>4, <1>5, <1>6, <1>8, <1>9, Maps, SMTT(30) DEF UpTo, Clones
<1> QED
  BY <1>1, <1>7, <1>10, Zenon DEF mine

\* The other phases add what they found to the clones.
LEMMA AnnotatedBatch ==
    ASSUME TInv, NEW j \in Slots, AnnotateNodes(j)
    PROVE  \E b \in NodeMap : /\ batch' = [batch EXCEPT ![j] = b] /\ UpTo(b, now')
                              /\ Clones(b, hot[Home[j]])
<1> DEFINE mine == hot[Home[j]]
<1>1. \A n \in DOMAIN mine :
         n \in Nodes /\ mine[n] \in Record /\ mine[n].seen <= now /\ mine[n].tested <= now
  BY HomeProc, Zenon
<1>2. PICK some \in SUBSET DOMAIN mine \ {{}} : \E found \in SUBSET some :
        batch' = [batch EXCEPT ![j] = [n \in some |-> [mine[n] EXCEPT !.geo = @ \/ n \in found]]]
  BY Zenon DEF AnnotateNodes
<1> HIDE DEF mine
<1>3. PICK found \in SUBSET some :
        batch' = [batch EXCEPT ![j] = [n \in some |-> [mine[n] EXCEPT !.geo = @ \/ n \in found]]]
  BY <1>2, Zenon
<1>4. now' = now
  BY Zenon DEF AnnotateNodes
<1> DEFINE b == [n \in some |-> [mine[n] EXCEPT !.geo = @ \/ n \in found]]
<1>5. ASSUME NEW n \in some
      PROVE  /\ b[n] \in Record /\ b[n].src = mine[n].src /\ b[n].seen = mine[n].seen
             /\ b[n].tested = mine[n].tested /\ (mine[n].geo => b[n].geo)
  <2>1. mine[n] \in Record
    BY <1>1, Zenon
  <2>2. PICK g \in BOOLEAN : g = (mine[n].geo \/ n \in found)
    BY Zenon
  <2>3. PICK r, q : r = mine[n] /\ q = b[n]
    BY Zenon
  <2>4. q = [r EXCEPT !.geo = g]
    BY <2>1, <2>2, <2>3, Zenon DEF Record
  <2>5. q \in Record /\ q.src = r.src /\ q.seen = r.seen /\ q.tested = r.tested /\ q.geo = g
    BY <2>1, <2>3, <2>4, Zenon DEF Record
  <2>6. r.geo => q.geo
    BY <2>2, <2>3, <2>5, Zenon
  <2> HIDE DEF b
  <2> QED
    BY <2>3, <2>5, <2>6, Zenon
<1>6. DOMAIN b = some /\ b = [n \in some |-> b[n]]
  BY Zenon
<1>7. batch' = [batch EXCEPT ![j] = b]
  BY <1>3, Zenon
<1> HIDE DEF b
<1>8. b \in [some -> Record]
  BY <1>5, <1>6, Zenon
<1>9. \A n \in some : mine[n].seen \in Nat /\ mine[n].tested \in Nat
  BY <1>1, StoreAssumption DEF Record
<1>10. b \in NodeMap /\ UpTo(b, now') /\ Clones(b, mine)
  BY <1>1, <1>4, <1>5, <1>6, <1>8, <1>9, Maps, SMTT(30) DEF UpTo, Clones
<1> QED
  BY <1>1, <1>7, <1>10, Zenon DEF mine

-----------------------------------------------------------------------------
(* Processes that run one job at a time.                                   *)

OneJobEach == \A i, j \in Slots : Home[i] = Home[j] => i = j

\* Until a phase writes, the map is still the one that it took its clones from.
Ahead ==
    \A j \in Slots : /\ pc[j] = "replace" => NotOlder(batch[j], hot[Home[j]])
                     /\ pc[j] = "upsert" => Clones(batch[j], hot[Home[j]])

AInv == TInv /\ Ahead

\* What ObservationsKept says of a map h that becomes g.
Kept(h, g) ==
    \A n \in DOMAIN h \cap DOMAIN g :
        g[n].seen >= h[n].seen /\ g[n].tested >= h[n].tested /\ (h[n].geo => g[n].geo)

\* A map that stays forgets nothing.
LEMMA KeptSame == ASSUME NEW h \in NodeMap PROVE Kept(h, h)
<1>1. \A n \in DOMAIN h : h[n].seen \in Nat /\ h[n].tested \in Nat
  BY Maps, StoreAssumption DEF Record
<1> QED
  BY <1>1 DEF Kept

\* A step of slot j leaves the other slots and the other processes alone.
Elsewhere(j) ==
    /\ \A i \in Slots \ {j} : pc'[i] = pc[i] /\ batch'[i] = batch[i]
    /\ \A q \in Procs \ {Home[j]} : hot'[q] = hot[q]

\* So it is enough to look at that slot.
LEMMA AheadKept ==
    ASSUME OneJobEach, AInv, NEW j \in Slots, Elsewhere(j),
           pc'[j] = "replace" => NotOlder(batch'[j], hot'[Home[j]]),
           pc'[j] = "upsert" => Clones(batch'[j], hot'[Home[j]])
    PROVE  Ahead'
<1>1. ASSUME NEW i \in Slots
      PROVE  /\ pc'[i] = "replace" => NotOlder(batch'[i], hot'[Home[i]])
             /\ pc'[i] = "upsert" => Clones(batch'[i], hot'[Home[i]])
  <2>1. CASE i = j
    BY <2>1, Zenon
  <2>2. CASE i # j
    <3>1. Home[i] # Home[j] /\ Home[i] \in Procs
      BY <2>2, StoreAssumption, Zenon DEF OneJobEach
    <3> QED
      BY <2>2, <3>1, Zenon DEF Elsewhere, AInv, Ahead
  <2> QED
    BY <2>1, <2>2, Zenon
<1> QED
  BY <1>1, Zenon DEF Ahead

\* The start of a phase.
LEMMA BeginStep ==
    ASSUME TInv, NEW j \in Slots, FetchAll(j) \/ TestAll(j) \/ AnnotateNodes(j)
    PROVE  /\ TInv' /\ Elsewhere(j) /\ UNCHANGED <<hot, snap, table, synced>> /\ pc[j] = "idle"
           /\ \/ pc'[j] = "replace" /\ NotOlder(batch'[j], hot[Home[j]])
              \/ pc'[j] = "upsert" /\ Clones(batch'[j], hot[Home[j]])
<1>1. /\ UNCHANGED <<hot, snap, table, stale, synced>> /\ pc[j] = "idle"
      /\ now' = now \/ (now' = now + 1 /\ now < MaxClock)
  BY Zenon DEF FetchAll, TestAll, AnnotateNodes
<1>2. NowOK' /\ (now' = now \/ now' = now + 1)
  BY <1>1, StoreAssumption DEF TInv, NowOK
<1>3. PICK b \in NodeMap, to \in {"replace", "upsert"} :
          /\ batch' = [batch EXCEPT ![j] = b] /\ UpTo(b, now') /\ Goto(j, to)
          /\ to = "replace" => NotOlder(b, hot[Home[j]])
          /\ to = "upsert" => Clones(b, hot[Home[j]])
  <2>1. CASE FetchAll(j)
    <3>1. Goto(j, "replace")
      BY <2>1, Zenon DEF FetchAll
    <3> QED
      BY <2>1, <3>1, Fetched, Zenon
  <2>2. CASE TestAll(j)
    <3>1. Goto(j, "upsert")
      BY <2>2, Zenon DEF TestAll
    <3> QED
      BY <2>2, <3>1, TestedBatch, Zenon
  <2>3. CASE AnnotateNodes(j)
    <3>1. Goto(j, "upsert")
      BY <2>3, Zenon DEF AnnotateNodes
    <3> QED
      BY <2>3, <3>1, AnnotatedBatch, ZenonT(30)
  <2> QED
    BY <2>1, <2>2, <2>3, Zenon
<1>4. /\ BatchOK' /\ PcOK' /\ pc'[j] = to /\ batch'[j] = b
      /\ \A i \in Slots \ {j} : pc'[i] = pc[i] /\ batch'[i] = batch[i]
  <2>1. to \in Pcs \ {"delete"} /\ UNCHANGED stale /\ pc[j] # "delete"
    BY <1>1, Zenon DEF Pcs
  <2> QED
    BY <1>2, <1>3, <2>1, GotoTypes, ZenonT(30)
<1>5. TInv'
  BY <1>1, <1>2, <1>4, LeftAlone, ZenonT(30) DEF TInv
<1> QED
  BY <1>1, <1>3, <1>4, <1>5, ZenonT(30) DEF Elsewhere

\* The map after the write: what it was merged, updated or pruned to.
LEMMA UpdateFacts ==
    ASSUME NEW old \in Record, NEW new \in Record, new.src = old.src, old.geo => new.geo
    PROVE  Update(old, new) = new
<1>1. PICK g : g = (new.geo \/ old.geo)
  BY Zenon
<1>2. g = new.geo
  BY <1>1, Zenon DEF Record
<1>3. Update(old, new) = [new EXCEPT !.src = new.src, !.geo = new.geo]
  BY <1>1, <1>2, Zenon DEF Update
<1> QED
  BY <1>3, Zenon DEF Record

\* The map that a write leaves, and what it keeps.
LEMMA WrittenMap ==
    ASSUME AInv, NEW j \in Slots, ReplaceNodes(j) \/ UpsertNodes(j) \/ Prune(j)
    PROVE  \E f \in NodeMap :
              /\ hot' = [hot EXCEPT ![Home[j]] = f] /\ UpTo(f, now) /\ Kept(hot[Home[j]], f)
              /\ ReplaceNodes(j) => f = Merged(batch[j], hot[Home[j]])
              /\ pc[j] = "upsert" => f = Over(hot[Home[j]], batch[j])
<1> DEFINE h == hot[Home[j]]
           b == batch[j]
<1>1. h \in NodeMap /\ UpTo(h, now) /\ b \in NodeMap /\ UpTo(b, now)
  BY HomeProc, Zenon DEF AInv
<1>2. /\ \A n \in DOMAIN h : h[n] \in Record /\ h[n].seen \in Nat /\ h[n].tested \in Nat
      /\ \A n \in DOMAIN b : b[n] \in Record /\ b[n].seen \in Nat /\ b[n].tested \in Nat
  BY <1>1, Maps, StoreAssumption, SMTT(30) DEF Record
<1>3. CASE ReplaceNodes(j)
  <2>1. hot' = [hot EXCEPT ![Home[j]] = Merged(b, h)] /\ pc[j] = "replace" /\ NotOlder(b, h)
    BY <1>3, Zenon DEF ReplaceNodes, AInv, Ahead
  <2> HIDE DEF h, b
  <2>2. /\ Merged(b, h) \in NodeMap /\ UpTo(Merged(b, h), now) /\ DOMAIN Merged(b, h) = DOMAIN b
        /\ \A n \in DOMAIN b \cap DOMAIN h : Merged(b, h)[n] = MergeObservations(b[n], h[n])
    BY <1>1, MergedMap, Zenon
  <2>3. ASSUME NEW n \in DOMAIN b \cap DOMAIN h
        PROVE  /\ Merged(b, h)[n].seen >= h[n].seen /\ Merged(b, h)[n].tested >= h[n].tested
               /\ h[n].geo => Merged(b, h)[n].geo
    <3>1. PICK q : q = Merged(b, h)[n] /\ q = MergeObservations(b[n], h[n])
      BY <2>2, Zenon
    <3>2. /\ q.seen = b[n].seen /\ q.tested = (IF b[n].tested = 0 THEN h[n].tested ELSE b[n].tested)
          /\ h[n].geo => q.geo
      BY <1>2, <3>1, MergeFacts, SMTT(30)
    <3>3. b[n].seen >= h[n].seen /\ (b[n].tested = 0 \/ b[n].tested >= h[n].tested)
      BY <2>1, Zenon DEF NotOlder
    <3>4. q.seen >= h[n].seen /\ q.tested >= h[n].tested
      BY <1>2, <3>2, <3>3, SMTT(30)
    <3> QED
      BY <3>1, <3>2, <3>4, ZenonT(30)
  <2>4. Kept(h, Merged(b, h))
    BY <2>2, <2>3, Zenon DEF Kept
  <2> QED
    BY <2>1, <2>2, <2>4, Zenon DEF h, b
<1>4. CASE UpsertNodes(j)
  <2> DEFINE nodes == [n \in DOMAIN b |-> IF n \in DOMAIN h THEN Update(h[n], b[n]) ELSE b[n]]
  <2>1. hot' = [hot EXCEPT ![Home[j]] = Over(h, nodes)] /\ pc[j] = "upsert" /\ Clones(b, h)
    BY <1>4, Zenon DEF UpsertNodes, AInv, Ahead
  <2> HIDE DEF h, b
  <2>2. \A n \in DOMAIN b : nodes[n] = b[n]
    BY <1>2, <2>1, UpdateFacts, ZenonT(30) DEF Clones
  <2>3. nodes = b
    <3>1. b = [n \in DOMAIN b |-> b[n]]
      BY <1>1, Maps, Zenon
    <3> QED
      BY <2>2, <3>1, Zenon
  <2>4. /\ Over(h, b) \in NodeMap /\ UpTo(Over(h, b), now)
        /\ \A n \in DOMAIN b : Over(h, b)[n] = b[n]
        /\ \A n \in DOMAIN h \ DOMAIN b : Over(h, b)[n] = h[n]
    BY <1>1, OverMap, Zenon
  <2>5. Kept(h, Over(h, b))
    BY <1>2, <2>1, <2>4, SMTT(30) DEF Kept, Clones
  <2>6. ~ReplaceNodes(j)
    BY <2>1, Zenon DEF ReplaceNodes
  <2> QED
    BY <2>1, <2>3, <2>4, <2>5, <2>6, ZenonT(30) DEF h, b
<1>5. CASE Prune(j)
  <2>1. PICK top \in SUBSET DOMAIN h : hot' = [hot EXCEPT ![Home[j]] = Only(h, top)]
    BY <1>5, Zenon DEF Prune
  <2>2. pc[j] = "prune" /\ ~ReplaceNodes(j)
    BY <1>5, Zenon DEF Prune, ReplaceNodes
  <2> HIDE DEF h
  <2>3. /\ Only(h, top) \in NodeMap /\ UpTo(Only(h, top), now)
        /\ DOMAIN Only(h, top) = top /\ \A n \in top : Only(h, top)[n] = h[n]
    BY <1>1, OnlyMap, Zenon
  <2>4. Kept(h, Only(h, top))
    BY <1>2, <2>3 DEF Kept
  <2> QED
    BY <2>1, <2>2, <2>3, <2>4, ZenonT(30) DEF h
<1> QED
  BY <1>3, <1>4, <1>5, ZenonT(30)

\* How a write to the map ends: with the snapshot written, or with an error.
Written(j, to, b) ==
    /\ Goto(j, to) /\ batch' = [batch EXCEPT ![j] = b] /\ UNCHANGED <<stale, synced>>
    /\ Persisted(Home[j])
    /\ to = "saveAll" => b = hot'[Home[j]]
    /\ to \in {"save", "savePrune"} => b = batch[j] /\ pc[j] = "upsert"

\* Where a phase is after its write, and what became of the snapshot.
LEMMA WriteEnds ==
    ASSUME AInv, NEW j \in Slots, ReplaceNodes(j) \/ UpsertNodes(j) \/ Prune(j)
    PROVE  /\ UNCHANGED <<table, now>> /\ pc[j] \in {"replace", "upsert", "prune"}
           /\ \/ Done(j) /\ synced' = FALSE /\ UNCHANGED snap
              \/ \E to \in {"saveAll", "save", "savePrune", "readAll"} : \E b \in NodeMap :
                    UpTo(b, now) /\ Written(j, to, b)
<1>1. batch[j] \in NodeMap /\ UpTo(batch[j], now) /\ Home[j] \in Procs
  BY HomeProc, Zenon DEF AInv
<1>2. PICK f \in NodeMap :
          /\ hot' = [hot EXCEPT ![Home[j]] = f] /\ UpTo(f, now)
          /\ ReplaceNodes(j) => f = Merged(batch[j], hot[Home[j]])
  BY WrittenMap, Zenon
<1>3. hot'[Home[j]] = f
  BY <1>1, <1>2, Zenon DEF AInv, TInv, HotOK
<1>4. UNCHANGED batch => batch' = [batch EXCEPT ![j] = batch[j]]
  BY Zenon DEF AInv, TInv, BatchOK
<1>5. CASE ReplaceNodes(j)
  <2>1. \/ /\ Persisted(Home[j]) /\ Goto(j, "saveAll") /\ batch' = [batch EXCEPT ![j] = f]
           /\ UNCHANGED <<stale, synced>>
        \/ PersistError(j)
    BY <1>2, <1>5, Zenon DEF ReplaceNodes
  <2>2. UNCHANGED <<table, now>> /\ pc[j] = "replace"
    BY <1>5, Zenon DEF ReplaceNodes
  <2> QED
    BY <1>2, <1>3, <2>1, <2>2, ZenonT(30) DEF Written, PersistError
<1>6. CASE UpsertNodes(j)
  <2>1. \/ /\ Persisted(Home[j]) /\ (Goto(j, "save") \/ Goto(j, "savePrune"))
           /\ UNCHANGED <<batch, stale, synced>>
        \/ PersistError(j)
    BY <1>6, Zenon DEF UpsertNodes
  <2>2. UNCHANGED <<table, now>> /\ pc[j] = "upsert"
    BY <1>6, Zenon DEF UpsertNodes
  <2> QED
    BY <1>1, <1>4, <2>1, <2>2, ZenonT(30) DEF Written, PersistError
<1>7. CASE Prune(j)
  <2>1. \/ /\ Persisted(Home[j]) /\ Goto(j, "readAll")
           /\ UNCHANGED <<batch, stale, synced>>
        \/ PersistError(j)
    BY <1>7, Zenon DEF Prune
  <2>2. UNCHANGED <<table, now>> /\ pc[j] = "prune"
    BY <1>7, Zenon DEF Prune
  <2> QED
    BY <1>1, <1>4, <2>1, <2>2, ZenonT(30) DEF Written, PersistError
<1> QED
  BY <1>5, <1>6, <1>7, Zenon

\* A write of the map keeps the invariant and what is known of the nodes.
LEMMA WriteStep ==
    ASSUME OneJobEach, AInv, NEW j \in Slots, ReplaceNodes(j) \/ UpsertNodes(j) \/ Prune(j)
    PROVE  AInv' /\ Elsewhere(j) /\ Kept(hot[Home[j]], hot'[Home[j]])
<1>1. PICK f \in NodeMap :
          hot' = [hot EXCEPT ![Home[j]] = f] /\ UpTo(f, now) /\ Kept(hot[Home[j]], f)
  BY WrittenMap, Zenon
<1>2. Home[j] \in Procs /\ TInv
  BY HomeProc, Zenon DEF AInv
<1>3. UNCHANGED <<table, now>> /\ pc[j] # "delete"
  BY WriteEnds, Zenon
<1>4. /\ HotOK' /\ hot'[Home[j]] = f /\ \A q \in Procs \ {Home[j]} : hot'[q] = hot[q]
      /\ Persisted(Home[j]) => SnapOK'
  BY <1>1, <1>2, <1>3, HotTypes, ZenonT(30)
<1>5. CASE Done(j) /\ synced' = FALSE /\ UNCHANGED snap
  <2>1. /\ BatchOK' /\ PcOK' /\ pc'[j] = "idle"
        /\ \A i \in Slots \ {j} : pc'[i] = pc[i] /\ batch'[i] = batch[i]
    BY <1>2, <1>3, <1>5, DoneTypes, ZenonT(30)
  <2>2. TInv' /\ Elsewhere(j)
    BY <1>2, <1>3, <1>4, <1>5, <2>1, LeftAlone, ZenonT(30) DEF TInv, NowOK, Elsewhere
  <2>3. Ahead'
    BY <2>1, <2>2, AheadKept, ZenonT(30)
  <2> QED
    BY <1>1, <1>4, <2>2, <2>3, ZenonT(30) DEF AInv
<1>6. ASSUME NEW to \in {"saveAll", "save", "savePrune", "readAll"}, NEW b \in NodeMap,
             UpTo(b, now), Written(j, to, b)
      PROVE  AInv' /\ Elsewhere(j)
  <2>1. /\ BatchOK' /\ PcOK' /\ pc'[j] = to
        /\ \A i \in Slots \ {j} : pc'[i] = pc[i] /\ batch'[i] = batch[i]
    <3>1. /\ to \in Pcs \ {"delete"} /\ Goto(j, to) /\ UNCHANGED stale /\ UpTo(b, now')
          /\ batch' = [batch EXCEPT ![j] = b] /\ now' = now
      BY <1>3, <1>6, Zenon DEF Written, Pcs
    <3> QED
      BY <1>2, <1>3, <3>1, GotoTypes, ZenonT(30)
  <2>2. SnapOK' /\ UNCHANGED synced
    BY <1>4, <1>6, Zenon DEF Written
  <2>3. TInv' /\ Elsewhere(j)
    BY <1>2, <1>3, <1>4, <2>1, <2>2, LeftAlone, ZenonT(30) DEF TInv, NowOK, Elsewhere
  <2>4. Ahead'
    BY <2>1, <2>3, AheadKept, ZenonT(30)
  <2> QED
    BY <2>3, <2>4, Zenon DEF AInv
<1> QED
  BY <1>1, <1>4, <1>5, <1>6, WriteEnds, ZenonT(30)

\* doQuality reads the map, and the transactions change only the table.
LEMMA TableStep ==
    ASSUME OneJobEach, AInv, NEW j \in Slots,
           ReadAll(j) \/ SaveNodes(j) \/ SaveAll(j) \/ SelectStale(j) \/ DeleteStale(j) \/ StatementError(j)
    PROVE  AInv' /\ UNCHANGED <<hot, snap>> /\ pc'[j] \in {"idle", "saveAll", "prune", "select", "delete"}
<1>1. UNCHANGED <<hot, snap, now>>
  BY Zenon DEF ReadAll, SaveNodes, SaveAll, SelectStale, DeleteStale, StatementError
<1>2. /\ TInv /\ Home[j] \in Procs /\ hot[Home[j]] \in NodeMap /\ UpTo(hot[Home[j]], now)
      /\ batch[j] \in NodeMap /\ UpTo(batch[j], now) /\ table \in NodeMap /\ UpTo(table, now)
  BY HomeProc, Zenon DEF AInv, TInv, TableOK
<1>3. UNCHANGED batch => batch' = [batch EXCEPT ![j] = batch[j]]
  BY <1>2, Zenon DEF TInv, BatchOK
<1>4. synced' \in BOOLEAN
  BY <1>2, Zenon DEF ReadAll, SaveNodes, SaveAll, SelectStale, DeleteStale, StatementError, TInv, NowOK
<1>5. TableOK'
  <2>1. Saved(j) => TableOK'
    <3>1. Over(table, batch[j]) \in NodeMap /\ UpTo(Over(table, batch[j]), now)
      BY <1>2, OverMap, Zenon
    <3> QED
      BY <1>1, <3>1, Zenon DEF Saved, TableOK
  <2>2. CASE DeleteStale(j)
    <3>1. table' = Only(table, DOMAIN table \ stale[j])
      BY <2>2, Zenon DEF DeleteStale
    <3> QED
      BY <1>1, <1>2, <3>1, OnlyMap, ZenonT(30) DEF TableOK
  <2>3. Saved(j) \/ DeleteStale(j) \/ UNCHANGED table
    BY Zenon DEF ReadAll, SaveNodes, SaveAll, SelectStale, StatementError
  <2> QED
    BY <1>1, <1>2, <2>1, <2>2, <2>3, ZenonT(30) DEF TableOK
<1>6. /\ BatchOK' /\ PcOK' /\ pc'[j] \in {"idle", "saveAll", "prune", "select", "delete"}
      /\ \A i \in Slots \ {j} : pc'[i] = pc[i] /\ batch'[i] = batch[i]
  <2>1. CASE Done(j)
    BY <1>1, <1>2, <2>1, DoneTypes, ZenonT(30)
  <2>2. ASSUME NEW to \in {"saveAll", "prune", "select"}, NEW b \in {batch[j], hot[Home[j]]},
               Goto(j, to), batch' = [batch EXCEPT ![j] = b], UNCHANGED stale, pc[j] # "delete"
        PROVE  /\ BatchOK' /\ PcOK' /\ pc'[j] = to
               /\ \A i \in Slots \ {j} : pc'[i] = pc[i] /\ batch'[i] = batch[i]
    <3>1. to \in Pcs \ {"delete"} /\ b \in NodeMap /\ UpTo(b, now')
      BY <1>1, <1>2, Zenon DEF Pcs
    <3> QED
      BY <1>1, <1>2, <2>2, <3>1, GotoTypes, ZenonT(30)
  <2>3. CASE ReadAll(j)
    BY <2>2, <2>3, Zenon DEF ReadAll
  <2>4. CASE SaveNodes(j)
    BY <1>3, <2>1, <2>2, <2>4, ZenonT(30) DEF SaveNodes
  <2>5. CASE SaveAll(j)
    BY <1>3, <2>2, <2>5, ZenonT(30) DEF SaveAll
  <2>6. CASE SelectStale(j)
    <3>1. CASE /\ Goto(j, "delete") /\ stale' = [stale EXCEPT ![j] = Stale(j)] /\ UNCHANGED batch
      <4>1. Stale(j) \subseteq Nodes /\ Stale(j) \cap DOMAIN batch[j] = {}
        BY <1>2, Maps, Zenon DEF Stale
      <4>2. BatchOK'
        BY <1>1, <1>2, <3>1, ZenonT(30) DEF TInv, BatchOK
      <4>3. PcOK' /\ pc'[j] = "delete" /\ \A i \in Slots \ {j} : pc'[i] = pc[i] /\ batch'[i] = batch[i]
        <5> HIDE DEF Stale
        <5> QED
          BY <1>2, <3>1, <4>1, ZenonT(30) DEF TInv, PcOK, Pcs, Goto
      <4> QED
        BY <4>2, <4>3, Zenon
    <3> QED
      BY <2>1, <2>6, <3>1, ZenonT(30) DEF SelectStale
  <2>7. CASE DeleteStale(j) \/ StatementError(j)
    BY <2>1, <2>7, Zenon DEF DeleteStale, StatementError
  <2> QED
    BY <2>3, <2>4, <2>5, <2>6, <2>7, ZenonT(30)
<1>7. TInv'
  BY <1>1, <1>2, <1>4, <1>5, <1>6, LeftAlone, ZenonT(30) DEF TInv, NowOK
<1>8. Ahead'
  BY <1>1, <1>6, AheadKept, ZenonT(30) DEF Elsewhere
<1> QED
  BY <1>1, <1>6, <1>7, <1>8, ZenonT(30) DEF AInv

\* The process ends and starts again; what the snapshot and the table have is merged.
LEMMA RestartStep ==
    ASSUME AInv, NEW q \in Procs, Restart(q)
    PROVE  AInv' /\ \A p \in Procs \ {q} : hot'[p] = hot[p]
<1>1. /\ TInv /\ UNCHANGED <<table, now>> /\ Persisted(q)
      /\ snap[q] \in NodeMap /\ UpTo(snap[q], now) /\ table \in NodeMap /\ UpTo(table, now)
  BY Zenon DEF AInv, TInv, SnapOK, TableOK, Restart
<1>2. PICK f \in NodeMap : hot' = [hot EXCEPT ![q] = f] /\ UpTo(f, now)
  <2>1. \/ \E D \in SUBSET DOMAIN table : hot' = [hot EXCEPT ![q] = Restored(q, D)]
        \/ hot' = [hot EXCEPT ![q] = Load(q)]
    BY Zenon DEF Restart
  <2>2. ASSUME NEW D \in SUBSET DOMAIN table
        PROVE  Restored(q, D) \in NodeMap /\ UpTo(Restored(q, D), now)
    <3>1. Only(table, D) \in NodeMap /\ UpTo(Only(table, D), now)
      BY <1>1, OnlyMap, Zenon
    <3>2. Merged(Only(table, D), snap[q]) \in NodeMap /\ UpTo(Merged(Only(table, D), snap[q]), now)
      BY <1>1, <3>1, MergedMap, ZenonT(30)
    <3> QED
      BY <1>1, <3>2, Zenon DEF Restored, Load
  <2> QED
    BY <1>1, <2>1, <2>2, ZenonT(30) DEF Load
<1>3. HotOK' /\ SnapOK' /\ \A p \in Procs \ {q} : hot'[p] = hot[p]
  BY <1>1, <1>2, HotTypes, Zenon
<1>4. synced' \in BOOLEAN
  BY Zenon DEF Restart
<1>5. /\ \A j \in Slots : Home[j] = q => pc'[j] = "idle" /\ batch'[j] = Empty /\ stale'[j] = {}
      /\ \A j \in Slots : Home[j] # q => pc'[j] = pc[j] /\ batch'[j] = batch[j] /\ stale'[j] = stale[j]
      /\ pc' \in [Slots -> Pcs] /\ batch' \in [Slots -> NodeMap] /\ stale' \in [Slots -> SUBSET Nodes]
  <2>1. /\ pc' = [j \in Slots |-> IF Home[j] = q THEN "idle" ELSE pc[j]]
        /\ batch' = [j \in Slots |-> IF Home[j] = q THEN Empty ELSE batch[j]]
        /\ stale' = [j \in Slots |-> IF Home[j] = q THEN {} ELSE stale[j]]
    BY Zenon DEF Restart
  <2> QED
    BY <1>1, <2>1, EmptyMap, ZenonT(30) DEF TInv, PcOK, BatchOK, Pcs
<1>6. BatchOK' /\ PcOK'
  <2>1. ASSUME NEW j \in Slots
        PROVE  /\ UpTo(batch'[j], now) /\ (pc'[j] # "delete" => stale'[j] = {})
               /\ stale'[j] \cap DOMAIN batch'[j] = {}
    BY <1>1, <1>5, EmptyMap, ZenonT(30) DEF TInv, BatchOK, PcOK
  <2> QED
    BY <1>1, <1>5, <2>1, ZenonT(30) DEF BatchOK, PcOK
<1>7. TInv'
  BY <1>1, <1>3, <1>4, <1>6, LeftAlone, ZenonT(30) DEF TInv, NowOK
<1>8. Ahead'
  <2>1. ASSUME NEW j \in Slots
        PROVE  /\ pc'[j] = "replace" => NotOlder(batch'[j], hot'[Home[j]])
               /\ pc'[j] = "upsert" => Clones(batch'[j], hot'[Home[j]])
    <3>1. CASE Home[j] = q
      BY <1>5, <3>1, Zenon
    <3>2. CASE Home[j] # q
      <4>1. Home[j] \in Procs \ {q}
        BY <3>2, StoreAssumption, Zenon
      <4> QED
        BY <1>3, <1>5, <3>2, <4>1, ZenonT(30) DEF AInv, Ahead
    <3> QED
      BY <3>1, <3>2, Zenon
  <2> QED
    BY <2>1, Zenon DEF Ahead
<1> QED
  BY <1>3, <1>7, <1>8, ZenonT(30) DEF AInv

\* The invariant holds at the start.
LEMMA InitAInv == Init => AInv
<1> SUFFICES ASSUME Init PROVE AInv
  BY Zenon
<1>1. TInv
  BY EmptyMap, StoreAssumption DEF Init, TInv, HotOK, SnapOK, TableOK, BatchOK, PcOK, Pcs, NowOK
<1>2. Ahead
  BY Zenon DEF Init, Ahead
<1> QED
  BY <1>1, <1>2, Zenon DEF AInv

\* Every step keeps the invariant; all but a restart keep what is known of the
\* nodes.
LEMMA StepAInv ==
    ASSUME OneJobEach, AInv, [Next]_vars
    PROVE  /\ AInv'
           /\ \A p \in Procs : ~Restart(p) => Kept(hot[p], hot'[p])
<1>1. \A p \in Procs : hot[p] \in NodeMap /\ Kept(hot[p], hot[p])
  BY KeptSame, Zenon DEF AInv, TInv, HotOK
<1>2. CASE UNCHANGED vars
  BY <1>1, <1>2, Zenon DEF vars, slotVars, AInv, TInv, HotOK, SnapOK, TableOK, BatchOK, PcOK, NowOK, Ahead
<1>3. ASSUME NEW q \in Procs, Restart(q)
      PROVE  AInv' /\ \A p \in Procs : ~Restart(p) => Kept(hot[p], hot'[p])
  <2>1. AInv' /\ \A p \in Procs \ {q} : hot'[p] = hot[p]
    BY <1>3, RestartStep, ZenonT(30)
  <2> QED
    BY <1>1, <1>3, <2>1, ZenonT(30)
<1>4. ASSUME NEW j \in Slots, SlotStep(j)
      PROVE  AInv' /\ \A p \in Procs : Kept(hot[p], hot'[p])
  <2>1. CASE FetchAll(j) \/ TestAll(j) \/ AnnotateNodes(j)
    <3>1. /\ TInv' /\ Elsewhere(j) /\ UNCHANGED hot
          /\ \/ pc'[j] = "replace" /\ NotOlder(batch'[j], hot[Home[j]])
             \/ pc'[j] = "upsert" /\ Clones(batch'[j], hot[Home[j]])
      BY <2>1, BeginStep, Zenon DEF AInv
    <3>2. Ahead'
      BY <3>1, AheadKept, Zenon
    <3> QED
      BY <1>1, <3>1, <3>2, ZenonT(30) DEF AInv
  <2>2. CASE ReplaceNodes(j) \/ UpsertNodes(j) \/ Prune(j)
    BY <1>1, <2>2, WriteStep, ZenonT(30) DEF Elsewhere
  <2>3. CASE ReadAll(j) \/ SaveNodes(j) \/ SaveAll(j) \/ SelectStale(j) \/ DeleteStale(j) \/ StatementError(j)
    BY <1>1, <2>3, TableStep, ZenonT(30)
  <2> QED
    BY <1>4, <2>1, <2>2, <2>3, ZenonT(30) DEF SlotStep
<1> QED
  BY <1>2, <1>3, <1>4, ZenonT(30) DEF Next

\* Whatever other processes do, in a process that runs one job at a time a node that
\* stays keeps what is known of it (UpsertNodes, ReplaceNodes, mergeObservations), for
\* any nodes, sources and caps.
THEOREM NothingForgotten ==
    ASSUME OneJobEach
    PROVE  Spec => ObservationsKept
<1>1. AInv /\ [Next]_vars => AInv'
  BY StepAInv, Zenon
<1>2. AInv /\ [Next]_vars =>
        [\A p \in Procs : ~Restart(p) =>
          \A n \in DOMAIN hot[p] \cap DOMAIN hot'[p] :
             /\ hot'[p][n].seen >= hot[p][n].seen
             /\ hot'[p][n].tested >= hot[p][n].tested
             /\ hot[p][n].geo => hot'[p][n].geo]_vars
  BY StepAInv, Zenon DEF Kept
<1> QED
  BY <1>1, <1>2, InitAInv, PTL DEF Spec, ObservationsKept

-----------------------------------------------------------------------------
(* One process that runs one job at a time, and the table.                 *)

Alone(p, j) == Procs = {p} /\ Slots = {j}

\* While nothing failed, the table follows the map.
TableFollows(p, j) ==
    /\ synced /\ pc[j] \in {"idle", "replace", "upsert", "prune"} => table = hot[p]
    /\ synced /\ pc[j] \in {"save", "savePrune"} => hot[p] = Over(table, batch[j])

\* db.ReplaceNodes makes it do so again, whatever was in the table.
Replacing(p, j) ==
    /\ pc[j] \in {"saveAll", "select", "delete"} => batch[j] = hot[p]
    /\ pc[j] \in {"select", "delete"} =>
          /\ DOMAIN batch[j] \subseteq DOMAIN table
          /\ \A n \in DOMAIN batch[j] : table[n] = batch[j][n]
    /\ pc[j] = "delete" => stale[j] = DOMAIN table \ DOMAIN batch[j]

\* The snapshot is that of the map, until a write of it fails.
SnapFollows(p, j) ==
    /\ p \in Persistent /\ (synced \/ pc[j] \in {"readAll", "saveAll", "select", "delete"})
          => snap[p] = hot[p]
    /\ p \notin Persistent => snap[p] = Empty

SInv(p, j) == AInv /\ TableFollows(p, j) /\ Replacing(p, j) /\ SnapFollows(p, j)

\* A process that is alone runs one job at a time.
LEMMA AloneFacts ==
    ASSUME NEW p, NEW j, Alone(p, j)
    PROVE  p \in Procs /\ j \in Slots /\ Home[j] = p /\ OneJobEach
BY StoreAssumption, ZenonT(30) DEF Alone, OneJobEach

\* A phase that takes its clones.
LEMMA BeginFollows ==
    ASSUME NEW p, NEW j, Alone(p, j), SInv(p, j), FetchAll(j) \/ TestAll(j) \/ AnnotateNodes(j)
    PROVE  TableFollows(p, j)' /\ Replacing(p, j)' /\ SnapFollows(p, j)'
<1>1. /\ UNCHANGED <<hot, snap, table, synced>> /\ pc[j] = "idle" /\ pc'[j] \in {"replace", "upsert"}
  BY AloneFacts, BeginStep, Zenon DEF SInv, AInv
<1> QED
  BY <1>1, ZenonT(30) DEF SInv, TableFollows, Replacing, SnapFollows

\* A phase that writes the map and the snapshot.
LEMMA WriteFollows ==
    ASSUME NEW p, NEW j, Alone(p, j), SInv(p, j), ReplaceNodes(j) \/ UpsertNodes(j) \/ Prune(j)
    PROVE  TableFollows(p, j)' /\ Replacing(p, j)' /\ SnapFollows(p, j)'
<1>1. p \in Procs /\ j \in Slots /\ Home[j] = p /\ AInv /\ TInv
  BY AloneFacts, Zenon DEF SInv, AInv
<1>2. /\ UNCHANGED <<table, now>> /\ pc[j] \in {"replace", "upsert", "prune"}
      /\ \/ Done(j) /\ synced' = FALSE /\ UNCHANGED snap
         \/ \E to \in {"saveAll", "save", "savePrune", "readAll"} : \E b \in NodeMap :
               UpTo(b, now) /\ Written(j, to, b)
  BY <1>1, WriteEnds, Zenon
<1>3. PICK f \in NodeMap : /\ hot' = [hot EXCEPT ![p] = f] /\ UpTo(f, now)
                           /\ pc[j] = "upsert" => f = Over(hot[p], batch[j])
  BY <1>1, WrittenMap, Zenon
<1>4. hot'[p] = f /\ (Persisted(p) => (p \in Persistent => snap'[p] = f))
  BY <1>1, <1>2, <1>3, HotTypes, ZenonT(30)
<1>5. Persisted(p) /\ p \notin Persistent => snap'[p] = snap[p]
  BY Zenon DEF Persisted
<1>6. CASE Done(j) /\ synced' = FALSE /\ UNCHANGED snap
  <2>1. pc'[j] = "idle"
    BY <1>1, <1>2, <1>6, DoneTypes, ZenonT(30)
  <2> QED
    BY <1>6, <2>1, ZenonT(30) DEF SInv, TableFollows, Replacing, SnapFollows
<1>7. ASSUME NEW to \in {"saveAll", "save", "savePrune", "readAll"}, NEW b \in NodeMap,
             UpTo(b, now), Written(j, to, b)
      PROVE  TableFollows(p, j)' /\ Replacing(p, j)' /\ SnapFollows(p, j)'
  <2>1. /\ pc'[j] = to /\ batch'[j] = b
    BY <1>1, <1>7, Zenon DEF Written, Goto, TInv, PcOK, BatchOK
  <2>2. /\ UNCHANGED synced /\ Persisted(p) /\ (to = "saveAll" => b = f)
        /\ to \in {"save", "savePrune"} => b = batch[j] /\ pc[j] = "upsert"
    BY <1>1, <1>4, <1>7, ZenonT(30) DEF Written
  <2>3. TableFollows(p, j)'
    <3>1. synced' /\ pc'[j] \in {"save", "savePrune"} => hot'[p] = Over(table', batch'[j])
      <4> SUFFICES ASSUME synced, to \in {"save", "savePrune"} PROVE f = Over(table, b)
        BY <1>2, <1>4, <2>1, <2>2, ZenonT(30)
      <4>1. table = hot[p] /\ b = batch[j] /\ pc[j] = "upsert"
        BY <2>2, ZenonT(30) DEF SInv, TableFollows
      <4> QED
        BY <1>3, <4>1, Zenon
    <3> QED
      BY <2>1, <3>1, Zenon DEF TableFollows
  <2>4. Replacing(p, j)'
    BY <1>4, <2>1, <2>2, ZenonT(30) DEF Replacing
  <2>5. SnapFollows(p, j)'
    BY <1>4, <1>5, <2>2, ZenonT(30) DEF SInv, SnapFollows
  <2> QED
    BY <2>3, <2>4, <2>5, ZenonT(30)
<1> QED
  BY <1>2, <1>6, <1>7, Zenon

\* A phase that writes the table.
LEMMA TableStepFollows ==
    ASSUME NEW p, NEW j, Alone(p, j), SInv(p, j),
           ReadAll(j) \/ SaveNodes(j) \/ SaveAll(j) \/ SelectStale(j) \/ DeleteStale(j) \/ StatementError(j)
    PROVE  TableFollows(p, j)' /\ Replacing(p, j)' /\ SnapFollows(p, j)'
<1>1. /\ p \in Procs /\ j \in Slots /\ Home[j] = p /\ OneJobEach /\ AInv /\ TInv
      /\ hot[p] \in NodeMap /\ batch[j] \in NodeMap /\ table \in NodeMap
  BY AloneFacts, ZenonT(30) DEF SInv, AInv, TInv, HotOK, BatchOK, TableOK
<1>2. UNCHANGED <<hot, snap>> /\ AInv'
  BY <1>1, TableStep, ZenonT(30)
<1>3. \A to : Goto(j, to) => pc'[j] = to
  BY <1>1, Zenon DEF Goto, TInv, PcOK
<1>4. Done(j) => pc'[j] = "idle"
  BY <1>3, ZenonT(30) DEF Done
<1>5. CASE ReadAll(j)
  <2>1. /\ pc[j] = "readAll" /\ pc'[j] = "saveAll" /\ batch'[j] = hot[p] /\ UNCHANGED synced
    BY <1>1, <1>3, <1>5, ZenonT(30) DEF ReadAll, TInv, BatchOK
  <2> QED
    BY <1>2, <2>1, Zenon DEF SInv, TableFollows, Replacing, SnapFollows
<1>6. CASE SaveNodes(j)
  <2>1. /\ pc[j] \in {"save", "savePrune"} /\ pc'[j] \in {"idle", "prune"}
        /\ table' = Over(table, batch[j]) /\ UNCHANGED synced
    BY <1>3, <1>4, <1>6, ZenonT(30) DEF SaveNodes, Saved
  <2>2. TableFollows(p, j)'
    BY <1>2, <2>1, ZenonT(30) DEF SInv, TableFollows
  <2> QED
    BY <1>2, <2>1, <2>2, ZenonT(30) DEF SInv, Replacing, SnapFollows
<1>7. CASE SaveAll(j)
  <2>1. /\ pc[j] = "saveAll" /\ pc'[j] = "select" /\ UNCHANGED <<batch, synced>>
        /\ table' = Over(table, batch[j])
    BY <1>3, <1>7, Zenon DEF SaveAll, Saved
  <2>2. DOMAIN batch[j] \subseteq DOMAIN table' /\ \A n \in DOMAIN batch[j] : table'[n] = batch[j][n]
    <3>1. /\ DOMAIN Over(table, batch[j]) = DOMAIN table \cup DOMAIN batch[j]
          /\ \A n \in DOMAIN batch[j] : Over(table, batch[j])[n] = batch[j][n]
      BY <1>1, OverMap, Zenon
    <3> QED
      BY <2>1, <3>1, Zenon
  <2> QED
    BY <1>2, <2>1, <2>2, ZenonT(30) DEF SInv, TableFollows, Replacing, SnapFollows
<1>8. CASE SelectStale(j)
  <2>1. /\ pc[j] = "select" /\ UNCHANGED table /\ batch[j] = hot[p]
        /\ DOMAIN batch[j] \subseteq DOMAIN table /\ \A n \in DOMAIN batch[j] : table[n] = batch[j][n]
        /\ p \in Persistent => snap[p] = hot[p]
    BY <1>8, Zenon DEF SelectStale, SInv, Replacing, SnapFollows
  <2>2. CASE Stale(j) = {}
    <3>1. DOMAIN table = DOMAIN batch[j]
      BY <2>1, <2>2, Zenon DEF Stale
    <3>2. table = hot[p]
      BY <1>1, <2>1, <3>1, SameMap, ZenonT(30)
    <3>3. pc'[j] = "idle"
      BY <1>4, <1>8, <2>2, ZenonT(30) DEF SelectStale
    <3> QED
      BY <1>2, <2>1, <3>2, <3>3, ZenonT(30) DEF SInv, TableFollows, Replacing, SnapFollows
  <2>3. CASE Stale(j) # {}
    <3>1. /\ pc'[j] = "delete" /\ UNCHANGED <<batch, synced>>
          /\ stale'[j] = DOMAIN table \ DOMAIN batch[j]
      BY <1>1, <1>3, <1>8, <2>3, ZenonT(30) DEF SelectStale, Stale, TInv, PcOK
    <3> QED
      BY <1>2, <2>1, <3>1, ZenonT(30) DEF SInv, TableFollows, Replacing, SnapFollows
  <2> QED
    BY <2>2, <2>3, Zenon
<1>9. CASE DeleteStale(j)
  <2>1. /\ pc[j] = "delete" /\ batch[j] = hot[p] /\ stale[j] = DOMAIN table \ DOMAIN batch[j]
        /\ DOMAIN batch[j] \subseteq DOMAIN table /\ \A n \in DOMAIN batch[j] : table[n] = batch[j][n]
        /\ p \in Persistent => snap[p] = hot[p]
    BY <1>9, Zenon DEF DeleteStale, SInv, Replacing, SnapFollows
  <2>2. table' = Only(table, DOMAIN table \ stale[j]) /\ pc'[j] = "idle"
    BY <1>4, <1>9, Zenon DEF DeleteStale
  <2>3. DOMAIN table \ stale[j] = DOMAIN batch[j]
    BY <2>1, Zenon
  <2>4. table' = hot[p]
    <3>1. /\ Only(table, DOMAIN batch[j]) \in NodeMap
          /\ DOMAIN Only(table, DOMAIN batch[j]) = DOMAIN batch[j]
          /\ \A n \in DOMAIN batch[j] : Only(table, DOMAIN batch[j])[n] = table[n]
      BY <1>1, <2>1, OnlyMap, ZenonT(30)
    <3>2. Only(table, DOMAIN batch[j]) = batch[j]
      BY <1>1, <2>1, <3>1, SameMap, SMTT(30)
    <3> QED
      BY <2>1, <2>2, <2>3, <3>2, ZenonT(30)
  <2> QED
    BY <1>2, <2>1, <2>2, <2>4, ZenonT(30) DEF SInv, TableFollows, Replacing, SnapFollows
<1>10. CASE StatementError(j)
  <2>1. pc'[j] = "idle" /\ synced' = FALSE
    BY <1>4, <1>10, Zenon DEF StatementError
  <2> QED
    BY <1>2, <2>1, Zenon DEF SInv, TableFollows, Replacing, SnapFollows
<1> QED
  BY <1>5, <1>6, <1>7, <1>8, <1>9, <1>10, ZenonT(30)

\* A map merged with itself, or with nothing, is the same map.
LEMMA MergedSame ==
    ASSUME NEW f \in NodeMap, NEW g \in NodeMap, g = f \/ g = Empty
    PROVE  Merged(f, g) = f
<1>1. /\ Merged(f, g) \in NodeMap /\ DOMAIN Merged(f, g) = DOMAIN f
      /\ \A n \in DOMAIN f \cap DOMAIN g : Merged(f, g)[n] = MergeObservations(f[n], g[n])
      /\ \A n \in DOMAIN f \ DOMAIN g : Merged(f, g)[n] = f[n]
  BY MergedMap, Zenon
<1>2. ASSUME NEW n \in DOMAIN f PROVE Merged(f, g)[n] = f[n]
  <2>1. CASE g = Empty
    BY <1>1, <2>1, EmptyMap, ZenonT(30)
  <2>2. CASE g = f
    <3>1. f[n] \in Record
      BY Maps, Zenon
    <3>2. MergeObservations(f[n], f[n]) = f[n]
      BY <3>1, MergeFacts, Zenon
    <3> QED
      BY <1>1, <2>2, <3>2, ZenonT(30)
  <2> QED
    BY <2>1, <2>2, Zenon
<1> QED
  BY <1>1, <1>2, SameMap, ZenonT(30)

\* A start that finds table, map and snapshot equal, and no more rows than LoadNodes
\* returns, changes nothing that it can read.
LEMMA StartsSame ==
    ASSUME NEW p, NEW j, Alone(p, j), SInv(p, j), Restart(p), pc[j] = "idle", synced,
           Cardinality(DOMAIN table) <= MaxNodes
    PROVE  /\ hot'[p] = hot[p] \/ (p \notin Persistent /\ synced' = FALSE)
           /\ table = hot[p]
<1>1. /\ p \in Procs /\ TInv /\ table \in NodeMap /\ hot[p] \in NodeMap /\ hot \in [Procs -> NodeMap]
      /\ snap[p] \in NodeMap
  BY AloneFacts, Zenon DEF SInv, AInv, TInv, TableOK, HotOK, SnapOK
<1>2. table = hot[p] /\ (snap[p] = table \/ (p \notin Persistent /\ snap[p] = Empty))
  BY Zenon DEF SInv, TableFollows, SnapFollows
<1>3. ASSUME NEW D \in SUBSET DOMAIN table, Loadable(D) PROVE Restored(p, D) = table
  <2>1. D = DOMAIN table
    BY <1>3, Zenon DEF Loadable
  <2>2. Only(table, D) = table
    <3>1. /\ Only(table, D) \in NodeMap /\ DOMAIN Only(table, D) = D
          /\ \A n \in D : Only(table, D)[n] = table[n]
      BY <1>1, OnlyMap, Zenon
    <3> QED
      BY <1>1, <2>1, <3>1, SameMap, ZenonT(30)
  <2>3. Merged(table, snap[p]) = table
    BY <1>1, <1>2, MergedSame, ZenonT(30)
  <2>4. CASE D = {}
    <3>1. snap[p] = table
      <4>1. table = Empty
        BY <1>1, <2>1, <2>4, EmptyMap, SameMap, ZenonT(30)
      <4> QED
        BY <1>2, <4>1, Zenon
    <3> QED
      BY <2>4, <3>1, Zenon DEF Restored, Load
  <2> QED
    BY <2>2, <2>3, <2>4, ZenonT(30) DEF Restored, Load
<1>4. \/ \E D \in SUBSET DOMAIN table : Loadable(D) /\ hot' = [hot EXCEPT ![p] = Restored(p, D)]
      \/ /\ hot' = [hot EXCEPT ![p] = snap[p]]
         /\ p \notin Persistent => synced' = FALSE
  BY Zenon DEF Restart, Load
<1>5. CASE \E D \in SUBSET DOMAIN table : Loadable(D) /\ hot' = [hot EXCEPT ![p] = Restored(p, D)]
  BY <1>1, <1>2, <1>3, <1>5, ZenonT(30)
<1>6. CASE hot' = [hot EXCEPT ![p] = snap[p]] /\ (p \notin Persistent => synced' = FALSE)
  BY <1>1, <1>2, <1>6, ZenonT(30)
<1> QED
  BY <1>2, <1>4, <1>5, <1>6, ZenonT(30)

\* A restart.
LEMMA RestartFollows ==
    ASSUME NEW p, NEW j, Alone(p, j), SInv(p, j), Restart(p)
    PROVE  TableFollows(p, j)' /\ Replacing(p, j)' /\ SnapFollows(p, j)'
<1>1. p \in Procs /\ j \in Slots /\ Home[j] = p /\ Slots = {j} /\ hot \in [Procs -> NodeMap]
      /\ snap \in [Procs -> NodeMap]
  BY AloneFacts, ZenonT(30) DEF Alone, SInv, AInv, TInv, HotOK, SnapOK
<1>2. pc'[j] = "idle" /\ UNCHANGED table /\ Persisted(p)
  BY <1>1, Zenon DEF Restart
<1>3. synced' => synced /\ pc[j] = "idle" /\ Cardinality(DOMAIN table) <= MaxNodes
  BY <1>1, Zenon DEF Restart
<1>4. TableFollows(p, j)'
  <2>1. synced' => table' = hot'[p]
    <3> SUFFICES ASSUME synced' PROVE table' = hot'[p]
      BY Zenon
    <3>1. synced /\ pc[j] = "idle" /\ Cardinality(DOMAIN table) <= MaxNodes
      BY <1>3, Zenon
    <3>2. /\ hot'[p] = hot[p] \/ (p \notin Persistent /\ synced' = FALSE)
          /\ table = hot[p]
      BY <3>1, StartsSame, Zenon
    <3> QED
      BY <1>2, <3>2, Zenon
  <2> QED
    BY <1>2, <2>1, Zenon DEF TableFollows
<1>5. SnapFollows(p, j)'
  BY <1>1, <1>2, Zenon DEF Persisted, SInv, SnapFollows
<1> QED
  BY <1>2, <1>4, <1>5, ZenonT(30) DEF Replacing

\* The invariant holds at the start.
LEMMA InitSInv == ASSUME NEW p, NEW j, Alone(p, j), Init PROVE SInv(p, j)
<1>1. AInv
  BY InitAInv, Zenon
<1>2. p \in Procs /\ j \in Slots
  BY AloneFacts, Zenon
<1> QED
  BY <1>1, <1>2, Zenon DEF Init, SInv, TableFollows, Replacing, SnapFollows

\* Every step keeps the invariant.
LEMMA StepSInv ==
    ASSUME NEW p, NEW j, Alone(p, j), SInv(p, j), [Next]_vars
    PROVE  SInv(p, j)'
<1>1. AInv' /\ Procs = {p} /\ Slots = {j}
  BY AloneFacts, StepAInv, Zenon DEF SInv, Alone
<1>2. CASE UNCHANGED vars
  BY <1>1, <1>2, Zenon DEF vars, slotVars, SInv, TableFollows, Replacing, SnapFollows
<1>3. CASE SlotStep(j)
  BY <1>1, <1>3, BeginFollows, WriteFollows, TableStepFollows, ZenonT(30) DEF SlotStep, SInv
<1>4. CASE Restart(p)
  BY <1>1, <1>4, RestartFollows, ZenonT(30) DEF SInv
<1> QED
  BY <1>1, <1>2, <1>3, <1>4, ZenonT(30) DEF Next

\* In a process that is alone and runs one job at a time, the table and the map are
\* equal at rest, unless a phase was cut short since the table was last replaced
\* (upsertNodes, db.ReplaceNodes, NewWithOptions), for any nodes, sources and caps.
THEOREM TableEqualsMap ==
    ASSUME NEW p, NEW j, Alone(p, j)
    PROVE  Spec => []TableIsMap
<1>1. Init => SInv(p, j)
  BY InitSInv, Zenon
<1>2. SInv(p, j) /\ [Next]_vars => SInv(p, j)'
  BY StepSInv, Zenon
<1>3. SInv(p, j) => TableIsMap
  BY Zenon DEF Alone, SInv, TableFollows, TableIsMap, AtRest
<1> QED
  BY <1>1, <1>2, <1>3, PTL DEF Spec

\* Such a process, with a snapshot, comes back from a restart between two jobs with the
\* nodes that it had, whether or not it can read the table (New, NewWithOptions,
\* LoadNodes).
THEOREM RestartKeepsNodes ==
    ASSUME NEW q, NEW j, Alone(q, j)
    PROVE  Spec => RestartHarmless
<1>1. Init => SInv(q, j)
  BY InitSInv, Zenon
<1>2. SInv(q, j) /\ [Next]_vars => SInv(q, j)'
  BY StepSInv, Zenon
<1>3. SInv(q, j) /\ [Next]_vars =>
        [\A p \in Procs :
          Restart(p) /\ p \in Persistent /\ AtRest /\ synced /\ Cardinality(DOMAIN table) <= MaxNodes
             => hot'[p] = hot[p]]_vars
  <2> SUFFICES ASSUME SInv(q, j), Restart(q), q \in Persistent, AtRest, synced,
                      Cardinality(DOMAIN table) <= MaxNodes
               PROVE  hot'[q] = hot[q]
    BY Zenon DEF Alone
  <2>1. pc[j] = "idle"
    BY Zenon DEF Alone, AtRest
  <2> QED
    BY <2>1, StartsSame, Zenon
<1> QED
  BY <1>1, <1>2, <1>3, PTL DEF Spec, RestartHarmless
=============================================================================
