------------------------- MODULE SubscriptionProofs -------------------------
(***************************************************************************)
(* What a subscriber meets, for every value of the constants: the cache of *)
(* publications, and the daily quota and the byte count of a token.        *)
(***************************************************************************)
EXTENDS PublishCache, TokenUsage, FiniteSetTheorems, TLAPS

-----------------------------------------------------------------------------
(* The published subscription, for any processes, requests, settings and   *)
(* rendered bodies.  Each of the three properties follows an update or a   *)
(* refresh through its steps: what a request has saved and not yet stored, *)
(* what a refresh has read and not yet rendered, what a refresh has        *)
(* written and not yet labelled.                                           *)

\* The running configuration is the saved one, but for one update between
\* SaveConfigVersion and StoreConfig.
UpdateInOrder ==
    ~raced => /\ \A r, s \in UpdatesUnderWay : r = s
              /\ \A r \in Requests : upd[r].pc = "store" => version = upd[r].cfg
              /\ (\A r \in Requests : upd[r].pc # "store") => cfg[Api] = Persisted

\* An update was stored in p, and the refresh that follows has not begun.
Stale(p) == p = Api /\ \E r \in Requests : upd[r].pc = "refresh"

\* Unless another refresh is to follow, a refresh has read the running policy, and
\* what is served after it was rendered under the running configuration.
RefreshInOrder ==
    \A p \in Procs : ~Stale(p) =>
        IF rf[p].pc \in {"acquire", "select"} THEN rf[p].policy = cfg[p]
        ELSE mem[p] # Nowhere =>
                /\ LabelOf(mem[p]) = publishPolicy(cfg[p])
                /\ own[p] => blobs[mem[p]["raw"]].selected = cfg[p]

\* What this run of p rendered has a body.
OwnRendered == \A p \in Procs : own[p] => mem[p]["raw"] > 0

\* Unless one went without it, a refresh beyond its start has the lock to itself.
LockHeld ==
    ~exposed => \A p \in Procs : /\ rf[p].pc \notin {"idle", "acquire"} => rf[p].mine
                                 /\ rf[p].mine => lock = p

\* The refresh that writes the files rendered the newest blob, and the files before
\* the next one hold it.
FilesInOrder ==
    ~exposed => \A p \in Procs : rf[p].pc = "persist" =>
        /\ rf[p].blob = Len(blobs) /\ rf[p].next > 0
        /\ \A i \in 1..(rf[p].next - 1) : disk[Parts[i]] = rf[p].blob

PInv == /\ TypeOK /\ UpdateInOrder /\ RefreshInOrder /\ OwnRendered
        /\ LockHeld /\ FilesInOrder /\ LabelNeverAhead
-----------------------------------------------------------------------------
(* Files and refreshes.                                                    *)

\* persist writes the label after the bodies, each under a name of its own.
LEMMA PartsFacts ==
    /\ Len(Parts) \in Nat \ {0}
    /\ \A i \in 1..Len(Parts) : Parts[i] \in Names
    /\ \A n \in Names : \E i \in 1..Len(Parts) : n = Parts[i]
    /\ \A i \in 1..Len(Parts) : Parts[i] = "meta" <=> i = Len(Parts)
    /\ {"raw", "meta"} \subseteq Names
<1>1. Bodies \in Seq(STRING)
  BY PublishAssumption, Zenon
<1>2. Len(Parts) = Len(Bodies) + 1 /\ Len(Bodies) \in Nat
  BY <1>1 DEF Parts
<1>3. Parts[Len(Parts)] = "meta" /\ \A i \in 1..Len(Bodies) : Parts[i] = Bodies[i]
  BY <1>1, <1>2 DEF Parts
<1>4. DOMAIN Parts = 1..Len(Parts) /\ DOMAIN Bodies = 1..Len(Bodies)
  BY <1>1, <1>2 DEF Parts
<1>5. \A i \in 1..Len(Bodies) : Bodies[i] # "meta"
  BY <1>4, PublishAssumption, Zenon DEF Range
<1>6. \E i \in 1..Len(Bodies) : Bodies[i] = "raw"
  BY <1>4, PublishAssumption, Zenon DEF Range
<1>7. \A i \in 1..Len(Parts) : i = Len(Parts) \/ i \in 1..Len(Bodies)
  BY <1>2
<1>8. \A i \in 1..Len(Bodies) : i \in 1..Len(Parts) /\ i # Len(Parts)
  BY <1>2
<1>9. Len(Parts) \in 1..Len(Parts)
  BY <1>2
<1> QED
  BY <1>2, <1>3, <1>4, <1>5, <1>6, <1>7, <1>8, <1>9, SMTT(30) DEF Names, Range

Refresh == [pc : {"idle", "acquire", "select", "persist", "redis", "release"},
            policy : Values, mine : BOOLEAN, blob : 0..Len(blobs), next : 0..Len(Parts)]

\* The refresh of p becomes r; the others go on.
RefreshIs(p, r) == rf' = [rf EXCEPT ![p] = r]

At(p, pc, mine, next) == [pc |-> pc, policy |-> rf[p].policy, mine |-> mine,
                          blob |-> rf[p].blob, next |-> next]

\* Changing the fields of a refresh.
LEMMA FieldWrites ==
    ASSUME TypeOK, NEW p \in Procs, NEW to, NEW m, NEW n,
           rf' = [rf EXCEPT ![p] = [rf[p] EXCEPT !.pc = to, !.mine = m, !.next = n]]
    PROVE  RefreshIs(p, At(p, to, m, n))
<1> DEFINE r == rf[p]
<1>1. r \in Refresh
  BY Zenon DEF TypeOK, Refresh
<1> HIDE DEF r
<1>2. ASSUME NEW q, q = [r EXCEPT !.pc = to, !.mine = m, !.next = n]
      PROVE  q = [pc |-> to, policy |-> r.policy, mine |-> m, blob |-> r.blob, next |-> n]
  BY <1>1, <1>2, Zenon DEF Refresh
<1> QED
  BY <1>2, Zenon DEF r, At, RefreshIs

\* Where each step of a refresh leads.
LEMMA RefreshMoves ==
    ASSUME TypeOK, NEW p \in Procs
    PROVE  /\ rf[p] \in Refresh
           /\ Begin(p) => RefreshIs(p, [pc |-> "acquire", policy |-> cfg[p], mine |-> FALSE,
                                        blob |-> 0, next |-> 0])
           /\ Acquire(p) => RefreshIs(p, At(p, "select", TRUE, rf[p].next))
           /\ Unlocked(p) => RefreshIs(p, At(p, "select", rf[p].mine, rf[p].next))
           /\ Update(p) => RefreshIs(p, [pc |-> "persist", policy |-> Initial, mine |-> rf[p].mine,
                                         blob |-> Len(blobs) + 1, next |-> 1])
           /\ Persist(p) => RefreshIs(p, IF rf[p].next = Len(Parts)
                                         THEN At(p, "redis", rf[p].mine, 0)
                                         ELSE At(p, "persist", rf[p].mine, rf[p].next + 1))
           /\ PersistError(p) => RefreshIs(p, At(p, "redis", rf[p].mine, 0))
           /\ SetSnapshot(p) => RefreshIs(p, At(p, "release", rf[p].mine, rf[p].next))
           /\ TakeOver(p) \/ Release(p) \/ Restart(p) => RefreshIs(p, Idle)
<1>1. rf[p] \in Refresh /\ rf \in [Procs -> Refresh]
  BY Zenon DEF TypeOK, Refresh
<1>2. Begin(p) => RefreshIs(p, [pc |-> "acquire", policy |-> cfg[p], mine |-> FALSE,
                                blob |-> 0, next |-> 0])
  BY Zenon DEF Begin, Idle, publishPolicy, RefreshIs
<1>3. ASSUME NEW to, Step(p, to)
      PROVE  RefreshIs(p, At(p, to, rf[p].mine, rf[p].next))
  <2>1. rf' = [rf EXCEPT ![p] = [rf[p] EXCEPT !.pc = to, !.mine = rf[p].mine, !.next = rf[p].next]]
    BY <1>1, <1>3, Zenon DEF Step, Refresh
  <2> QED
    BY <2>1, FieldWrites, Zenon
<1>4. ASSUME Acquire(p)
      PROVE  RefreshIs(p, At(p, "select", TRUE, rf[p].next))
  <2>1. rf' = [rf EXCEPT ![p] = [rf[p] EXCEPT !.pc = "select", !.mine = TRUE, !.next = rf[p].next]]
    BY <1>1, <1>4, Zenon DEF Acquire, Refresh
  <2> QED
    BY <2>1, FieldWrites, Zenon
<1>5. ASSUME Update(p)
      PROVE  RefreshIs(p, [pc |-> "persist", policy |-> Initial, mine |-> rf[p].mine,
                           blob |-> Len(blobs) + 1, next |-> 1])
  <2> DEFINE b == Len(blobs) + 1
  <2>1. rf' = [rf EXCEPT ![p] = [rf[p] EXCEPT !.pc = "persist", !.policy = Initial, !.blob = b, !.next = 1]]
    BY <1>5, Zenon DEF Update
  <2> HIDE DEF b
  <2>2. ASSUME NEW q, q = [rf[p] EXCEPT !.pc = "persist", !.policy = Initial, !.blob = b, !.next = 1]
        PROVE  q = [pc |-> "persist", policy |-> Initial, mine |-> rf[p].mine, blob |-> b, next |-> 1]
    BY <1>1, <2>2, Zenon DEF Refresh
  <2> QED
    BY <2>1, <2>2, Zenon DEF RefreshIs, b
<1>6. ASSUME Persist(p), rf[p].next = Len(Parts)
      PROVE  RefreshIs(p, At(p, "redis", rf[p].mine, 0))
  <2>1. rf' = [rf EXCEPT ![p].next = 0, ![p].pc = "redis"]
    BY <1>6, Zenon DEF Persist, WriteFile
  <2>2. rf' = [rf EXCEPT ![p] = [rf[p] EXCEPT !.pc = "redis", !.mine = rf[p].mine, !.next = 0]]
    BY <1>1, <2>1, Zenon DEF Refresh
  <2> QED
    BY <2>2, FieldWrites, Zenon
<1>7. ASSUME Persist(p), rf[p].next # Len(Parts)
      PROVE  RefreshIs(p, At(p, "persist", rf[p].mine, rf[p].next + 1))
  <2>1. rf' = [rf EXCEPT ![p].next = rf[p].next + 1, ![p].pc = "persist"]
    BY <1>7, Zenon DEF Persist, WriteFile
  <2>2. rf' = [rf EXCEPT ![p] = [rf[p] EXCEPT !.pc = "persist", !.mine = rf[p].mine, !.next = rf[p].next + 1]]
    BY <1>1, <2>1, Zenon DEF Refresh
  <2> QED
    BY <2>2, FieldWrites, Zenon
<1>8. ASSUME PersistError(p)
      PROVE  RefreshIs(p, At(p, "redis", rf[p].mine, 0))
  <2>1. rf' = [rf EXCEPT ![p] = [rf[p] EXCEPT !.pc = "redis", !.mine = rf[p].mine, !.next = 0]]
    BY <1>1, <1>8, Zenon DEF PersistError, Refresh
  <2> QED
    BY <2>1, FieldWrites, Zenon
<1>9. TakeOver(p) \/ Release(p) \/ Restart(p) => RefreshIs(p, Idle)
  BY Zenon DEF TakeOver, Release, Restart, RefreshIs
<1> QED
  BY <1>1, <1>2, <1>3, <1>4, <1>5, <1>6, <1>7, <1>8, <1>9, ZenonT(30) DEF Unlocked, SetSnapshot

-----------------------------------------------------------------------------
(* Types.                                                                  *)

\* A name has the number of a blob, before and after another one is rendered.
LEMMA Rendering ==
    ASSUME TypeOK, NEW p \in Procs, Update(p)
    PROVE  /\ Len(blobs) \in Nat /\ Len(blobs') = Len(blobs) + 1 /\ Len(blobs') <= MaxBlobs
           /\ blobs' \in Seq([policy : Values, selected : Values])
           /\ blobs'[Len(blobs) + 1] = Rendered(p)
           /\ \A i \in 1..Len(blobs) : blobs'[i] = blobs[i]
<1>1. blobs \in Seq([policy : Values, selected : Values]) /\ Len(blobs) \in Nat
  BY DEF TypeOK
<1>2. Rendered(p) \in [policy : Values, selected : Values]
  BY Zenon DEF TypeOK, Rendered
<1>3. blobs' = Append(blobs, Rendered(p)) /\ Len(blobs) + 1 <= MaxBlobs
  BY Zenon DEF Update
<1> QED
  BY <1>1, <1>2, <1>3

\* A refresh that makes a step stays well typed.
LEMMA RefreshTyped ==
    ASSUME TypeOK, NEW p \in Procs, NEW r \in Refresh', RefreshIs(p, r),
           Len(blobs) \in Nat, Len(blobs') \in Nat, Len(blobs) <= Len(blobs')
    PROVE  rf' \in [Procs -> Refresh']
<1>1. Refresh \subseteq Refresh'
  BY DEF Refresh
<1>2. rf \in [Procs -> Refresh]
  BY Zenon DEF TypeOK, Refresh
<1> QED
  BY <1>1, <1>2, Zenon DEF RefreshIs

\* Where an update is, and the configuration it leads to.
Pending == [pc : {"idle", "save", "store", "refresh", "wait"}, cfg : Values]

\* The types hold at the start.
LEMMA InitType == Init => TypeOK
<1> SUFFICES ASSUME Init PROVE TypeOK
  BY Zenon
<1>1. Len(blobs) = 0 /\ blobs \in Seq([policy : Values, selected : Values])
  BY DEF Init
<1>2. Nowhere \in [Names -> 0..Len(blobs)] /\ 0 \in 0..Len(blobs) /\ 0 \in 0..Len(Parts)
  BY <1>1, PartsFacts DEF Nowhere
<1>3. mem \in [Procs -> [Names -> 0..Len(blobs)]] /\ disk \in [Names -> 0..Len(blobs)] /\ hot \in 0..Len(blobs)
  BY <1>2, Zenon DEF Init
<1>4. rf \in [Procs -> Refresh]
  BY <1>2, PublishAssumption, Zenon DEF Init, Idle, Refresh
<1>5. upd \in [Requests -> [pc : {"idle", "save", "store", "refresh", "wait"}, cfg : Values]]
  BY PublishAssumption, Zenon DEF Init, NoUpdate
<1>6. Len(blobs) <= MaxBlobs /\ cfg \in [Procs -> Values] /\ own \in [Procs -> BOOLEAN]
  BY <1>1, PublishAssumption DEF Init
<1>7. version \in Values \cup {"none"} /\ lock \in Procs \cup {"free"} /\ raced \in BOOLEAN /\ exposed \in BOOLEAN
  BY Zenon DEF Init
<1> QED
  BY <1>1, <1>3, <1>4, <1>5, <1>6, <1>7, ZenonT(30) DEF TypeOK, Refresh

\* Every step keeps the types.
LEMMA NextType == TypeOK /\ [Next]_vars => TypeOK'
<1> SUFFICES ASSUME TypeOK, [Next]_vars PROVE TypeOK'
  BY Zenon
<1> USE DEF publishPolicy
<1>1. Len(blobs) \in Nat /\ upd \in [Requests -> Pending] /\ NoUpdate \in Pending
      /\ Len(Parts) \in Nat \ {0}
  BY PartsFacts, PublishAssumption, SMTT(30) DEF TypeOK, Pending, NoUpdate
<1>2. \A p \in Procs : Answered(p) => upd' \in [Requests -> Pending]
  BY <1>1, Zenon DEF Answered
<1>3. ASSUME NEW p \in Procs, NEW r \in Refresh, RefreshIs(p, r), UNCHANGED blobs
      PROVE  rf' \in [Procs -> Refresh]
  BY <1>1, <1>3, RefreshTyped DEF Refresh
<1>4. \A p \in Procs, to \in {"acquire", "select", "persist", "redis", "release"},
         m \in BOOLEAN, n \in 0..Len(Parts) : At(p, to, m, n) \in Refresh
  BY Zenon DEF TypeOK, At, Refresh
<1>5. Idle \in Refresh /\ \A p \in Procs : rf[p] \in Refresh /\ rf[p].mine \in BOOLEAN /\ rf[p].next \in 0..Len(Parts)
  BY <1>1, PublishAssumption, SMTT(30) DEF TypeOK, Idle, Refresh
<1>6. ASSUME NEW p \in Procs, Begin(p) PROVE TypeOK' \/ upd' \notin [Requests -> Pending]
  <2>1. [pc |-> "acquire", policy |-> cfg[p], mine |-> FALSE, blob |-> 0, next |-> 0] \in Refresh
    BY <1>1 DEF TypeOK, Refresh
  <2>2. rf' \in [Procs -> Refresh]
    BY <1>3, <1>6, <2>1, RefreshMoves, ZenonT(30) DEF Begin
  <2> QED
    BY <1>6, <2>2, ZenonT(30) DEF Begin, confVars, outVars, TypeOK, Refresh, Pending
<1>7. ASSUME NEW p \in Procs, Acquire(p) PROVE TypeOK'
  <2>1. rf' \in [Procs -> Refresh]
    BY <1>3, <1>4, <1>5, <1>7, RefreshMoves, ZenonT(30) DEF Acquire
  <2> QED
    BY <1>7, <2>1, Zenon DEF Acquire, confVars, outVars, TypeOK, Refresh
<1>8. ASSUME NEW p \in Procs, TakeOver(p) PROVE TypeOK'
  <2>1. rf' \in [Procs -> Refresh]
    BY <1>3, <1>5, <1>8, RefreshMoves, ZenonT(30) DEF TakeOver
  <2>2. mem' \in [Procs -> [Names -> 0..Len(blobs)]]
    BY <1>8, Zenon DEF TakeOver, TypeOK, Whole
  <2>3. upd' \in [Requests -> Pending]
    BY <1>2, <1>8, Zenon DEF TakeOver
  <2> QED
    BY <1>8, <2>1, <2>2, <2>3, ZenonT(30) DEF TakeOver, confVars, TypeOK, Refresh, Pending
<1>9. ASSUME NEW p \in Procs, Unlocked(p) PROVE TypeOK'
  <2>1. rf' \in [Procs -> Refresh]
    BY <1>3, <1>4, <1>5, <1>9, RefreshMoves, ZenonT(30) DEF Unlocked
  <2> QED
    BY <1>9, <2>1, Zenon DEF Unlocked, confVars, outVars, TypeOK, Refresh
<1>10. ASSUME NEW p \in Procs, Update(p) PROVE TypeOK'
  <2>1. Len(blobs') = Len(blobs) + 1
    BY <1>10, Rendering, Zenon
  <2> DEFINE r == [pc |-> "persist", policy |-> Initial, mine |-> rf[p].mine, blob |-> Len(blobs) + 1, next |-> 1]
  <2>2. r \in Refresh'
    BY <1>1, <1>5, <2>1, PublishAssumption, SMTT(30) DEF Refresh
  <2>3. RefreshIs(p, r)
    BY <1>10, RefreshMoves, Zenon
  <2> HIDE DEF r
  <2>3a. rf' \in [Procs -> Refresh']
    BY <1>1, <2>1, <2>2, <2>3, RefreshTyped, SMTT(30)
  <2>4. mem' \in [Procs -> [Names -> 0..Len(blobs')]]
    <3>1. Whole(Len(blobs) + 1) \in [Names -> 0..Len(blobs')]
      BY <1>1, <2>1 DEF Whole
    <3>2. mem \in [Procs -> [Names -> 0..Len(blobs')]]
      BY <1>1, <2>1 DEF TypeOK
    <3> QED
      BY <1>10, <3>1, <3>2, Zenon DEF Update
  <2>5. disk' \in [Names -> 0..Len(blobs')] /\ hot' \in 0..Len(blobs')
    BY <1>1, <1>10, <2>1 DEF Update, TypeOK
  <2> QED
    BY <1>10, <2>3a, <2>4, <2>5, Rendering, ZenonT(30) DEF Update, confVars, TypeOK, Refresh
<1>11. ASSUME NEW p \in Procs, Persist(p) PROVE TypeOK'
  <2>1. rf[p].next # Len(Parts) => rf[p].next + 1 \in 0..Len(Parts)
    BY <1>1, <1>5
  <2>2. 0 \in 0..Len(Parts)
    BY <1>1
  <2>3. rf' \in [Procs -> Refresh]
    BY <1>3, <1>4, <1>5, <1>11, <2>1, <2>2, RefreshMoves, ZenonT(30) DEF Persist
  <2>4. disk' \in [Names -> 0..Len(blobs)]
    BY <1>11, Zenon DEF Persist, WriteFile, TypeOK
  <2> QED
    BY <1>11, <2>3, <2>4, Zenon DEF Persist, confVars, TypeOK, Refresh
<1>12. ASSUME NEW p \in Procs, PersistError(p) PROVE TypeOK'
  <2>1. 0 \in 0..Len(Parts)
    BY <1>1
  <2>2. rf' \in [Procs -> Refresh]
    BY <1>3, <1>4, <1>5, <1>12, <2>1, RefreshMoves, ZenonT(30) DEF PersistError
  <2> QED
    BY <1>12, <2>2, ZenonT(30) DEF PersistError, confVars, outVars, TypeOK, Refresh
<1>13. ASSUME NEW p \in Procs, SetSnapshot(p) PROVE TypeOK'
  <2>1. rf' \in [Procs -> Refresh]
    BY <1>3, <1>4, <1>5, <1>13, RefreshMoves, ZenonT(30) DEF SetSnapshot
  <2> QED
    BY <1>13, <2>1, ZenonT(30) DEF SetSnapshot, confVars, outVars, TypeOK, Refresh
<1>14. ASSUME NEW p \in Procs, Release(p) PROVE TypeOK'
  <2>1. rf' \in [Procs -> Refresh]
    BY <1>3, <1>5, <1>14, RefreshMoves, ZenonT(30) DEF Release
  <2>2. upd' \in [Requests -> Pending]
    BY <1>2, <1>14, Zenon DEF Release
  <2> QED
    BY <1>14, <2>1, <2>2, ZenonT(30) DEF Release, ReleaseLock, confVars, outVars, TypeOK, Refresh, Pending
<1>15. ASSUME NEW p \in Procs, Restart(p) PROVE TypeOK'
  <2>1. rf' \in [Procs -> Refresh]
    BY <1>3, <1>5, <1>15, RefreshMoves, ZenonT(30) DEF Restart
  <2>2. Persisted \in Values
    BY PublishAssumption, Zenon DEF Persisted, TypeOK
  <2>3. {Nowhere, disk, Whole(hot)} \subseteq [Names -> 0..Len(blobs)]
    BY <1>1 DEF TypeOK, Nowhere, Whole
  <2>4. \A c : FromDisk(c) \in [Names -> 0..Len(blobs)]
    BY <2>3, Zenon DEF FromDisk, Loaded
  <2>5. mem' \in [Procs -> [Names -> 0..Len(blobs)]]
    BY <1>15, <2>3, <2>4, SMTT(30) DEF Restart, TypeOK
  <2>6. upd' \in [Requests -> Pending]
    BY <1>1, <1>15, Zenon DEF Restart
  <2> QED
    BY <1>15, <2>1, <2>2, <2>5, <2>6, ZenonT(30) DEF Restart, TypeOK, Refresh, Pending
<1>16. ASSUME NEW r \in Requests, NEW patch, UpdateRuntimeConfig(r, patch) PROVE TypeOK'
  BY <1>16, Zenon DEF UpdateRuntimeConfig, ApplyRuntimePatch, outVars, TypeOK
<1>17. ASSUME NEW r \in Requests, SaveConfigVersion(r) PROVE TypeOK'
  <2>1. upd' \in [Requests -> Pending]
    BY <1>1, <1>17, Zenon DEF SaveConfigVersion, Pending
  <2>2. version' \in Values \cup {"none"} /\ raced' \in BOOLEAN
    BY <1>17, Zenon DEF SaveConfigVersion, TypeOK
  <2> QED
    BY <1>17, <2>1, <2>2, Zenon DEF SaveConfigVersion, outVars, TypeOK, Pending
<1>18. ASSUME NEW r \in Requests, SaveError(r) PROVE TypeOK'
  BY <1>1, <1>18, Zenon DEF SaveError, NotApplied, outVars, TypeOK, Pending
<1>19. ASSUME NEW r \in Requests, StoreConfig(r) PROVE TypeOK'
  <2>1. upd' \in [Requests -> Pending]
    BY <1>1, <1>19, Zenon DEF StoreConfig, RefreshNext, Pending, NoUpdate
  <2> QED
    BY <1>19, <2>1, PublishAssumption, ZenonT(30) DEF StoreConfig, outVars, TypeOK, Pending
<1>20. ASSUME NEW r \in Requests, RefreshAfterUpdate(r) PROVE TypeOK'
  <2>1. upd' \in [Requests -> Pending]
    BY <1>1, <1>20, Zenon DEF RefreshAfterUpdate, Pending
  <2> QED
    BY <1>6, <1>20, <2>1, PublishAssumption, ZenonT(30) DEF RefreshAfterUpdate
<1>21. ASSUME LockExpires PROVE TypeOK'
  BY <1>21, Zenon DEF LockExpires, confVars, outVars, TypeOK
<1>22. CASE UNCHANGED vars
  BY <1>22, Zenon DEF vars, confVars, outVars, TypeOK
<1> QED
  BY ZenonT(30), <1>1, <1>6, <1>7, <1>8, <1>9, <1>10, <1>11, <1>12, <1>13, <1>14, <1>15, <1>16, <1>17,
     <1>18, <1>19, <1>20, <1>21, <1>22 DEF Next, RefreshPublishCache

-----------------------------------------------------------------------------
(* Updates of the configuration.                                           *)

\* At the start nothing is under way.
LEMMA InitUpdate == Init => UpdateInOrder
BY PublishAssumption DEF Init, NoUpdate, UpdateInOrder, UpdatesUnderWay, Persisted

\* A save, a store or its failure finds no other update under way, unless two
\* overlapped; a restart of the API process loads what was saved.
LEMMA NextUpdate == TypeOK /\ UpdateInOrder /\ [Next]_vars => UpdateInOrder'
<1> SUFFICES ASSUME TypeOK, UpdateInOrder, [Next]_vars PROVE UpdateInOrder'
  BY Zenon
<1>1. upd \in [Requests -> Pending] /\ cfg \in [Procs -> Values] /\ raced \in BOOLEAN
  BY Zenon DEF TypeOK, Pending
<1>2. ASSUME confVars' = confVars,
             \A r \in Requests : \/ upd'[r] = upd[r]
                                 \/ upd[r].pc \notin {"save", "store"} /\ upd'[r].pc \notin {"save", "store"}
      PROVE  UpdateInOrder'
  <2>1. UNCHANGED <<cfg, version, raced>>
    BY <1>2, Zenon DEF confVars
  <2>2. UpdatesUnderWay' = UpdatesUnderWay
    BY <1>2, Zenon DEF UpdatesUnderWay
  <2> QED
    BY <1>2, <2>1, <2>2, ZenonT(30) DEF UpdateInOrder, Persisted
<1>3. ASSUME NEW p \in Procs, Answered(p), UNCHANGED confVars PROVE UpdateInOrder'
  <2>1. \A r \in Requests : upd'[r] = upd[r] \/ (upd[r].pc = "wait" /\ upd'[r] = NoUpdate)
    BY <1>3, Zenon DEF Answered
  <2> QED
    BY <1>2, <1>3, <2>1, SMTT(30) DEF NoUpdate
<1>4. ASSUME NEW p \in Procs, Restart(p) PROVE UpdateInOrder'
  <2>1. CASE p = Api
    <3>1. \A r \in Requests : upd'[r].pc = "idle"
      BY <1>4, <2>1, Zenon DEF Restart, NoUpdate
    <3>2. cfg'[Api] = Persisted /\ Persisted' = Persisted
      BY <1>1, <1>4, <2>1, ZenonT(30) DEF Restart, Persisted
    <3> QED
      BY <3>1, <3>2, Zenon DEF UpdateInOrder, UpdatesUnderWay
  <2>2. CASE p # Api
    <3>1. \A r \in Requests : upd'[r] = upd[r]
      BY <1>4, <2>2, Zenon DEF Restart
    <3>2. cfg'[Api] = cfg[Api] /\ UNCHANGED <<version, raced>>
      BY <1>1, <1>4, <2>2, PublishAssumption, ZenonT(30) DEF Restart
    <3>3. UpdatesUnderWay' = UpdatesUnderWay
      BY <3>1, Zenon DEF UpdatesUnderWay
    <3> QED
      BY <3>1, <3>2, <3>3, ZenonT(30) DEF UpdateInOrder, Persisted
  <2> QED
    BY <2>1, <2>2, Zenon
<1>5. ASSUME NEW r \in Requests, NEW patch, UpdateRuntimeConfig(r, patch) PROVE UpdateInOrder'
  <2>1. upd'[r].pc = "save" /\ \A s \in Requests \ {r} : upd'[s] = upd[s]
    BY <1>1, <1>5, Zenon DEF UpdateRuntimeConfig
  <2>2. UNCHANGED <<cfg, version>> /\ (~raced' => ~raced /\ UpdatesUnderWay = {})
    BY <1>5, Zenon DEF UpdateRuntimeConfig
  <2> QED
    BY <2>1, <2>2, Zenon DEF UpdateInOrder, UpdatesUnderWay, Persisted
<1>6. ASSUME NEW r \in Requests, SaveConfigVersion(r) PROVE UpdateInOrder'
  <2>1. upd[r].pc = "save" /\ UNCHANGED cfg /\ (~raced' => ~raced /\ version' = upd[r].cfg)
    BY <1>6 DEF SaveConfigVersion
  <2>2. upd'[r].pc = "store" /\ upd'[r].cfg = upd[r].cfg /\ \A s \in Requests \ {r} : upd'[s] = upd[s]
    BY <1>1, <1>6, Zenon DEF SaveConfigVersion, Pending
  <2> QED
    BY <2>1, <2>2 DEF UpdateInOrder, UpdatesUnderWay
<1>7. ASSUME NEW r \in Requests, SaveError(r) PROVE UpdateInOrder'
  <2>1. upd[r].pc = "save" /\ UNCHANGED <<cfg, version, raced>>
    BY <1>7, Zenon DEF SaveError, NotApplied
  <2>2. upd'[r].pc = "idle" /\ \A s \in Requests \ {r} : upd'[s] = upd[s]
    BY <1>1, <1>7, Zenon DEF SaveError, NoUpdate
  <2> QED
    BY <2>1, <2>2, Zenon DEF UpdateInOrder, UpdatesUnderWay, Persisted
<1>8. ASSUME NEW r \in Requests, StoreConfig(r) PROVE UpdateInOrder'
  <2>1. upd[r].pc = "store" /\ UNCHANGED <<version, raced>> /\ cfg'[Api] = upd[r].cfg /\ upd[r].cfg # "none"
    BY <1>1, <1>8, PublishAssumption, ZenonT(30) DEF StoreConfig, Pending
  <2>2. upd'[r].pc = "refresh" /\ \A s \in Requests \ {r} : upd'[s] = upd[s]
    BY <1>1, <1>8, Zenon DEF StoreConfig, RefreshNext, NoUpdate
  <2> QED
    BY <2>1, <2>2, Zenon DEF UpdateInOrder, UpdatesUnderWay, Persisted
<1>9. ASSUME NEW r \in Requests, RefreshAfterUpdate(r) PROVE UpdateInOrder'
  <2>1. upd[r].pc = "refresh" /\ upd'[r].pc = "wait" /\ \A s \in Requests \ {r} : upd'[s] = upd[s]
    BY <1>1, <1>9, Zenon DEF RefreshAfterUpdate, Pending
  <2> QED
    BY <1>2, <1>9, <2>1, ZenonT(30) DEF RefreshAfterUpdate, Begin
<1>10. ASSUME NEW p \in Procs, TakeOver(p) \/ Release(p) PROVE UpdateInOrder'
  BY <1>3, <1>10, Zenon DEF TakeOver, Release
<1>11. ASSUME UNCHANGED <<confVars, upd>> PROVE UpdateInOrder'
  BY <1>2, <1>11, Zenon
<1> QED
  BY <1>4, <1>5, <1>6, <1>7, <1>8, <1>9, <1>10, <1>11, ZenonT(30)
     DEF Next, RefreshPublishCache, Begin, Acquire, Unlocked, Update, Persist, PersistError,
         SetSnapshot, LockExpires, vars

-----------------------------------------------------------------------------
(* Steps of a refresh.                                                     *)

\* The refreshes of the other processes go on.
Others(p) == \A q \in Procs \ {p} : rf'[q] = rf[q]

\* What a step of its refresh changes in a process.
LEMMA RefreshSteps ==
    ASSUME TypeOK, NEW p \in Procs
    PROVE  /\ Begin(p) => /\ Others(p) /\ rf'[p].pc = "acquire" /\ rf'[p].policy = cfg[p]
                          /\ ~rf'[p].mine
           /\ Acquire(p) => /\ Others(p) /\ rf'[p].pc = "select" /\ rf'[p].policy = rf[p].policy
                            /\ rf'[p].mine
           /\ Unlocked(p) => /\ Others(p) /\ rf'[p].pc = "select" /\ rf'[p].policy = rf[p].policy
           /\ Update(p) => /\ Others(p) /\ rf'[p].pc = "persist" /\ rf'[p].mine = rf[p].mine
                           /\ rf'[p].blob = Len(blobs) + 1 /\ rf'[p].next = 1
           /\ Persist(p) => /\ Others(p) /\ rf'[p].mine = rf[p].mine /\ rf'[p].blob = rf[p].blob
                            /\ IF rf[p].next = Len(Parts) THEN rf'[p].pc = "redis"
                               ELSE rf'[p].pc = "persist" /\ rf'[p].next = rf[p].next + 1
           /\ PersistError(p) => Others(p) /\ rf'[p].pc = "redis" /\ rf'[p].mine = rf[p].mine
           /\ SetSnapshot(p) => Others(p) /\ rf'[p].pc = "release" /\ rf'[p].mine = rf[p].mine
           /\ TakeOver(p) \/ Release(p) \/ Restart(p) => Others(p) /\ rf'[p].pc = "idle" /\ ~rf'[p].mine
<1>1. rf \in [Procs -> Refresh] /\ rf[p] \in Refresh
  BY Zenon DEF TypeOK, Refresh
<1>2. \A r : RefreshIs(p, r) => Others(p)
  BY <1>1, Zenon DEF RefreshIs, Others
<1>3. Others(p) \/ ~\/ Begin(p) \/ Acquire(p) \/ Unlocked(p) \/ Update(p) \/ Persist(p)
                    \/ PersistError(p) \/ SetSnapshot(p) \/ TakeOver(p) \/ Release(p) \/ Restart(p)
  BY <1>2, RefreshMoves, Zenon
<1>4. Begin(p) => rf'[p].pc = "acquire" /\ rf'[p].policy = cfg[p] /\ ~rf'[p].mine
  BY <1>1, Zenon DEF Begin, Idle, publishPolicy
<1>5. Acquire(p) => rf'[p].pc = "select" /\ rf'[p].policy = rf[p].policy /\ rf'[p].mine
  BY <1>1 DEF Acquire, Refresh
<1>6. Unlocked(p) => rf'[p].pc = "select" /\ rf'[p].policy = rf[p].policy
  BY <1>1, Zenon DEF Unlocked, Step, Refresh
<1>7. Update(p) => /\ rf'[p].pc = "persist" /\ rf'[p].mine = rf[p].mine
                   /\ rf'[p].blob = Len(blobs) + 1 /\ rf'[p].next = 1
  BY <1>1 DEF Update, Refresh
<1>8. ASSUME Persist(p)
      PROVE  /\ rf'[p].mine = rf[p].mine /\ rf'[p].blob = rf[p].blob
             /\ IF rf[p].next = Len(Parts) THEN rf'[p].pc = "redis"
                ELSE rf'[p].pc = "persist" /\ rf'[p].next = rf[p].next + 1
  <2>1. CASE rf[p].next = Len(Parts)
    <3>1. rf' = [rf EXCEPT ![p].next = 0, ![p].pc = "redis"]
      BY <1>8, <2>1, Zenon DEF Persist, WriteFile
    <3> QED
      BY <1>1, <2>1, <3>1, ZenonT(30) DEF Refresh
  <2>2. CASE rf[p].next # Len(Parts)
    <3>1. rf' = [rf EXCEPT ![p].next = rf[p].next + 1, ![p].pc = "persist"]
      BY <1>8, <2>2, Zenon DEF Persist, WriteFile
    <3> QED
      BY <1>1, <2>2, <3>1, ZenonT(30) DEF Refresh
  <2> QED
    BY <2>1, <2>2, Zenon
<1>9. PersistError(p) => rf'[p].pc = "redis" /\ rf'[p].mine = rf[p].mine
  BY <1>1 DEF PersistError, Refresh
<1>10. SetSnapshot(p) => rf'[p].pc = "release" /\ rf'[p].mine = rf[p].mine
  BY <1>1, Zenon DEF SetSnapshot, Step, Refresh
<1>11. TakeOver(p) \/ Release(p) \/ Restart(p) => rf'[p].pc = "idle" /\ ~rf'[p].mine
  BY <1>1 DEF TakeOver, Release, Restart, Idle
<1> QED
  BY <1>3, <1>4, <1>5, <1>6, <1>7, <1>8, <1>9, <1>10, <1>11, ZenonT(30)

-----------------------------------------------------------------------------
(* Refreshes.                                                              *)

\* What p serves has its policy, and its selection if p rendered it.
Served(p) == mem[p] # Nowhere => /\ LabelOf(mem[p]) = publishPolicy(cfg[p])
                                 /\ own[p] => blobs[mem[p]["raw"]].selected = cfg[p]

\* At the start nothing is served.
LEMMA InitRefresh == Init => RefreshInOrder /\ OwnRendered
BY DEF Init, Idle, NoUpdate, RefreshInOrder, Stale, OwnRendered

\* A process whose refresh, configuration and blob are left alone stays as it was;
\* rendering another blob changes no blob.
LEMMA ServedKept ==
    ASSUME TypeOK, RefreshInOrder, OwnRendered, NEW p \in Procs,
           rf'[p] = rf[p], mem'[p] = mem[p], own'[p] = own[p], cfg'[p] = cfg[p],
           blobs' = blobs \/ \E q \in Procs : Update(q),
           Stale(p) => Stale(p)', ~Stale(p)'
    PROVE  IF rf'[p].pc \in {"acquire", "select"} THEN rf'[p].policy = cfg'[p] ELSE Served(p)'
<1>1. \A i \in 1..Len(blobs) : blobs'[i] = blobs[i]
  BY Rendering, Zenon
<1>2. mem[p] \in [Names -> 0..Len(blobs)] /\ "raw" \in Names /\ "meta" \in Names /\ Len(blobs) \in Nat
  BY PartsFacts, SMTT(30) DEF TypeOK
<1>2a. mem[p]["meta"] # 0 => blobs'[mem[p]["meta"]] = blobs[mem[p]["meta"]]
  BY <1>1, <1>2
<1>3. (LabelOf(mem[p]))' = LabelOf(mem[p])
  BY <1>2a, Zenon DEF LabelOf
<1>4. own[p] => blobs'[mem[p]["raw"]] = blobs[mem[p]["raw"]]
  BY <1>1, <1>2 DEF OwnRendered
<1>5. IF rf[p].pc \in {"acquire", "select"} THEN rf[p].policy = cfg[p] ELSE Served(p)
  BY Zenon DEF RefreshInOrder, Served
<1>6. Served(p) => Served(p)'
  BY <1>3, <1>4, Zenon DEF Served, publishPolicy, Nowhere
<1> QED
  BY <1>5, <1>6, Zenon

\* One process moves: the others are as they were.
LEMMA OneRefreshes ==
    ASSUME TypeOK, RefreshInOrder, OwnRendered, NEW p \in Procs,
           \A q \in Procs \ {p} : /\ rf'[q] = rf[q] /\ mem'[q] = mem[q] /\ own'[q] = own[q]
                                  /\ cfg'[q] = cfg[q] /\ (Stale(q) => Stale(q)'),
           blobs' = blobs \/ \E q \in Procs : Update(q),
           own'[p] => mem'[p]["raw"] > 0,
           ~Stale(p)' => IF rf'[p].pc \in {"acquire", "select"} THEN rf'[p].policy = cfg'[p] ELSE Served(p)'
    PROVE  RefreshInOrder' /\ OwnRendered'
<1>1. ASSUME NEW q \in Procs, ~Stale(q)'
      PROVE  IF rf'[q].pc \in {"acquire", "select"} THEN rf'[q].policy = cfg'[q] ELSE Served(q)'
  BY <1>1, ServedKept, Zenon
<1>2. RefreshInOrder'
  BY <1>1, Zenon DEF RefreshInOrder, Served
<1> QED
  BY <1>2, Zenon DEF OwnRendered

\* Every step keeps what is served in order.
LEMMA NextRefresh == TypeOK /\ RefreshInOrder /\ OwnRendered /\ [Next]_vars => RefreshInOrder' /\ OwnRendered'
<1> SUFFICES ASSUME TypeOK, RefreshInOrder, OwnRendered, [Next]_vars PROVE RefreshInOrder' /\ OwnRendered'
  BY Zenon
<1> USE DEF publishPolicy
<1>1. /\ rf \in [Procs -> Refresh] /\ upd \in [Requests -> Pending]
      /\ mem \in [Procs -> [Names -> 0..Len(blobs)]] /\ own \in [Procs -> BOOLEAN] /\ cfg \in [Procs -> Values]
  BY Zenon DEF TypeOK, Refresh, Pending
<1>2. \A p \in Procs : IF rf[p].pc \in {"acquire", "select"} THEN Stale(p) \/ rf[p].policy = cfg[p]
                       ELSE Stale(p) \/ Served(p)
  BY Zenon DEF RefreshInOrder, Served
<1>3. UNCHANGED upd => \A p : Stale(p)' <=> Stale(p)
  BY Zenon DEF Stale
<1>4. \A p \in Procs : Answered(p) => \A q : Stale(q)' <=> Stale(q)
  BY DEF Answered, Stale, NoUpdate
<1>5. ASSUME NEW p \in Procs, Begin(p), \A q \in Procs \ {p} : Stale(q) => Stale(q)'
      PROVE  RefreshInOrder' /\ OwnRendered'
  <2>1. rf'[p].pc = "acquire" /\ rf'[p].policy = cfg[p] /\ \A q \in Procs \ {p} : rf'[q] = rf[q]
    BY <1>5, RefreshSteps, Zenon DEF Others
  <2>2. UNCHANGED <<cfg, mem, own, blobs>>
    BY <1>5, ZenonT(30) DEF Begin, confVars, outVars
  <2> QED
    BY <1>5, <2>1, <2>2, OneRefreshes, ZenonT(30) DEF OwnRendered
<1>6. ASSUME NEW p \in Procs, Acquire(p) \/ Unlocked(p) PROVE RefreshInOrder' /\ OwnRendered'
  <2>1. /\ rf[p].pc = "acquire" /\ rf'[p].pc = "select" /\ rf'[p].policy = rf[p].policy
        /\ \A q \in Procs \ {p} : rf'[q] = rf[q]
    BY <1>6, RefreshSteps, Zenon DEF Others, Acquire, Unlocked
  <2>2. UNCHANGED <<cfg, mem, own, blobs, upd>>
    BY <1>6, Zenon DEF Acquire, Unlocked, confVars, outVars
  <2> QED
    BY <1>2, <1>3, <2>1, <2>2, OneRefreshes, ZenonT(30) DEF OwnRendered
<1>7. ASSUME NEW p \in Procs, TakeOver(p) PROVE RefreshInOrder' /\ OwnRendered'
  <2>1. rf[p].pc = "acquire" /\ rf'[p].pc = "idle" /\ \A q \in Procs \ {p} : rf'[q] = rf[q]
    BY <1>7, RefreshSteps, Zenon DEF Others, TakeOver
  <2>2. UNCHANGED <<cfg, blobs>> /\ \A q : Stale(q)' <=> Stale(q)
    BY <1>4, <1>7, Zenon DEF TakeOver, confVars
  <2>3. /\ mem'[p] = Whole(hot) /\ \A q \in Procs \ {p} : mem'[q] = mem[q]
        /\ own'[p] = FALSE /\ \A q \in Procs \ {p} : own'[q] = own[q]
    BY <1>1, <1>7, Zenon DEF TakeOver
  <2>4. LabelOf(Whole(hot)) = rf[p].policy
    BY <1>7, Zenon DEF TakeOver, MatchesPolicy
  <2>5. ~Stale(p)' => Served(p)'
    BY <1>2, <2>1, <2>2, <2>3, <2>4, ZenonT(30) DEF Served, LabelOf
  <2> QED
    BY <2>1, <2>2, <2>3, <2>5, OneRefreshes, ZenonT(30)
<1>8. ASSUME NEW p \in Procs, Update(p) PROVE RefreshInOrder' /\ OwnRendered'
  <2>1. rf[p].pc = "select" /\ rf'[p].pc = "persist" /\ \A q \in Procs \ {p} : rf'[q] = rf[q]
    BY <1>8, RefreshSteps, Zenon DEF Others, Update
  <2>2. UNCHANGED <<cfg, upd>>
    BY <1>8, Zenon DEF Update, confVars
  <2> DEFINE b == Len(blobs) + 1
  <2>3. /\ mem'[p] = Whole(b) /\ \A q \in Procs \ {p} : mem'[q] = mem[q]
        /\ \A q \in Procs \ {p} : own'[q] = own[q]
    BY <1>1, <1>8, Zenon DEF Update
  <2>4. b > 0 /\ b # 0 /\ blobs'[b] = Rendered(p)
    BY <1>8, Rendering
  <2>5. mem'[p]["raw"] = b /\ mem'[p]["meta"] = b
    BY <2>3, PartsFacts, Zenon DEF Whole
  <2> HIDE DEF b
  <2>6. (LabelOf(mem[p]))' = rf[p].policy /\ blobs'[mem'[p]["raw"]].selected = cfg[p]
    BY <2>4, <2>5 DEF LabelOf, Rendered
  <2>7. ~Stale(p)' => Served(p)'
    BY <1>2, <1>3, <2>1, <2>2, <2>6, ZenonT(30) DEF Served
  <2> QED
    BY <1>3, <1>8, <2>1, <2>2, <2>3, <2>4, <2>5, <2>7, OneRefreshes, ZenonT(30)
<1>9. ASSUME NEW p \in Procs, Persist(p) \/ PersistError(p) \/ SetSnapshot(p) \/ Release(p)
       PROVE  RefreshInOrder' /\ OwnRendered'
  <2>1. rf[p].pc \notin {"acquire", "select"} /\ rf'[p].pc \notin {"acquire", "select"}
        /\ \A q \in Procs \ {p} : rf'[q] = rf[q]
    BY <1>9, RefreshSteps, Zenon DEF Others, Persist, PersistError, SetSnapshot, Release
  <2>2. UNCHANGED <<cfg, mem, own, blobs>> /\ \A q : Stale(q)' <=> Stale(q)
    BY <1>3, <1>4, <1>9, ZenonT(30) DEF Persist, PersistError, SetSnapshot, Release, confVars, outVars
  <2>3. ~Stale(p)' => Served(p)'
    BY <1>2, <2>1, <2>2, Zenon DEF Served, LabelOf
  <2> QED
    BY <2>1, <2>2, <2>3, OneRefreshes, ZenonT(30) DEF OwnRendered
<1>10. ASSUME NEW p \in Procs, Restart(p) PROVE RefreshInOrder' /\ OwnRendered'
  <2>1. rf'[p].pc = "idle" /\ \A q \in Procs \ {p} : rf'[q] = rf[q]
    BY <1>10, RefreshSteps, ZenonT(30) DEF Others
  <2>2. UNCHANGED blobs /\ \A q \in Procs \ {p} : Stale(q) => Stale(q)'
    BY <1>10, Zenon DEF Restart, Stale
  <2>3. /\ cfg'[p] = Persisted /\ \A q \in Procs \ {p} : cfg'[q] = cfg[q]
        /\ own'[p] = FALSE /\ \A q \in Procs \ {p} : own'[q] = own[q]
        /\ \A q \in Procs \ {p} : mem'[q] = mem[q]
    BY <1>1, <1>10, Zenon DEF Restart
  <2>4. mem'[p] = FromDisk(Persisted) \/ (mem'[p] = Whole(hot) /\ MatchesPolicy(Whole(hot), Persisted))
    BY <1>1, <1>10, Zenon DEF Restart
  <2>5. mem'[p] # Nowhere => LabelOf(mem'[p]) = Persisted
    BY <2>4, Zenon DEF FromDisk, MatchesPolicy
  <2>6. Served(p)'
    BY <2>2, <2>3, <2>5, Zenon DEF Served, LabelOf, Nowhere
  <2> QED
    BY <2>1, <2>2, <2>3, <2>6, OneRefreshes, ZenonT(30)
<1>11. ASSUME NEW r \in Requests, RefreshAfterUpdate(r) PROVE RefreshInOrder' /\ OwnRendered'
  <2>1. \A q \in Procs \ {Api} : ~Stale(q)
    BY Zenon DEF Stale
  <2> QED
    BY <1>5, <1>11, <2>1, PublishAssumption, ZenonT(30) DEF RefreshAfterUpdate
<1>12. ASSUME NEW r \in Requests, \/ \E patch : UpdateRuntimeConfig(r, patch)
                                  \/ SaveConfigVersion(r) \/ SaveError(r) \/ StoreConfig(r)
       PROVE  RefreshInOrder' /\ OwnRendered'
  <2>1. UNCHANGED <<rf, mem, own, blobs>> /\ \A q \in Procs \ {Api} : cfg'[q] = cfg[q]
    BY <1>1, <1>12, Zenon DEF UpdateRuntimeConfig, SaveConfigVersion, SaveError, NotApplied, StoreConfig, outVars
  <2>2. upd[r].pc # "refresh" /\ \A s \in Requests \ {r} : upd'[s] = upd[s]
    BY <1>1, <1>12, Zenon DEF UpdateRuntimeConfig, SaveConfigVersion, SaveError, StoreConfig, RefreshNext
  <2>3. \A q \in Procs : Stale(q) => Stale(q)'
    BY <2>2, Zenon DEF Stale
  <2>4. StoreConfig(r) => Stale(Api)'
    BY <1>1, Zenon DEF StoreConfig, RefreshNext, NoUpdate, Stale
  <2>5. ~Stale(Api)' => cfg'[Api] = cfg[Api]
    BY <1>12, <2>4, Zenon DEF UpdateRuntimeConfig, SaveConfigVersion, SaveError, NotApplied
  <2>6. ~Stale(Api)' => IF rf'[Api].pc \in {"acquire", "select"} THEN rf'[Api].policy = cfg'[Api]
                        ELSE Served(Api)'
    BY <2>1, <2>3, <2>5, ServedKept, PublishAssumption, ZenonT(30)
  <2> QED
    BY <2>1, <2>3, <2>6, OneRefreshes, PublishAssumption, ZenonT(30) DEF OwnRendered
<1>13. ASSUME UNCHANGED <<cfg, rf, mem, own, blobs, upd>> PROVE RefreshInOrder' /\ OwnRendered'
  BY <1>13, Zenon DEF RefreshInOrder, OwnRendered, Stale, LabelOf, Nowhere
<1>14. \A p \in Procs : RefreshPublishCache(p) => Begin(p) /\ \A q : Stale(q)' <=> Stale(q)
  BY <1>3, Zenon DEF RefreshPublishCache
<1>15. LockExpires \/ UNCHANGED vars => UNCHANGED <<cfg, rf, mem, own, blobs, upd>>
  BY Zenon DEF LockExpires, vars, confVars, outVars
<1> QED
  BY <1>5, <1>6, <1>7, <1>8, <1>9, <1>10, <1>11, <1>12, <1>13, <1>14, <1>15, ZenonT(30) DEF Next

-----------------------------------------------------------------------------
(* The lock and the files.                                                 *)

\* At the start there are no files.
LEMMA InitFiles == Init => LockHeld /\ FilesInOrder /\ LabelNeverAhead
<1> SUFFICES ASSUME Init PROVE LockHeld /\ FilesInOrder /\ LabelNeverAhead
  BY Zenon
<1>1. \A p \in Procs : rf[p].pc = "idle" /\ ~rf[p].mine
  BY Zenon DEF Init, Idle
<1>2. \A n \in Names : disk[n] = 0
  BY Zenon DEF Init, Nowhere
<1>3. "meta" \in Names
  BY PartsFacts, Zenon
<1> QED
  BY <1>1, <1>2, <1>3, SMTT(30) DEF LockHeld, FilesInOrder, LabelNeverAhead

\* Two refreshes that both have the lock are one.
LEMMA LockAlone ==
    ASSUME LockHeld, ~exposed, NEW p \in Procs, NEW q \in Procs,
           rf[p].pc \notin {"idle", "acquire"}, rf[q].pc \notin {"idle", "acquire"}
    PROVE  p = q
BY Zenon DEF LockHeld

\* The lock changes hands only between refreshes, unless one goes without it.
LEMMA NextLock == TypeOK /\ LockHeld /\ [Next]_vars => LockHeld'
<1> SUFFICES ASSUME TypeOK, LockHeld, [Next]_vars, ~exposed'
             PROVE  \A p \in Procs : /\ rf'[p].pc \notin {"idle", "acquire"} => rf'[p].mine
                                     /\ rf'[p].mine => lock' = p
  BY Zenon DEF LockHeld
<1>1. exposed => exposed'
  BY Zenon DEF Next, RefreshPublishCache, Begin, Acquire, TakeOver, Unlocked, Update, Persist, PersistError,
         SetSnapshot, Release, Restart, UpdateRuntimeConfig, SaveConfigVersion, SaveError, StoreConfig,
         RefreshAfterUpdate, LockExpires, vars
<1>2. \A p \in Procs : /\ rf[p].pc \notin {"idle", "acquire"} => rf[p].mine
                       /\ rf[p].mine => lock = p
  BY <1>1, Zenon DEF LockHeld
<1>3. ASSUME NEW p \in Procs, Begin(p) \/ TakeOver(p) \/ Restart(p)
      PROVE  Others(p) /\ rf'[p].pc \in {"idle", "acquire"} /\ ~rf'[p].mine /\ UNCHANGED lock
  BY <1>3, RefreshSteps, Zenon DEF Begin, TakeOver, Restart
<1>4. ASSUME NEW p \in Procs, Update(p) \/ Persist(p) \/ PersistError(p) \/ SetSnapshot(p)
      PROVE  Others(p) /\ rf'[p].mine = rf[p].mine /\ rf[p].mine /\ UNCHANGED lock
  BY <1>2, <1>4, RefreshSteps, Zenon DEF Update, Persist, PersistError, SetSnapshot
<1>5. ASSUME NEW p \in Procs, Acquire(p)
      PROVE  Others(p) /\ rf'[p].mine /\ lock' = p /\ \A q \in Procs : ~rf[q].mine
  <2>1. lock = "free" /\ lock' = p
    BY <1>5, Zenon DEF Acquire
  <2> QED
    BY <1>2, <1>5, <2>1, RefreshSteps, PublishAssumption, SMTT(30)
<1>6. ASSUME NEW p \in Procs, Release(p)
      PROVE  /\ Others(p) /\ rf'[p].pc = "idle" /\ ~rf'[p].mine
             /\ \A q \in Procs \ {p} : rf[q].mine => lock' = q
  BY <1>2, <1>6, RefreshSteps, Zenon DEF Release, ReleaseLock
<1>7. ~\E p \in Procs : Unlocked(p)
  BY Zenon DEF Unlocked
<1>8. LockExpires => UNCHANGED rf /\ \A q \in Procs : ~rf[q].mine
  BY Zenon DEF LockExpires
<1>9. CASE \E p \in Procs : \/ RefreshPublishCache(p) \/ Acquire(p) \/ TakeOver(p) \/ Update(p) \/ Persist(p)
                            \/ PersistError(p) \/ SetSnapshot(p) \/ Release(p) \/ Restart(p)
  BY <1>2, <1>3, <1>4, <1>5, <1>6, <1>9, SMTT(30) DEF Others, RefreshPublishCache
<1>10. CASE \E r \in Requests : RefreshAfterUpdate(r)
  BY <1>2, <1>3, <1>10, PublishAssumption, ZenonT(30) DEF Others, RefreshAfterUpdate
<1>11. CASE LockExpires
  BY <1>2, <1>8, <1>11, ZenonT(30)
<1>12. CASE UNCHANGED <<rf, lock>>
  BY <1>2, <1>12, Zenon
<1> QED
  BY <1>7, <1>9, <1>10, <1>11, <1>12, ZenonT(30)
     DEF Next, UpdateRuntimeConfig, SaveConfigVersion, SaveError, StoreConfig, vars

\* persist, with the lock: the files written so far hold the newest blob, and the
\* label is the last of them.
LEMMA NextFiles ==
    TypeOK /\ LockHeld /\ FilesInOrder /\ LabelNeverAhead /\ [Next]_vars => FilesInOrder' /\ LabelNeverAhead'
<1> SUFFICES ASSUME TypeOK, LockHeld, FilesInOrder, LabelNeverAhead, [Next]_vars, ~exposed'
             PROVE  /\ \A p \in Procs : rf'[p].pc = "persist" =>
                          /\ rf'[p].blob = Len(blobs') /\ rf'[p].next > 0
                          /\ \A i \in 1..(rf'[p].next - 1) : disk'[Parts[i]] = rf'[p].blob
                    /\ \A n \in Names : disk'["meta"] <= disk'[n]
  BY Zenon DEF FilesInOrder, LabelNeverAhead, Parts, Names
<1>1. ~exposed
  BY Zenon DEF Next, RefreshPublishCache, Begin, Acquire, TakeOver, Unlocked, Update, Persist, PersistError,
         SetSnapshot, Release, Restart, UpdateRuntimeConfig, SaveConfigVersion, SaveError, StoreConfig,
         RefreshAfterUpdate, LockExpires, vars
<1>2. /\ \A p \in Procs : rf[p].pc = "persist" =>
            /\ rf[p].blob = Len(blobs) /\ rf[p].next > 0
            /\ \A i \in 1..(rf[p].next - 1) : disk[Parts[i]] = rf[p].blob
      /\ \A n \in Names : disk["meta"] <= disk[n]
  BY <1>1, Zenon DEF FilesInOrder, LabelNeverAhead
<1>3. /\ disk \in [Names -> 0..Len(blobs)] /\ Len(blobs) \in Nat /\ Len(Parts) \in Nat \ {0}
      /\ \A p \in Procs : rf[p].next \in 0..Len(Parts)
  BY PartsFacts, SMTT(30) DEF TypeOK
<1>4. ASSUME NEW p \in Procs, Update(p)
      PROVE  /\ \A q \in Procs : rf'[q].pc = "persist" => q = p
             /\ rf'[p].blob = Len(blobs') /\ rf'[p].next = 1 /\ UNCHANGED disk
  <2>1. rf[p].pc = "select" /\ UNCHANGED disk
    BY <1>4, Zenon DEF Update
  <2>2. \A q \in Procs : rf[q].pc = "persist" => q = p
    BY <1>1, <2>1, LockAlone, ZenonT(30)
  <2> QED
    BY <1>4, <2>1, <2>2, RefreshSteps, Rendering, SMTT(30) DEF Others
<1>5. ASSUME NEW p \in Procs, Persist(p)
      PROVE  /\ \A q \in Procs : rf'[q].pc = "persist" =>
                   /\ rf'[q].blob = Len(blobs') /\ rf'[q].next > 0
                   /\ \A i \in 1..(rf'[q].next - 1) : disk'[Parts[i]] = rf'[q].blob
             /\ \A n \in Names : disk'["meta"] <= disk'[n]
  <2> DEFINE k == rf[p].next
             b == Len(blobs)
  <2>1. rf[p].pc = "persist" /\ rf[p].blob = b /\ k \in 1..Len(Parts) /\ UNCHANGED blobs
    BY <1>2, <1>3, <1>5, SMTT(30) DEF Persist
  <2>2. \A q \in Procs : rf[q].pc = "persist" => q = p
    BY <1>1, <2>1, LockAlone, ZenonT(30)
  <2>3. disk' = [disk EXCEPT ![Parts[k]] = b]
    BY <1>5, <2>1, Zenon DEF Persist, WriteFile
  <2>4. \A i \in 1..k : disk'[Parts[i]] = b
    <3>1. \A i \in 1..k : Parts[i] \in Names /\ (i = k \/ i \in 1..(k - 1))
      BY <1>3, <2>1, PartsFacts, SMTT(30)
    <3>2. \A i \in 1..(k - 1) : disk[Parts[i]] = b
      BY <1>2, <2>1, Zenon
    <3> QED
      BY <1>3, <2>3, <3>1, <3>2, ZenonT(30)
  <2>5. \A q \in Procs : rf'[q].pc = "persist" => q = p /\ rf'[q].next = k + 1 /\ rf'[q].blob = b
    BY <1>5, <2>1, <2>2, RefreshSteps, ZenonT(30) DEF Others
  <2>6. \A q \in Procs : rf'[q].pc = "persist" =>
                   /\ rf'[q].blob = Len(blobs') /\ rf'[q].next > 0
                   /\ \A i \in 1..(rf'[q].next - 1) : disk'[Parts[i]] = rf'[q].blob
    <3>1. k + 1 > 0 /\ (k + 1) - 1 = k
      BY <2>1, <1>3
    <3> QED
      BY <2>1, <2>4, <2>5, <3>1, ZenonT(30)
  <2>7. \A n \in Names : disk'["meta"] <= disk'[n]
    <3>1. CASE k = Len(Parts)
      <4>1. \A n \in Names : disk'[n] = b
        BY <2>4, <3>1, PartsFacts, SMTT(30)
      <4> QED
        BY <1>3, <4>1, PartsFacts, SMTT(30)
    <3>2. CASE k # Len(Parts)
      <4>1. Parts[k] # "meta"
        BY <2>1, <3>2, PartsFacts, ZenonT(30)
      <4>2. disk'["meta"] = disk["meta"] /\ disk["meta"] \in 0..b
        BY <1>3, <2>3, <4>1, PartsFacts, ZenonT(30)
      <4>3. \A n \in Names : disk'[n] = b \/ disk'[n] = disk[n]
        BY <1>3, <2>3, Zenon
      <4> QED
        BY <1>2, <1>3, <4>2, <4>3, SMTT(30)
    <3> QED
      BY <3>1, <3>2, Zenon
  <2> QED
    BY <2>6, <2>7, Zenon
<1>6. ASSUME UNCHANGED <<blobs, disk>>, \A q \in Procs : rf'[q] = rf[q] \/ rf'[q].pc # "persist"
      PROVE  /\ \A q \in Procs : rf'[q].pc = "persist" =>
                   /\ rf'[q].blob = Len(blobs') /\ rf'[q].next > 0
                   /\ \A i \in 1..(rf'[q].next - 1) : disk'[Parts[i]] = rf'[q].blob
             /\ \A n \in Names : disk'["meta"] <= disk'[n]
  BY <1>2, <1>6, ZenonT(30)
<1>7. ASSUME NEW p \in Procs, \/ Begin(p) \/ Acquire(p) \/ TakeOver(p) \/ PersistError(p)
                              \/ SetSnapshot(p) \/ Release(p) \/ Restart(p)
      PROVE  UNCHANGED <<blobs, disk>> /\ \A q \in Procs : rf'[q] = rf[q] \/ rf'[q].pc # "persist"
  <2>1. UNCHANGED <<blobs, disk>>
    BY <1>7, Zenon DEF Begin, Acquire, TakeOver, PersistError, SetSnapshot, Release, Restart, outVars
  <2> QED
    BY <1>7, <2>1, RefreshSteps, ZenonT(30) DEF Others
<1>8. CASE \E p \in Procs : Update(p)
  <2>1. PICK p \in Procs : Update(p)
    BY <1>8, Zenon
  <2>2. \A i : i \notin 1..(1 - 1)
    OBVIOUS
  <2> QED
    BY <1>2, <1>4, <2>1, <2>2, SMTT(30)
<1>9. CASE \E p \in Procs : Persist(p)
  BY <1>5, <1>9, Zenon
<1>10. CASE \E p \in Procs : \/ RefreshPublishCache(p) \/ Acquire(p) \/ TakeOver(p) \/ PersistError(p)
                             \/ SetSnapshot(p) \/ Release(p) \/ Restart(p)
  BY <1>6, <1>7, <1>10, ZenonT(30) DEF RefreshPublishCache
<1>11. CASE \E r \in Requests : RefreshAfterUpdate(r)
  BY <1>6, <1>7, <1>11, PublishAssumption, ZenonT(30) DEF RefreshAfterUpdate
<1>12. CASE UNCHANGED <<rf, blobs, disk>>
  BY <1>6, <1>12, Zenon
<1>13. ~\E p \in Procs : Unlocked(p)
  BY Zenon DEF Unlocked
<1> QED
  BY <1>8, <1>9, <1>10, <1>11, <1>12, <1>13, ZenonT(30)
     DEF Next, UpdateRuntimeConfig, SaveConfigVersion, SaveError, StoreConfig, LockExpires, vars, outVars

-----------------------------------------------------------------------------
(* The theorems.                                                           *)

\* Every reachable state of the publish cache keeps the inductive invariant: its
\* types, and what an update, a refresh and a writer of the files have done and
\* still have to do.
THEOREM Invariance == Spec => []PInv
<1>1. Init => PInv
  BY InitType, InitUpdate, InitRefresh, InitFiles, ZenonT(30) DEF PInv
<1>2. PInv /\ [Next]_vars => PInv'
  BY NextType, NextUpdate, NextRefresh, NextLock, NextFiles, ZenonT(30) DEF PInv
<1> QED
  BY <1>1, <1>2, PTL DEF Spec

\* At rest a process serves a blob of its current policy, and one that it rendered
\* was selected under its current configuration, whatever UpdateRuntimeConfig,
\* refreshes of other processes and restarts did meanwhile.
THEOREM PolicyServed == Spec => []ServesPolicy
<1>1. PInv => ServesPolicy
  BY Zenon DEF PInv, RefreshInOrder, ServesPolicy, Quiet, Refreshing, Stale
<1> QED
  BY <1>1, Invariance, PTL

\* sub.meta.json is never newer than the bodies beside it, unless a refresh did
\* without the lock or outlived it: persist writes the label last.
THEOREM LabelLast == Spec => []LabelNeverAhead
<1>1. PInv => LabelNeverAhead
  BY Zenon DEF PInv
<1> QED
  BY <1>1, Invariance, PTL

\* The API process runs the configuration that a restart would load, unless
\* updates overlapped or were saved within the same second.
THEOREM RunningIsSaved == Spec => []VersionIsRunning
<1>1. PInv => VersionIsRunning
  BY Zenon DEF PInv, UpdateInOrder, VersionIsRunning, UpdatesUnderWay
<1> QED
  BY <1>1, Invariance, PTL

-----------------------------------------------------------------------------
(* The quota of a token.                                                   *)

UsageSpec == UsageInit /\ [][UsageNext]_usageVars

Request == [pc : {"charge", "serve", "count"}, token : SubTokens, day : 0..LastDay]

UsageTypeOK ==
    /\ usage \in [SubTokens -> [Days -> [requests : Nat, bytes : Nat]]]
    /\ served \in [SubTokens -> [Days -> Nat]]
    /\ day \in Days
    /\ client \in [Clients -> {IdleClient} \cup Request]

\* The requests charged to the account of a day and not yet answered.
Open(t, d) == {c \in Clients : client[c].pc = "serve" /\ client[c].token = t /\ client[c].day = d}

\* A request is charged before it is answered.
ChargedFirst ==
    \A t \in SubTokens, d \in Days : served[t][d] + Cardinality(Open(t, d)) <= usage[t][d].requests

\* The upsert never takes a row beyond the quota.
RowWithinQuota ==
    \A t \in SubTokens, d \in Days : DailyQuota[t] > 0 => usage[t][d].requests <= DailyQuota[t]

UInv == UsageTypeOK /\ ChargedFirst /\ RowWithinQuota

\* The open requests of a day are finitely many; one more, or one less, counts one.
LEMMA OpenCount ==
    ASSUME NEW S \in SUBSET Clients
    PROVE  /\ IsFiniteSet(S) /\ Cardinality(S) \in Nat
           /\ \A c \in Clients \ S : Cardinality(S \cup {c}) = Cardinality(S) + 1
           /\ \A c \in S : Cardinality(S \ {c}) = Cardinality(S) - 1
<1>1. IsFiniteSet(S)
  BY FS_Subset, UsageAssumption, Zenon
<1> QED
  BY <1>1, FS_CardinalityType, FS_AddElement, FS_RemoveElement, Zenon

\* The invariant holds at the start.
LEMMA UsageInitInv == UsageInit => UInv
<1> SUFFICES ASSUME UsageInit PROVE UInv
  BY Zenon
<1>1. 1 \in Days
  BY UsageAssumption DEF Days
<1>2. UsageTypeOK
  BY <1>1, Zenon DEF UsageInit, UsageTypeOK
<1>3. \A c \in Clients : client[c].pc = "idle"
  BY Zenon DEF UsageInit, IdleClient
<1>4. \A t : \A d : Open(t, d) = {}
  BY <1>3, Zenon DEF Open
<1>5. \A t \in SubTokens, d \in Days : served[t][d] = 0 /\ usage[t][d].requests = 0
  BY Zenon DEF UsageInit
<1>6. ChargedFirst
  BY <1>4, <1>5, FS_EmptySet DEF ChargedFirst
<1>7. RowWithinQuota
  BY <1>5, UsageAssumption DEF RowWithinQuota
<1> QED
  BY <1>2, <1>6, <1>7, Zenon DEF UInv

\* A statement that leaves usage, served and the open requests alone.
LEMMA UsageKept ==
    ASSUME UInv, UsageTypeOK', UNCHANGED served, \A t : \A d : Open(t, d)' = Open(t, d),
           \A t \in SubTokens, d \in Days : usage'[t][d].requests = usage[t][d].requests
    PROVE  UInv'
<1>1. ChargedFirst'
  BY Zenon DEF UInv, ChargedFirst
<1>2. RowWithinQuota'
  BY Zenon DEF UInv, RowWithinQuota
<1> QED
  BY <1>1, <1>2, Zenon DEF UInv

\* The upsert adds one request to a row that has room for it.
LEMMA ChargeWithin ==
    ASSUME UInv, NEW c \in Clients, client[c] \in Request, WithinQuota(client[c].token),
           usage' = [usage EXCEPT ![client[c].token][day].requests = @ + 1]
    PROVE  /\ usage' \in [SubTokens -> [Days -> [requests : Nat, bytes : Nat]]]
           /\ \A t \in SubTokens, d \in Days :
                 usage'[t][d].requests = IF t = client[c].token /\ d = day THEN usage[t][d].requests + 1
                                         ELSE usage[t][d].requests
           /\ RowWithinQuota'
<1> DEFINE u == client[c].token
<1>1. u \in SubTokens /\ day \in Days /\ usage \in [SubTokens -> [Days -> [requests : Nat, bytes : Nat]]]
  BY Zenon DEF UInv, UsageTypeOK, Request
<1>2. usage' = [usage EXCEPT ![u][day].requests = usage[u][day].requests + 1]
  BY Zenon
<1>3. WithinQuota(u)
  BY Zenon
<1> HIDE DEF u
<1>4. usage' \in [SubTokens -> [Days -> [requests : Nat, bytes : Nat]]]
  BY <1>1, <1>2, SMTT(30)
<1>5. \A t \in SubTokens, d \in Days :
         usage'[t][d].requests = IF t = u /\ d = day THEN usage[t][d].requests + 1 ELSE usage[t][d].requests
  BY <1>1, <1>2
<1>6. DailyQuota[u] > 0 => usage[u][day].requests + 1 <= DailyQuota[u]
  BY <1>1, <1>3, UsageAssumption DEF WithinQuota
<1>7. RowWithinQuota'
  BY <1>5, <1>6 DEF UInv, RowWithinQuota
<1> QED
  BY <1>4, <1>5, <1>7, Zenon DEF u

\* A request under way, and what a call of it makes of it.
LEMMA ClientFacts ==
    ASSUME UsageTypeOK, NEW c \in Clients
    PROVE  /\ Busy(c) => client[c] \in Request
           /\ IdleClient.pc = "idle" /\ \A r \in Request : r # IdleClient
<1>1. \A r \in Request : r.pc # "idle"
  BY Zenon DEF Request
<1>2. IdleClient.pc = "idle"
  BY Zenon DEF IdleClient
<1> QED
  BY <1>1, <1>2, Zenon DEF UsageTypeOK, Busy

\* A client that had no open request and has none: the open requests are the same.
LEMMA OpenKept ==
    ASSUME NEW c \in Clients, \A x \in Clients \ {c} : client'[x] = client[x],
           client[c].pc # "serve", client'[c].pc # "serve"
    PROVE  \A t : \A d : Open(t, d)' = Open(t, d)
BY Zenon DEF Open

\* Every step keeps the invariant.
LEMMA UsageNextInv == UInv /\ [UsageNext]_usageVars => UInv'
<1> SUFFICES ASSUME UInv, [UsageNext]_usageVars PROVE UInv'
  BY Zenon
<1>1. UsageTypeOK
  BY Zenon DEF UInv
<1>2. \A t : \A d : Open(t, d) \in SUBSET Clients
  BY Zenon DEF Open
<1>3. ASSUME UNCHANGED <<usage, served, client>>, day' \in Days PROVE UInv'
  <2>1. UsageTypeOK'
    BY <1>1, <1>3, Zenon DEF UsageTypeOK
  <2>2. \A t : \A d : Open(t, d)' = Open(t, d)
    BY <1>3, Zenon DEF Open
  <2> QED
    BY <1>3, <2>1, <2>2, UsageKept, Zenon
<1>4. ASSUME NEW c \in Clients, client'[c] = IdleClient, client[c].pc # "serve", UNCHANGED <<day, served>>,
             client' = [client EXCEPT ![c] = IdleClient],
             usage' \in [SubTokens -> [Days -> [requests : Nat, bytes : Nat]]],
             \A t \in SubTokens, d \in Days : usage'[t][d].requests = usage[t][d].requests
      PROVE  UInv'
  <2>1. UsageTypeOK'
    BY <1>1, <1>4, Zenon DEF UsageTypeOK
  <2>2. \A t : \A d : Open(t, d)' = Open(t, d)
    BY <1>1, <1>4, OpenKept, ClientFacts, Zenon DEF UsageTypeOK
  <2> QED
    BY <1>4, <2>1, <2>2, UsageKept, Zenon
<1>5. ASSUME NEW c \in Clients, NEW t \in SubTokens, ValidateSubToken(c, t) PROVE UInv'
  <2>1. [pc |-> "charge", token |-> t, day |-> 0] \in Request
    BY UsageAssumption DEF Request
  <2>2. UsageTypeOK'
    BY <1>1, <1>5, <2>1, Zenon DEF UsageTypeOK, ValidateSubToken
  <2>3. client[c].pc # "serve" /\ client'[c].pc # "serve" /\ \A x \in Clients \ {c} : client'[x] = client[x]
    BY <1>1, <1>5, ClientFacts, Zenon DEF ValidateSubToken, Busy, UsageTypeOK
  <2>4. \A u : \A d : Open(u, d)' = Open(u, d)
    BY <2>3, OpenKept, Zenon
  <2> QED
    BY <1>5, <2>2, <2>4, UsageKept, Zenon DEF ValidateSubToken
<1>6. ASSUME NEW c \in Clients, RefuseScope(c) PROVE UInv'
  BY <1>1, <1>4, <1>6, Zenon DEF RefuseScope, UsageTypeOK
<1>7. ASSUME NEW c \in Clients, Busy(c), client[c].pc = "charge", WithinQuota(client[c].token),
             usage' = [usage EXCEPT ![client[c].token][day].requests = @ + 1],
             UNCHANGED <<day, served>>, client' \in [Clients -> {IdleClient} \cup Request],
             \A x \in Clients \ {c} : client'[x] = client[x],
             client'[c] = IdleClient
                \/ (client'[c].pc = "serve" /\ client'[c].token = client[c].token /\ client'[c].day = day)
      PROVE  UInv'
  <2>1. client[c] \in Request
    BY <1>1, <1>7, ClientFacts, Zenon
  <2>2. /\ usage' \in [SubTokens -> [Days -> [requests : Nat, bytes : Nat]]]
        /\ \A t \in SubTokens, d \in Days :
                 usage'[t][d].requests = IF t = client[c].token /\ d = day THEN usage[t][d].requests + 1
                                         ELSE usage[t][d].requests
        /\ RowWithinQuota'
    BY <1>7, <2>1, ChargeWithin, Zenon
  <2>3. UsageTypeOK'
    BY <1>1, <1>7, <2>2, Zenon DEF UsageTypeOK
  <2>4. ASSUME NEW t \in SubTokens, NEW d \in Days
        PROVE  served'[t][d] + Cardinality(Open(t, d)') <= usage'[t][d].requests
    <3>1. /\ Cardinality(Open(t, d)) \in Nat /\ served[t][d] \in Nat /\ usage[t][d].requests \in Nat
          /\ served[t][d] + Cardinality(Open(t, d)) <= usage[t][d].requests
      BY <1>1, <1>2, OpenCount, Zenon DEF UsageTypeOK, UInv, ChargedFirst
    <3>2. CASE t = client[c].token /\ d = day /\ client'[c] # IdleClient
      <4>1. c \notin Open(t, d) /\ Open(t, d)' = Open(t, d) \cup {c}
        BY <1>7, <3>2, Zenon DEF Open
      <4>2. Cardinality(Open(t, d)') = Cardinality(Open(t, d)) + 1
        BY <1>2, <4>1, OpenCount, Zenon
      <4>3. served'[t][d] = served[t][d] /\ usage'[t][d].requests = usage[t][d].requests + 1
        BY <1>7, <2>2, <3>2, Zenon
      <4> QED
        BY <3>1, <4>2, <4>3
    <3>3. CASE ~(t = client[c].token /\ d = day /\ client'[c] # IdleClient)
      <4>1. Open(t, d)' = Open(t, d)
        BY <1>1, <1>7, <3>3, ClientFacts, Zenon DEF Open
      <4>2. usage'[t][d].requests \in Nat /\ usage'[t][d].requests >= usage[t][d].requests
        BY <2>2, <3>1
      <4> QED
        BY <1>7, <3>1, <4>1, <4>2, SMTT(30)
    <3> QED
      BY <3>2, <3>3, Zenon
  <2> QED
    BY <2>2, <2>3, <2>4, Zenon DEF UInv, ChargedFirst
<1>8. ASSUME NEW c \in Clients, ConsumeTokenQuota(c) PROVE UInv'
  <2>1. Busy(c) /\ client[c].pc = "charge" /\ UNCHANGED <<day, served>> /\ client[c] \in Request
    BY <1>1, <1>8, ClientFacts, Zenon DEF ConsumeTokenQuota
  <2>2. CASE WithinQuota(client[c].token)
    <3>1. /\ usage' = [usage EXCEPT ![client[c].token][day].requests = @ + 1]
          /\ client' = [client EXCEPT ![c].pc = "serve", ![c].day = day]
      BY <1>8, <2>2, Zenon DEF ConsumeTokenQuota
    <3> DEFINE r == client[c]
    <3>2. /\ client'[c] = [r EXCEPT !.pc = "serve", !.day = day]
          /\ \A x \in Clients \ {c} : client'[x] = client[x]
          /\ client' = [client EXCEPT ![c] = client'[c]]
      BY <1>1, <3>1, Zenon DEF UsageTypeOK
    <3>3. r \in Request /\ day \in 0..LastDay
      BY <1>1, <2>1, UsageAssumption DEF UsageTypeOK, Days
    <3> HIDE DEF r
    <3>4. ASSUME NEW q, q = [r EXCEPT !.pc = "serve", !.day = day]
          PROVE  q \in Request /\ q.pc = "serve" /\ q.token = r.token /\ q.day = day
      BY <3>3, <3>4, Zenon DEF Request
    <3>5. client'[c] \in Request /\ client'[c].pc = "serve" /\ client'[c].token = r.token /\ client'[c].day = day
      BY <3>2, <3>4, Zenon
    <3>6. client' \in [Clients -> {IdleClient} \cup Request]
      BY <1>1, <3>2, <3>5, Zenon DEF UsageTypeOK
    <3> QED
      BY <1>7, <2>1, <2>2, <3>1, <3>2, <3>5, <3>6, ZenonT(30) DEF r
  <2>3. CASE ~WithinQuota(client[c].token)
    <3>1. client' = [client EXCEPT ![c] = IdleClient] /\ UNCHANGED usage
      BY <1>8, <2>3, Zenon DEF ConsumeTokenQuota
    <3> QED
      BY <1>1, <1>4, <2>1, <3>1, ZenonT(30) DEF UsageTypeOK
  <2> QED
    BY <2>2, <2>3, Zenon
<1>9. ASSUME NEW c \in Clients, QuotaCheckFails(c) PROVE UInv'
  <2>1. /\ Busy(c) /\ client[c].pc = "charge" /\ UNCHANGED <<day, served>>
        /\ client' = [client EXCEPT ![c] = IdleClient]
    BY <1>9, Zenon DEF QuotaCheckFails
  <2>2. /\ client'[c] = IdleClient /\ \A x \in Clients \ {c} : client'[x] = client[x]
        /\ client' \in [Clients -> {IdleClient} \cup Request]
    BY <1>1, <2>1, Zenon DEF UsageTypeOK
  <2>3. CASE UNCHANGED usage
    BY <1>1, <1>4, <2>1, <2>2, <2>3, ZenonT(30) DEF UsageTypeOK
  <2>4. CASE ~UNCHANGED usage
    <3>1. WithinQuota(client[c].token) /\ usage' = [usage EXCEPT ![client[c].token][day].requests = @ + 1]
      BY <1>9, <2>4, Zenon DEF QuotaCheckFails
    <3> QED
      BY <1>7, <2>1, <2>2, <3>1, ZenonT(30)
  <2> QED
    BY <2>3, <2>4, Zenon
<1>10. ASSUME NEW c \in Clients, NEW body \in BOOLEAN, Serve(c, body) PROVE UInv'
  <2> DEFINE u == client[c].token
             e == client[c].day
  <2>1. /\ Busy(c) /\ client[c].pc = "serve" /\ UNCHANGED <<day, usage>> /\ client[c] \in Request
        /\ served' = [served EXCEPT ![u][e] = @ + 1]
    BY <1>1, <1>10, ClientFacts, Zenon DEF Serve
  <2>2. /\ client' \in [Clients -> {IdleClient} \cup Request] /\ client'[c].pc # "serve"
        /\ \A x \in Clients \ {c} : client'[x] = client[x]
    <3> DEFINE r == client[c]
    <3>1. client' = [client EXCEPT ![c] = IF body THEN [r EXCEPT !.pc = "count"] ELSE IdleClient]
      BY <1>10, Zenon DEF Serve
    <3>2. r \in Request
      BY <2>1, Zenon
    <3> HIDE DEF r
    <3>3. ASSUME NEW q, q = [r EXCEPT !.pc = "count"]
          PROVE  q \in Request /\ q.pc = "count"
      BY <3>2, <3>3, Zenon DEF Request
    <3>4. IdleClient.pc # "serve"
      BY <1>1, ClientFacts, Zenon
    <3> QED
      BY <1>1, <3>1, <3>3, <3>4, Zenon DEF UsageTypeOK
  <2>3. u \in SubTokens /\ served \in [SubTokens -> [Days -> Nat]]
    BY <1>1, <2>1, Zenon DEF UsageTypeOK, Request
  <2> HIDE DEF u, e
  <2>4. /\ served' \in [SubTokens -> [Days -> Nat]]
        /\ \A t \in SubTokens, d \in Days :
              served'[t][d] = IF t = u /\ d = e THEN served[t][d] + 1 ELSE served[t][d]
    <3>1. CASE e \in Days
      BY <2>1, <2>3, <3>1
    <3>2. CASE e \notin Days
      <4>1. [served[u] EXCEPT ![e] = served[u][e] + 1] = served[u]
        BY <2>3, <3>2, Zenon
      <4>2. served' = [served EXCEPT ![u] = [served[u] EXCEPT ![e] = served[u][e] + 1]]
        BY <2>1, Zenon
      <4>3. served' = served
        BY <2>3, <4>1, <4>2, Zenon
      <4> QED
        BY <2>3, <3>2, <4>3, Zenon
    <3> QED
      BY <3>1, <3>2, Zenon
  <2>5. UsageTypeOK'
    BY <1>1, <2>1, <2>2, <2>4, Zenon DEF UsageTypeOK
  <2>6. ASSUME NEW t \in SubTokens, NEW d \in Days
        PROVE  served'[t][d] + Cardinality(Open(t, d)') <= usage'[t][d].requests
    <3>1. /\ Cardinality(Open(t, d)) \in Nat /\ served[t][d] \in Nat /\ usage[t][d].requests \in Nat
          /\ served[t][d] + Cardinality(Open(t, d)) <= usage[t][d].requests
      BY <1>1, <1>2, OpenCount, Zenon DEF UsageTypeOK, UInv, ChargedFirst
    <3>2. CASE t = u /\ d = e
      <4>1. c \in Open(t, d) /\ Open(t, d)' = Open(t, d) \ {c}
        BY <2>1, <2>2, <3>2, Zenon DEF Open, u, e
      <4>2. Cardinality(Open(t, d)') = Cardinality(Open(t, d)) - 1
        BY <1>2, <4>1, OpenCount, Zenon
      <4> QED
        BY <2>1, <2>4, <3>1, <3>2, <4>2, SMTT(30)
    <3>3. CASE ~(t = u /\ d = e)
      <4>1. Open(t, d)' = Open(t, d)
        BY <2>1, <2>2, <3>3, Zenon DEF Open, u, e
      <4> QED
        BY <2>1, <2>4, <3>1, <3>3, <4>1, Zenon
    <3> QED
      BY <3>2, <3>3, Zenon
  <2>7. RowWithinQuota'
    BY <2>1, Zenon DEF UInv, RowWithinQuota
  <2> QED
    BY <2>5, <2>6, <2>7, Zenon DEF UInv, ChargedFirst
<1>11. ASSUME NEW c \in Clients, NEW ok \in BOOLEAN, AddTokenBytes(c, ok) PROVE UInv'
  <2> DEFINE u == client[c].token
             rowAfter(d) == IF ok /\ Counted(u, d) THEN [usage[u][d] EXCEPT !.bytes = @ + 1] ELSE usage[u][d]
  <2>1. /\ client[c] \in Request /\ client[c].pc = "count" /\ UNCHANGED <<day, served>>
        /\ client' = [client EXCEPT ![c] = IdleClient]
        /\ usage' = [usage EXCEPT ![u] = [d \in Days |-> rowAfter(d)]]
    BY <1>1, <1>11, ClientFacts, Zenon DEF AddTokenBytes
  <2>2. u \in SubTokens /\ usage \in [SubTokens -> [Days -> [requests : Nat, bytes : Nat]]]
    BY <1>1, <2>1, Zenon DEF UsageTypeOK, Request
  <2>3. \A r \in [requests : Nat, bytes : Nat] :
           [r EXCEPT !.bytes = @ + 1] \in [requests : Nat, bytes : Nat] /\ [r EXCEPT !.bytes = @ + 1].requests = r.requests
    OBVIOUS
  <2> HIDE DEF u
  <2>4. \A d \in Days : rowAfter(d) \in [requests : Nat, bytes : Nat] /\ rowAfter(d).requests = usage[u][d].requests
    BY <2>2, <2>3
  <2> HIDE DEF rowAfter
  <2>5. /\ usage' \in [SubTokens -> [Days -> [requests : Nat, bytes : Nat]]]
        /\ \A t \in SubTokens, d \in Days : usage'[t][d].requests = usage[t][d].requests
    BY <2>1, <2>2, <2>4, Zenon
  <2> QED
    BY <1>1, <1>4, <2>1, <2>5, ZenonT(30) DEF UsageTypeOK
<1>12. ASSUME Midnight PROVE UInv'
  <2>1. day' \in Days
    BY <1>1, <1>12, UsageAssumption DEF Midnight, UsageTypeOK, Days
  <2> QED
    BY <1>3, <1>12, <2>1, Zenon DEF Midnight
<1>13. ASSUME UNCHANGED <<usage, served, client, day>> PROVE UInv'
  BY <1>1, <1>3, <1>13, Zenon DEF UsageTypeOK
<1> QED
  BY <1>5, <1>6, <1>8, <1>9, <1>10, <1>11, <1>12, <1>13, Zenon
     DEF UsageNext, CreateToken, DeleteToken, SetTokenEnabled, usageVars

\* However many requests race for the last one, a token is answered no more often on
\* the account of a day than its quota allows (ConsumeTokenQuota).
THEOREM QuotaIsKept == UsageSpec => []QuotaKept
<1>1. UInv => QuotaKept
  <2> SUFFICES ASSUME UInv, NEW t \in SubTokens, NEW d \in Days, DailyQuota[t] > 0
               PROVE  served[t][d] <= DailyQuota[t]
    BY Zenon DEF QuotaKept
  <2>1. Cardinality(Open(t, d)) \in Nat
    BY OpenCount, Zenon DEF Open
  <2> QED
    BY <2>1, UsageAssumption DEF UInv, UsageTypeOK, ChargedFirst, RowWithinQuota
<1> QED
  BY <1>1, UsageInitInv, UsageNextInv, PTL DEF UsageSpec

-----------------------------------------------------------------------------
(* The bytes of a token.                                                   *)

\* The bodies written and not yet counted.
Writing(t) == {c \in Clients : Busy(c) /\ client[c].pc = "count" /\ client[c].token = t}

\* A request that was charged left a row of its day.
RowOfCharge ==
    \A c \in Clients : client[c].pc \in {"serve", "count"} =>
        client[c].day \in Days /\ usage[client[c].token][client[c].day].requests > 0

\* Every body is counted, or will be, at most once.
BodiesCounted ==
    \A t \in SubTokens :
        /\ IsFiniteSet(Recorded(t))
        /\ Cardinality(Recorded(t)) + Cardinality(Writing(t)) <= bodies[t]
        /\ t \notin uncounted => Cardinality(Recorded(t)) + Cardinality(Writing(t)) = bodies[t]

BytesInv == bodies \in [SubTokens -> Nat] /\ RowOfCharge /\ BodiesCounted

\* Calls that count no bytes.
LEMMA BytesStay ==
    ASSUME UsageTypeOK, UsageTypeOK', BytesInv, UNCHANGED <<bodies, uncounted>>, RowOfCharge',
           \A t \in SubTokens, d \in Days : usage'[t][d].bytes = usage[t][d].bytes,
           \A t \in SubTokens : Writing(t)' = Writing(t)
    PROVE  BytesInv'
<1>1. \A t \in SubTokens : Recorded(t)' = Recorded(t)
  BY Zenon DEF Recorded
<1> QED
  BY <1>1, Zenon DEF BytesInv, BodiesCounted

\* A request that ends, or begins, before it wrote a body.
LEMMA WritingStays ==
    ASSUME NEW c \in Clients, \A x \in Clients \ {c} : client'[x] = client[x],
           client[c].pc # "count", client'[c].pc # "count"
    PROVE  \A t : Writing(t)' = Writing(t)
BY Zenon DEF Writing, Busy

\* The row of another day, or token, stays as it is; the row of a charge is never
\* taken back.
LEMMA ChargedStays ==
    ASSUME UsageTypeOK, BytesInv, NEW c \in Clients, \A x \in Clients \ {c} : client'[x] = client[x],
           client'[c].pc \in {"serve", "count"} =>
               client'[c].day \in Days /\ usage'[client'[c].token][client'[c].day].requests > 0,
           \A t \in SubTokens, d \in Days : usage'[t][d].requests >= usage[t][d].requests
                                            /\ usage'[t][d].requests \in Nat
    PROVE  RowOfCharge'
<1> SUFFICES ASSUME NEW x \in Clients \ {c}, client[x].pc \in {"serve", "count"}
             PROVE  client[x].day \in Days /\ usage'[client[x].token][client[x].day].requests > 0
  BY Zenon DEF RowOfCharge
<1>1. client[x] \in {IdleClient} \cup Request
  BY Zenon DEF UsageTypeOK
<1>2. client[x].token \in SubTokens
  BY <1>1 DEF IdleClient, Request
<1>3. client[x].day \in Days /\ usage[client[x].token][client[x].day].requests > 0
  BY Zenon DEF BytesInv, RowOfCharge
<1>4. usage[client[x].token][client[x].day].requests \in Nat
  BY <1>2, <1>3, Zenon DEF UsageTypeOK
<1> QED
  BY <1>2, <1>3, <1>4

\* A statement that charges a request, or none.
LEMMA UsageCharged ==
    ASSUME UsageTypeOK, NEW u \in SubTokens,
           usage' \in {usage, [usage EXCEPT ![u][day].requests = @ + 1]}
    PROVE  /\ \A t \in SubTokens, d \in Days : /\ usage'[t][d].bytes = usage[t][d].bytes
                                               /\ usage'[t][d].requests >= usage[t][d].requests
                                               /\ usage'[t][d].requests \in Nat
           /\ usage' # usage => usage'[u][day].requests > 0
<1>1. usage \in [SubTokens -> [Days -> [requests : Nat, bytes : Nat]]] /\ day \in Days
  BY Zenon DEF UsageTypeOK
<1>2. CASE usage' = usage
  BY <1>1, <1>2
<1>3. CASE usage' = [usage EXCEPT ![u][day].requests = @ + 1]
  BY <1>1, <1>3, SMTT(30)
<1> QED
  BY <1>2, <1>3, Zenon

\* The count of a body adds one byte to the row of today, if there is one.
LEMMA CountAdds ==
    ASSUME UsageTypeOK, UsageTypeOK', NEW u \in SubTokens, NEW ok \in BOOLEAN,
           usage' = [usage EXCEPT ![u] = [d \in Days |->
                        IF ok /\ Counted(u, d) THEN [usage[u][d] EXCEPT !.bytes = @ + 1] ELSE usage[u][d]]],
           IsFiniteSet(Recorded(u))
    PROVE  /\ \A t \in SubTokens \ {u} : Recorded(t)' = Recorded(t)
           /\ \A t \in SubTokens, d \in Days : usage'[t][d].requests = usage[t][d].requests
           /\ IsFiniteSet(Recorded(u)')
           /\ Cardinality(Recorded(u)') = IF ok /\ usage[u][day].requests > 0 THEN Cardinality(Recorded(u)) + 1
                                          ELSE Cardinality(Recorded(u))
<1>1. /\ usage \in [SubTokens -> [Days -> [requests : Nat, bytes : Nat]]]
      /\ usage' \in [SubTokens -> [Days -> [requests : Nat, bytes : Nat]]] /\ day \in Days
  BY Zenon DEF UsageTypeOK
<1>2. \A t \in SubTokens \ {u} : usage'[t] = usage[t]
  BY <1>1, Zenon
<1>3. \A d \in Days : usage'[u][d] = IF ok /\ Counted(u, d) THEN [usage[u][d] EXCEPT !.bytes = @ + 1] ELSE usage[u][d]
  BY <1>1, Zenon
<1>4. \A d \in Days : /\ usage'[u][d].requests = usage[u][d].requests
                      /\ usage'[u][d].bytes = IF ok /\ Counted(u, d) THEN usage[u][d].bytes + 1 ELSE usage[u][d].bytes
  BY <1>1, <1>3
<1>5. \A t \in SubTokens \ {u} : Recorded(t)' = Recorded(t)
  BY <1>2, Zenon DEF Recorded
<1>6. CASE ok /\ usage[u][day].requests > 0
  <2> DEFINE new == <<day, usage[u][day].bytes + 1>>
  <2>1. \A d \in Days : Counted(u, d) <=> d = day
    BY <1>6, Zenon DEF Counted
  <2>2. \A d \in Days : usage[u][d].bytes \in Nat
    BY <1>1
  <2>3. ASSUME NEW d \in Days
        PROVE  /\ d # day => 1..usage'[u][d].bytes = 1..usage[u][d].bytes
               /\ d = day => 1..usage'[u][d].bytes = (1..usage[u][d].bytes) \cup {usage[u][day].bytes + 1}
    BY <1>4, <1>6, <2>1, <2>2
  <2>4. \A d \in Days : \A n :
                           /\ n \in 1..usage'[u][d].bytes <=> n \in 1..usage[u][d].bytes \/ (d = day /\ n = usage[u][day].bytes + 1)
                           /\ ~(usage[u][d].bytes + 1 \in 1..usage[u][d].bytes)
    BY <2>2, <2>3
  <2>5. \A p : /\ p \in Recorded(u) <=> \E d \in Days : \E n \in 1..usage[u][d].bytes : p = <<d, n>>
               /\ p \in Recorded(u)' <=> \E d \in Days : \E n \in 1..usage'[u][d].bytes : p = <<d, n>>
    BY DEF Recorded
  <2>6. new \notin Recorded(u)
    <3>1. \A d, n : new = <<d, n>> => d = day /\ n = usage[u][day].bytes + 1
      BY Zenon
    <3> QED
      BY <1>1, <2>4, <2>5, <3>1
  <2>7. Recorded(u)' = Recorded(u) \cup {new}
    BY <1>1, <2>4, <2>5
  <2>8. IsFiniteSet(Recorded(u)') /\ Cardinality(Recorded(u)') = Cardinality(Recorded(u)) + 1
    BY <2>6, <2>7, FS_AddElement, Zenon
  <2> QED
    BY <1>4, <1>2, <1>5, <1>6, <2>8, Zenon
<1>7. CASE ~(ok /\ usage[u][day].requests > 0)
  <2>1. \A d \in Days : usage'[u][d].bytes = usage[u][d].bytes
    BY <1>4, <1>7, Zenon DEF Counted
  <2>2. Recorded(u)' = Recorded(u)
    BY <2>1, Zenon DEF Recorded
  <2> QED
    BY <1>4, <1>2, <1>5, <1>7, <2>2, Zenon
<1> QED
  BY <1>6, <1>7, Zenon

\* At the start no body was written.
LEMMA BytesInitInv == UsageInit => BytesInv
<1> SUFFICES ASSUME UsageInit PROVE BytesInv
  BY Zenon
<1>1. \A c \in Clients : client[c].pc = "idle" /\ ~Busy(c)
  BY Zenon DEF UsageInit, IdleClient, Busy
<1>2. \A t : Writing(t) = {}
  BY <1>1, Zenon DEF Writing
<1>3. \A t \in SubTokens : Recorded(t) = {}
  <2>1. \A t \in SubTokens, d \in Days : 1..usage[t][d].bytes = {}
    BY DEF UsageInit
  <2> QED
    BY <2>1, Zenon DEF Recorded
<1>4. BodiesCounted
  <2>1. IsFiniteSet({}) /\ Cardinality({}) = 0 /\ \A t \in SubTokens : bodies[t] = 0
    BY FS_EmptySet, Zenon DEF UsageInit
  <2> QED
    BY <1>2, <1>3, <2>1 DEF BodiesCounted
<1> QED
  BY <1>1, <1>4, Zenon DEF BytesInv, RowOfCharge, UsageInit

\* Every step keeps the count of the bodies.
LEMMA BytesNextInv == UsageTypeOK /\ UsageTypeOK' /\ BytesInv /\ [UsageNext]_usageVars => BytesInv'
<1> SUFFICES ASSUME UsageTypeOK, UsageTypeOK', BytesInv, [UsageNext]_usageVars PROVE BytesInv'
  BY Zenon
<1>1. ASSUME UNCHANGED <<usage, client, bodies, uncounted>> PROVE BytesInv'
  BY <1>1 DEF BytesInv, RowOfCharge, BodiesCounted, Writing, Busy, Recorded
<1>2. \A c \in Clients : Busy(c) => client[c] \in Request /\ client[c].token \in SubTokens
  BY ClientFacts, Zenon DEF Request
<1>3. \A x : IdleClient.pc # "serve" /\ IdleClient.pc # "count"
  BY Zenon DEF IdleClient
<1>4. ASSUME NEW c \in Clients, \A x \in Clients \ {c} : client'[x] = client[x], NEW u \in SubTokens,
             usage' \in {usage, [usage EXCEPT ![u][day].requests = @ + 1]}, UNCHANGED <<bodies, uncounted>>,
             client[c].pc # "count", client'[c].pc # "count",
             client'[c].pc = "serve" => client'[c].token = u /\ client'[c].day = day /\ usage' # usage
      PROVE  BytesInv'
  <2>1. /\ \A t \in SubTokens, d \in Days : /\ usage'[t][d].bytes = usage[t][d].bytes
                                            /\ usage'[t][d].requests >= usage[t][d].requests
                                            /\ usage'[t][d].requests \in Nat
        /\ usage' # usage => usage'[u][day].requests > 0
    BY <1>4, UsageCharged, Zenon
  <2>2. RowOfCharge'
    BY <1>4, <2>1, ChargedStays, Zenon DEF UsageTypeOK
  <2>3. \A t : Writing(t)' = Writing(t)
    BY <1>4, WritingStays, Zenon
  <2> QED
    BY <1>4, <2>1, <2>2, <2>3, BytesStay, Zenon
<1>5. ASSUME NEW c \in Clients, NEW t \in SubTokens, ValidateSubToken(c, t) PROVE BytesInv'
  <2>1. /\ client[c] = IdleClient /\ client'[c] = [pc |-> "charge", token |-> t, day |-> 0]
        /\ \A x \in Clients \ {c} : client'[x] = client[x]
    BY <1>5, Zenon DEF ValidateSubToken, Busy, UsageTypeOK
  <2>2. client[c].pc # "count" /\ client'[c].pc # "count" /\ client'[c].pc # "serve"
    BY <1>3, <2>1
  <2> QED
    BY <1>4, <1>5, <2>1, <2>2, Zenon DEF ValidateSubToken
<1>6. ASSUME NEW c \in Clients, RefuseScope(c) PROVE BytesInv'
  <2>1. /\ client[c].token \in SubTokens /\ client[c].pc = "charge" /\ client'[c] = IdleClient
        /\ \A x \in Clients \ {c} : client'[x] = client[x]
    BY <1>2, <1>6, Zenon DEF RefuseScope, UsageTypeOK
  <2> QED
    BY <1>3, <1>4, <1>6, <2>1, Zenon DEF RefuseScope
<1>7. ASSUME NEW c \in Clients, ConsumeTokenQuota(c) PROVE BytesInv'
  <2>1. /\ client[c].token \in SubTokens /\ client[c].pc = "charge" /\ client[c] \in Request
        /\ \A x \in Clients \ {c} : client'[x] = client[x]
        /\ UNCHANGED <<bodies, uncounted>>
    BY <1>2, <1>7, Zenon DEF ConsumeTokenQuota, UsageTypeOK
  <2>2. CASE WithinQuota(client[c].token)
    <3>1. /\ usage' = [usage EXCEPT ![client[c].token][day].requests = @ + 1]
          /\ client' = [client EXCEPT ![c].pc = "serve", ![c].day = day]
      BY <1>7, <2>2, Zenon DEF ConsumeTokenQuota
    <3>2. client'[c].pc = "serve" /\ client'[c].token = client[c].token /\ client'[c].day = day
      BY <2>1, <3>1, Zenon DEF UsageTypeOK, Request
    <3>3. usage' # usage
      <4>1. usage[client[c].token][day].requests \in Nat
        BY <1>2, <2>1, Zenon DEF UsageTypeOK
      <4>2. usage'[client[c].token][day].requests = usage[client[c].token][day].requests + 1
        BY <1>2, <2>1, <3>1 DEF UsageTypeOK
      <4> QED
        BY <4>1, <4>2
    <3> QED
      BY <1>4, <2>1, <3>1, <3>2, <3>3, Zenon
  <2>3. CASE ~WithinQuota(client[c].token)
    <3>1. client'[c] = IdleClient /\ usage' = usage
      BY <1>7, <2>3, Zenon DEF ConsumeTokenQuota, UsageTypeOK
    <3> QED
      BY <1>3, <1>4, <2>1, <3>1, Zenon
  <2> QED
    BY <2>2, <2>3, Zenon
<1>8. ASSUME NEW c \in Clients, QuotaCheckFails(c) PROVE BytesInv'
  <2>1. /\ client[c].token \in SubTokens /\ client[c].pc = "charge" /\ client'[c] = IdleClient
        /\ \A x \in Clients \ {c} : client'[x] = client[x]
        /\ UNCHANGED <<bodies, uncounted>>
    BY <1>2, <1>8, Zenon DEF QuotaCheckFails, UsageTypeOK
  <2>2. usage' \in {usage, [usage EXCEPT ![client[c].token][day].requests = @ + 1]}
    BY <1>8, Zenon DEF QuotaCheckFails
  <2> QED
    BY <1>3, <1>4, <2>1, <2>2, Zenon
<1>9. ASSUME NEW c \in Clients, NEW body \in BOOLEAN, Serve(c, body) PROVE BytesInv'
  <2>1. PICK u \in SubTokens :
        /\ u = client[c].token /\ client[c].pc = "serve" /\ client[c] \in Request /\ Busy(c)
        /\ \A x \in Clients \ {c} : client'[x] = client[x]
        /\ UNCHANGED <<usage, uncounted>>
        /\ bodies' = [bodies EXCEPT ![u] = IF body THEN @ + 1 ELSE @]
        /\ client'[c] = IF body THEN [client[c] EXCEPT !.pc = "count"] ELSE IdleClient
    BY <1>2, <1>9, Zenon DEF Serve, UsageTypeOK
  <2>2. bodies' \in [SubTokens -> Nat]
    BY <2>1 DEF BytesInv
  <2>3. RowOfCharge'
    <3>1. \A t \in SubTokens, d \in Days : usage[t][d].requests \in Nat
      BY Zenon DEF UsageTypeOK
    <3>2. client[c].day \in Days /\ usage[u][client[c].day].requests > 0
      BY <2>1, Zenon DEF BytesInv, RowOfCharge
    <3>3. client'[c].pc \in {"serve", "count"} => client'[c].day = client[c].day /\ client'[c].token = u
      BY <1>3, <2>1, Zenon DEF Request
    <3>4. client'[c].pc \in {"serve", "count"} =>
             client'[c].day \in Days /\ usage'[client'[c].token][client'[c].day].requests > 0
      BY <2>1, <3>2, <3>3, Zenon
    <3>5. \A t \in SubTokens, d \in Days : usage'[t][d].requests >= usage[t][d].requests
                                            /\ usage'[t][d].requests \in Nat
      BY <2>1, <3>1
    <3>6. \A x \in Clients \ {c} : client'[x] = client[x]
      BY <2>1, Zenon
    <3> QED
      BY <3>4, <3>5, <3>6, ChargedStays, Zenon
  <2>4. \A t \in SubTokens : Recorded(t)' = Recorded(t)
    BY <2>1, Zenon DEF Recorded
  <2>5. CASE ~body
    <3>1. \A t : Writing(t)' = Writing(t)
      BY <1>3, <2>1, <2>5, WritingStays, Zenon
    <3>2. bodies' = bodies
      BY <2>1, <2>5, Zenon DEF BytesInv
    <3> QED
      BY <2>1, <2>2, <2>3, <2>4, <3>1, <3>2, Zenon DEF BytesInv, BodiesCounted
  <2>6. CASE body
    <3>1. client'[c].pc = "count" /\ client'[c].token = u /\ client'[c] # IdleClient
      BY <1>3, <2>1, <2>6, Zenon DEF Request
    <3>2. c \notin Writing(u) /\ Writing(u)' = Writing(u) \cup {c}
      BY <2>1, <3>1, Zenon DEF Writing, Busy
    <3>3. \A t \in SubTokens \ {u} : Writing(t)' = Writing(t)
      BY <2>1, <3>1, Zenon DEF Writing, Busy
    <3>4. \A t \in SubTokens : bodies'[t] = IF t = u THEN bodies[t] + 1 ELSE bodies[t]
      BY <2>1, <2>6, Zenon DEF BytesInv
    <3>5. \A t \in SubTokens : /\ Cardinality(Recorded(t)) \in Nat /\ Cardinality(Writing(t)) \in Nat
                               /\ Cardinality(Writing(t)') = IF t = u THEN Cardinality(Writing(t)) + 1
                                                              ELSE Cardinality(Writing(t))
      <4>1. \A t : Writing(t) \in SUBSET Clients
        BY Zenon DEF Writing
      <4> QED
        BY <3>2, <3>3, <4>1, OpenCount, FS_CardinalityType, Zenon DEF BytesInv, BodiesCounted
    <3>6. BodiesCounted'
      <4> SUFFICES ASSUME NEW t \in SubTokens
                   PROVE  /\ IsFiniteSet(Recorded(t)')
                          /\ Cardinality(Recorded(t)') + Cardinality(Writing(t)') <= bodies'[t]
                          /\ t \notin uncounted' =>
                                Cardinality(Recorded(t)') + Cardinality(Writing(t)') = bodies'[t]
        BY Zenon DEF BodiesCounted
      <4>1. /\ Cardinality(Recorded(t)') = Cardinality(Recorded(t)) /\ uncounted' = uncounted
            /\ IsFiniteSet(Recorded(t)') /\ bodies[t] \in Nat
            /\ Cardinality(Recorded(t)) + Cardinality(Writing(t)) <= bodies[t]
            /\ t \notin uncounted => Cardinality(Recorded(t)) + Cardinality(Writing(t)) = bodies[t]
        BY <2>1, <2>4, Zenon DEF BytesInv, BodiesCounted
      <4>2. CASE t = u
        BY <3>4, <3>5, <4>1, <4>2
      <4>3. CASE t # u
        BY <3>4, <3>5, <4>1, <4>3, Zenon
      <4> QED
        BY <4>2, <4>3, Zenon
    <3> QED
      BY <2>2, <2>3, <3>6, Zenon DEF BytesInv
  <2> QED
    BY <2>5, <2>6, Zenon
<1>10. ASSUME NEW c \in Clients, NEW ok \in BOOLEAN, AddTokenBytes(c, ok) PROVE BytesInv'
  <2>1. PICK u \in SubTokens :
        /\ u = client[c].token /\ client[c].pc = "count" /\ client[c] \in Request /\ Busy(c)
        /\ \A x \in Clients \ {c} : client'[x] = client[x]
        /\ UNCHANGED <<day, bodies>> /\ client'[c] = IdleClient
        /\ uncounted' = IF ok /\ client[c].day = day THEN uncounted ELSE uncounted \cup {u}
        /\ usage' = [usage EXCEPT ![u] = [d \in Days |->
              IF ok /\ Counted(u, d) THEN [usage[u][d] EXCEPT !.bytes = @ + 1] ELSE usage[u][d]]]
    BY <1>2, <1>10, Zenon DEF AddTokenBytes, UsageTypeOK
  <2>2. \A t \in SubTokens : /\ IsFiniteSet(Recorded(t)) /\ Cardinality(Recorded(t)) \in Nat
                             /\ bodies[t] \in Nat
    BY FS_CardinalityType, Zenon DEF BytesInv, BodiesCounted
  <2>3. /\ \A t \in SubTokens \ {u} : Recorded(t)' = Recorded(t)
        /\ \A t \in SubTokens, d \in Days : usage'[t][d].requests = usage[t][d].requests
        /\ IsFiniteSet(Recorded(u)')
        /\ Cardinality(Recorded(u)') = IF ok /\ usage[u][day].requests > 0 THEN Cardinality(Recorded(u)) + 1
                                       ELSE Cardinality(Recorded(u))
    BY <2>1, <2>2, CountAdds, ZenonT(30)
  <2>4. client[c].day = day => usage[u][day].requests > 0
    BY <2>1, Zenon DEF BytesInv, RowOfCharge
  <2>5. RowOfCharge'
    <3>1. \A t \in SubTokens, d \in Days : usage[t][d].requests \in Nat
      BY Zenon DEF UsageTypeOK
    <3>2. \A t \in SubTokens, d \in Days : usage'[t][d].requests >= usage[t][d].requests
                                            /\ usage'[t][d].requests \in Nat
      BY <2>3, <3>1
    <3>3. client'[c].pc \notin {"serve", "count"} /\ \A x \in Clients \ {c} : client'[x] = client[x]
      BY <1>3, <2>1, Zenon
    <3> QED
      BY <3>2, <3>3, ChargedStays, Zenon
  <2>6. /\ c \in Writing(u) /\ Writing(u)' = Writing(u) \ {c}
        /\ \A t \in SubTokens \ {u} : Writing(t)' = Writing(t)
    BY <1>3, <2>1, Zenon DEF Writing, Busy
  <2>7. \A t \in SubTokens : /\ Cardinality(Writing(t)) \in Nat
                             /\ Cardinality(Writing(t)') = IF t = u THEN Cardinality(Writing(t)) - 1
                                                            ELSE Cardinality(Writing(t))
    <3>1. \A t : Writing(t) \in SUBSET Clients
      BY Zenon DEF Writing
    <3> QED
      BY <2>6, <3>1, OpenCount, Zenon
  <2>8. BodiesCounted'
    <3> SUFFICES ASSUME NEW t \in SubTokens
                 PROVE  /\ IsFiniteSet(Recorded(t)')
                        /\ Cardinality(Recorded(t)') + Cardinality(Writing(t)') <= bodies'[t]
                        /\ t \notin uncounted' =>
                              Cardinality(Recorded(t)') + Cardinality(Writing(t)') = bodies'[t]
      BY Zenon DEF BodiesCounted
    <3>1. /\ IsFiniteSet(Recorded(t)) /\ bodies[t] \in Nat /\ bodies' = bodies
          /\ Cardinality(Recorded(t)) + Cardinality(Writing(t)) <= bodies[t]
          /\ t \notin uncounted => Cardinality(Recorded(t)) + Cardinality(Writing(t)) = bodies[t]
          /\ t \notin uncounted' => t \notin uncounted /\ (t = u => ok /\ client[c].day = day)
      BY <2>1, Zenon DEF BytesInv, BodiesCounted
    <3>2. CASE t = u
      BY <2>2, <2>3, <2>4, <2>7, <3>1, <3>2
    <3>3. CASE t # u
      BY <2>2, <2>3, <2>7, <3>1, <3>3, Zenon
    <3> QED
      BY <3>2, <3>3, Zenon
  <2> QED
    BY <2>1, <2>5, <2>8, Zenon DEF BytesInv
<1> QED
  BY <1>1, <1>5, <1>6, <1>7, <1>8, <1>9, <1>10, Zenon
     DEF UsageNext, usageVars, Midnight, CreateToken, DeleteToken, SetTokenEnabled

\* The bytes recorded for a token are those of the bodies written to it, for any
\* tokens, clients and days: no order of validating, charging, serving, counting and
\* midnight loses or repeats a count, except for the counts that fail or that fall
\* on another day.
THEOREM BytesAreKept == UsageSpec => []BytesKept
<1>1. UsageInit => UInv /\ BytesInv
  BY UsageInitInv, BytesInitInv, Zenon
<1>2. UInv /\ BytesInv /\ [UsageNext]_usageVars => UInv' /\ BytesInv'
  <2>1. UInv /\ [UsageNext]_usageVars => UInv'
    BY UsageNextInv, Zenon
  <2>2. (UInv => UsageTypeOK) /\ (UInv' => UsageTypeOK')
    BY Zenon DEF UInv
  <2> QED
    BY <2>1, <2>2, BytesNextInv, Zenon
<1>3. BytesInv => BytesKept
  <2> SUFFICES ASSUME BytesInv, NEW t \in SubTokens
               PROVE  /\ Cardinality(Recorded(t)) <= bodies[t]
                      /\ t \notin uncounted => Cardinality(Recorded(t)) + Cardinality(Writing(t)) = bodies[t]
    BY Zenon DEF BytesKept, Writing
  <2>1. Writing(t) \in SUBSET Clients
    BY Zenon DEF Writing
  <2>2. Cardinality(Writing(t)) \in Nat /\ Cardinality(Recorded(t)) \in Nat /\ bodies[t] \in Nat
    BY <2>1, OpenCount, FS_CardinalityType, Zenon DEF BytesInv, BodiesCounted
  <2> QED
    BY <2>2 DEF BytesInv, BodiesCounted
<1> QED
  BY <1>1, <1>2, <1>3, PTL DEF UsageSpec
=============================================================================
