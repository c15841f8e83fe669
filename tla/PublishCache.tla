---------------------------- MODULE PublishCache ----------------------------
(***************************************************************************)
(* The published subscription: RefreshPublishCache renders the selected    *)
(* nodes into a blob and hands it to the requests (an atomic pointer), to  *)
(* four files and to Redis.  Refreshes of a process are serialised by      *)
(* pubMu, refreshes of several processes only by a lock in Redis that      *)
(* expires.  Requests of the administrator change the runtime              *)
(* configuration meanwhile (UpdateRuntimeConfig), which decides what is    *)
(* selected.                                                               *)
(*                                                                         *)
(* Blobs are numbered in the order in which they are rendered.  A blob in  *)
(* memory and the files of a process are functions from Parts to these     *)
(* numbers, because a restart may load files of different refreshes; 0 is  *)
(* a file that does not exist.  A configuration is the value of the        *)
(* settings that decide what is selected; the policy is its fingerprint.   *)
(* What nodes are selected is left open.                                   *)
(***************************************************************************)
EXTENDS Naturals, Sequences, Functions

CONSTANTS Procs, Api,     \* the processes; the one that serves requests
          Requests,       \* concurrent PUTs of the runtime configuration
          Values,         \* valid values of the settings that decide what is published
          Invalid,        \* values that ApplyRuntimePatch rejects
          Initial,        \* the value in the configuration file
          Bodies,         \* sequence of the rendered bodies: "raw" first, "base64", "clash"
          MaxBlobs,       \* bound: refreshes that render
          Crashing        \* bound: the processes that may die

ASSUME PublishAssumption ==
    /\ Api \in Procs /\ "free" \notin Procs /\ Crashing \subseteq Procs
    /\ Initial \in Values /\ {Invalid, "none"} \cap Values = {}
    /\ Bodies \in Seq(STRING) /\ "raw" \in Range(Bodies) /\ "meta" \notin Range(Bodies)
    /\ MaxBlobs \in Nat

VARIABLES cfg,      \* cfg[p]: Service.runtimeCfg
          version,  \* the newest row of config_versions
          blobs,    \* history: what was rendered, in order
          mem,      \* mem[p]: Cache.ptr
          disk,     \* sub.txt, sub.base64, clash.yaml, sub.meta.json, on the volume all processes share
          hot,      \* the blob in Redis, 0 for none (one that expired answers like an error)
          lock,     \* holder of the lock in Redis, or "free"
          rf,       \* rf[p]: the refresh that has pubMu
          upd,      \* upd[r]: where UpdateRuntimeConfig is
          own,      \* history: own[p]: this run of p rendered the blob in mem[p]
          raced,    \* history: updates overlapped or fell into one second
          exposed   \* history: a refresh went without the lock, or outlived it

confVars == <<cfg, version, raced>>
outVars == <<mem, own, disk, hot>>
vars == <<confVars, outVars, blobs, lock, rf, upd, exposed>>

Parts == Append(Bodies, "meta")
Names == Range(Parts)
Nowhere == [n \in Names |-> 0]
Whole(b) == [n \in Names |-> b]

Idle == [pc |-> "idle", policy |-> Initial, mine |-> FALSE, blob |-> 0, next |-> 0]
NoUpdate == [pc |-> "idle", cfg |-> Initial]
Refreshing(p) == rf[p].pc # "idle"

TypeOK ==
    /\ cfg \in [Procs -> Values] /\ version \in Values \cup {"none"}
    /\ blobs \in Seq([policy : Values, selected : Values]) /\ Len(blobs) <= MaxBlobs
    /\ mem \in [Procs -> [Names -> 0..Len(blobs)]] /\ disk \in [Names -> 0..Len(blobs)]
    /\ hot \in 0..Len(blobs) /\ lock \in Procs \cup {"free"}
    /\ rf \in [Procs -> [pc : {"idle", "acquire", "select", "persist", "redis", "release"},
                         policy : Values, mine : BOOLEAN, blob : 0..Len(blobs), next : 0..Len(Parts)]]
    /\ upd \in [Requests -> [pc : {"idle", "save", "store", "refresh", "wait"}, cfg : Values]]
    /\ own \in [Procs -> BOOLEAN] /\ raced \in BOOLEAN /\ exposed \in BOOLEAN

Init ==
    /\ cfg = [p \in Procs |-> Initial]
    /\ version = "none" /\ blobs = <<>>
    /\ mem = [p \in Procs |-> Nowhere] /\ disk = Nowhere /\ hot = 0 /\ lock = "free"
    /\ rf = [p \in Procs |-> Idle]
    /\ upd = [r \in Requests |-> NoUpdate]
    /\ own = [p \in Procs |-> FALSE] /\ raced = FALSE /\ exposed = FALSE

-----------------------------------------------------------------------------
(* Policy and freshness.                                                   *)

\* The hash over the settings that decide what is selected.
publishPolicy(c) == c

LabelOf(m) == IF m["meta"] = 0 THEN "" ELSE blobs[m["meta"]].policy

MatchesPolicy(m, policy) == m # Nowhere /\ LabelOf(m) = policy

-----------------------------------------------------------------------------
(* RefreshPublishCache: with pubMu held, in steps.                         *)

Step(p, pc) == rf' = [rf EXCEPT ![p].pc = pc]

\* Any caller: the end of a job, a round of dialing, the API, Flush, the start
\* of the process, or an update of the configuration.
Begin(p) ==
    /\ ~Refreshing(p) /\ Len(blobs) < MaxBlobs
    /\ rf' = [rf EXCEPT ![p] = [Idle EXCEPT !.pc = "acquire", !.policy = publishPolicy(cfg[p])]]
    /\ UNCHANGED <<confVars, outVars, blobs, lock, exposed>>

RefreshPublishCache(p) == Begin(p) /\ UNCHANGED upd

\* SETNX with an expiry.
Acquire(p) ==
    /\ rf[p].pc = "acquire" /\ lock = "free"
    /\ lock' = p
    /\ rf' = [rf EXCEPT ![p].pc = "select", ![p].mine = TRUE]
    /\ UNCHANGED <<confVars, outVars, blobs, upd, exposed>>

\* Waiters of UpdateRuntimeConfig go on when their refresh is over.
Answered(p) == upd' = [r \in Requests |-> IF p = Api /\ upd[r].pc = "wait"
                                          THEN NoUpdate ELSE upd[r]]

\* Another process has the lock: its last blob is taken over without rendering.
TakeOver(p) ==
    /\ rf[p].pc = "acquire" /\ lock # "free"
    /\ hot # 0 /\ MatchesPolicy(Whole(hot), rf[p].policy)
    /\ mem' = [mem EXCEPT ![p] = Whole(hot)] /\ own' = [own EXCEPT ![p] = FALSE]
    /\ rf' = [rf EXCEPT ![p] = Idle]
    /\ Answered(p)
    /\ UNCHANGED <<confVars, disk, hot, blobs, lock, exposed>>

\* No blob to take over, or Redis answers with an error: go on without the lock.
Unlocked(p) ==
    /\ rf[p].pc = "acquire"
    /\ Step(p, "select")
    /\ exposed' = TRUE
    /\ UNCHANGED <<confVars, outVars, blobs, lock, upd>>

\* SelectPublishNodes reads the configuration once more.
Rendered(p) == [policy |-> rf[p].policy, selected |-> cfg[p]]

\* Cache.Update: rendered, and handed to the requests.
Update(p) ==
    LET b == Len(blobs) + 1 IN
    /\ rf[p].pc = "select" /\ b <= MaxBlobs
    /\ blobs' = Append(blobs, Rendered(p))
    /\ mem' = [mem EXCEPT ![p] = Whole(b)] /\ own' = [own EXCEPT ![p] = TRUE]
    /\ rf' = [rf EXCEPT ![p] = [@ EXCEPT !.pc = "persist", !.policy = Initial, !.blob = b, !.next = 1]]
    /\ UNCHANGED <<confVars, disk, hot, lock, upd, exposed>>

LabelFirst(p) == /\ disk' = [disk EXCEPT ![Parts[Len(Parts) + 1 - rf[p].next]] = rf[p].blob]   \* mutant
                 /\ rf' = [rf EXCEPT ![p].next = IF @ = Len(Parts) THEN 0 ELSE @ + 1,
                                     ![p].pc = IF rf[p].next = Len(Parts) THEN "redis" ELSE @]
\* The next file: a temporary one, renamed.
WriteFile(p) == /\ disk' = [disk EXCEPT ![Parts[rf[p].next]] = rf[p].blob]
                /\ rf' = [rf EXCEPT ![p].next = IF @ = Len(Parts) THEN 0 ELSE @ + 1,
                                    ![p].pc = IF rf[p].next = Len(Parts) THEN "redis" ELSE @]

Persist(p) == /\ rf[p].pc = "persist" /\ WriteFile(p)
              /\ UNCHANGED <<confVars, mem, own, hot, blobs, lock, upd, exposed>>

\* The first error ends persist and is only logged.
PersistError(p) == /\ rf[p].pc = "persist"
                   /\ rf' = [rf EXCEPT ![p].pc = "redis", ![p].next = 0]
                   /\ UNCHANGED <<confVars, outVars, blobs, lock, upd, exposed>>

\* One transaction for blob, nodes and countries; an error is only logged.  The
\* upload that follows writes objects this program never reads again.
SetSnapshot(p) ==
    /\ rf[p].pc = "redis"
    /\ hot' \in {hot, rf[p].blob}
    /\ Step(p, "release")
    /\ UNCHANGED <<confVars, mem, own, disk, blobs, lock, upd, exposed>>

\* The script deletes the key only while it holds the token of this refresh.
ReleaseLock(p) == lock' = IF rf[p].mine /\ lock = p THEN "free" ELSE lock

\* Deferred: the lock in Redis, then pubMu.
Release(p) ==
    /\ rf[p].pc = "release"
    /\ ReleaseLock(p)
    /\ rf' = [rf EXCEPT ![p] = Idle]
    /\ Answered(p)
    /\ UNCHANGED <<confVars, outVars, blobs, exposed>>

\* A refresh may last longer than the lock.
LockExpires == /\ lock # "free" /\ lock' = "free"
               /\ exposed' = (exposed \/ \E p \in Procs : rf[p].mine)
               /\ UNCHANGED <<confVars, outVars, blobs, rf, upd>>

-----------------------------------------------------------------------------
(* UpdateRuntimeConfig.                                                    *)

\* A patch is the value it leads to; ApplyRuntimePatch rejects what is out of
\* range before anything is saved.
ApplyRuntimePatch(patch) == patch \in Values

UpdatesUnderWay == {r \in Requests : upd[r].pc \in {"save", "store"}}

UpdateRuntimeConfig(r, patch) ==
    /\ upd[r].pc = "idle" /\ ApplyRuntimePatch(patch) /\ Len(blobs) < MaxBlobs
    /\ upd' = [upd EXCEPT ![r] = [pc |-> "save", cfg |-> patch]]
    /\ raced' = (raced \/ UpdatesUnderWay # {})
    /\ UNCHANGED <<cfg, version, outVars, blobs, lock, rf, exposed>>

\* The whole effective configuration is saved.  Rows of one second are ordered by
\* their random id, so that the newest may stay the newest.
SaveConfigVersion(r) ==
    /\ upd[r].pc = "save"
    /\ \/ version' = upd[r].cfg /\ UNCHANGED raced
       \/ version # "none" /\ version' = version /\ raced' = TRUE
    /\ upd' = [upd EXCEPT ![r].pc = "store"]
    /\ UNCHANGED <<cfg, outVars, blobs, lock, rf, exposed>>

AppliedUnsaved(r) == cfg' = [cfg EXCEPT ![Api] = upd[r].cfg]   \* mutant
\* The error is returned; nothing was applied.
NotApplied(r) == UNCHANGED cfg

SaveError(r) ==
    /\ upd[r].pc = "save"
    /\ NotApplied(r)
    /\ upd' = [upd EXCEPT ![r] = NoUpdate]
    /\ UNCHANGED <<version, raced, outVars, blobs, lock, rf, exposed>>

RefreshedFirst(r) == upd' = [upd EXCEPT ![r] = NoUpdate]   \* mutant
RefreshNext(r) == upd' = [upd EXCEPT ![r] = [NoUpdate EXCEPT !.pc = "refresh"]]

StoreConfig(r) ==
    /\ upd[r].pc = "store"
    /\ cfg' = [cfg EXCEPT ![Api] = upd[r].cfg]
    /\ RefreshNext(r)
    /\ UNCHANGED <<version, raced, outVars, blobs, lock, rf, exposed>>

\* The request gets pubMu for its own refresh.
RefreshAfterUpdate(r) ==
    /\ upd[r].pc = "refresh"
    /\ Begin(Api)
    /\ upd' = [upd EXCEPT ![r].pc = "wait"]

-----------------------------------------------------------------------------
(* The surroundings.                                                       *)

\* A row that was never written leaves the configuration of the file.
Persisted == IF version = "none" THEN Initial ELSE version

\* loadFromDisk: none of the three bodies means no blob.
Loaded == IF \A n \in Names \ {"meta"} : disk[n] = 0 THEN Nowhere ELSE disk

\* NewCache and Clear: files of another policy are not served.
FromDisk(policy) == IF MatchesPolicy(Loaded, policy) THEN Loaded ELSE Nowhere

\* NewWithOptions after a crash: the latest version, the files, and instead of
\* them the blob of Redis if it answers and matches.
Restart(p) ==
    LET policy == publishPolicy(Persisted) IN
    /\ p \in Crashing
    /\ cfg' = [cfg EXCEPT ![p] = Persisted]
    /\ \E m \in {FromDisk(policy)} \cup {w \in {Whole(hot)} : MatchesPolicy(w, policy)} :
          mem' = [mem EXCEPT ![p] = m]
    /\ own' = [own EXCEPT ![p] = FALSE]
    /\ rf' = [rf EXCEPT ![p] = Idle]
    /\ upd' = [r \in Requests |-> IF p = Api THEN NoUpdate ELSE upd[r]]
    /\ UNCHANGED <<version, raced, disk, hot, blobs, lock, exposed>>

Next == \/ \E p \in Procs : \/ RefreshPublishCache(p) \/ Acquire(p) \/ TakeOver(p) \/ Unlocked(p)
                            \/ Update(p) \/ Persist(p) \/ PersistError(p) \/ SetSnapshot(p)
                            \/ Release(p) \/ Restart(p)
        \/ \E r \in Requests : \/ \E patch \in Values \cup {Invalid} : UpdateRuntimeConfig(r, patch)
                               \/ SaveConfigVersion(r) \/ SaveError(r) \/ StoreConfig(r)
                               \/ RefreshAfterUpdate(r)
        \/ LockExpires

Spec == Init /\ [][Next]_vars

-----------------------------------------------------------------------------
(* Properties.                                                             *)

\* No refresh is running in p and no update is waiting for one.
Quiet(p) == ~Refreshing(p) /\ (p = Api => \A r \in Requests : upd[r].pc # "refresh")

\* At rest a process serves a blob labelled with its current policy, and one
\* that it rendered itself was selected under its current configuration: an
\* update is stored before its refresh, and the refresh that was running at
\* that moment, with the old policy and perhaps the new selection, is followed
\* by another one.
ServesPolicy == \A p \in Procs : Quiet(p) /\ mem[p] # Nowhere =>
                    /\ LabelOf(mem[p]) = publishPolicy(cfg[p])
                    /\ own[p] => blobs[mem[p]["raw"]].selected = cfg[p]

\* persist writes the label last: unless a refresh did without the lock or
\* outlived it, the policy in sub.meta.json is never newer than the bodies beside
\* it, wherever a process died or a write failed.
LabelNeverAhead == ~exposed => \A n \in Names : disk["meta"] <= disk[n]

\* The running configuration of the API process is the latest saved version, so
\* a restart changes nothing, unless updates overlapped or were saved within the
\* same second.
VersionIsRunning == UpdatesUnderWay = {} /\ ~raced => cfg[Api] = Persisted
=============================================================================
