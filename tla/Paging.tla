------------------------------- MODULE Paging -------------------------------
(***************************************************************************)
(* A client walks a list of the API page by page, while rows are created,  *)
(* moved, hidden and deleted.  The lists differ in their order, in what    *)
(* becomes of a cursor whose row changed, and in what can happen to their  *)
(* rows; table is the list of this behaviour:                              *)
(*   jobs, tokens     newest first, the cursor is a row of the tenant      *)
(*   tasks            the same, of the tasks with the asked status whose   *)
(*                    job is still stored                                  *)
(*   audit            by number, the cursor is a number                    *)
(*   users            by name                                              *)
(*   alerts, active   active first, then newest: all, or the active ones   *)
(*   nodes, sources   by a score, a list in memory, as are memory_jobs     *)
(*                                                                         *)
(* The rows are those of one tenant and of another one; the client belongs *)
(* to the first.  Times are seconds, as the columns store them.            *)
(***************************************************************************)
EXTENDS Ordered

CONSTANTS
    RowIds,         \* the identifiers, numbers in their order
    Tables,         \* the lists
    PageCap,        \* the longest page (100)
    MaxClock,       \* bound: the clock
    MaxChanges      \* bound: writes during a behaviour

ASSUME PagingAssumption ==
    /\ RowIds \subseteq Nat \ {0} /\ IsFiniteSet(RowIds)
    /\ PageCap \in Nat \ {0} /\ MaxClock \in Nat
    /\ Tables \subseteq {"jobs", "tokens", "tasks", "audit", "users", "alerts", "active",
                         "nodes", "sources", "memory_jobs"}

VARIABLES
    table,          \* the list that is walked
    rows,           \* RowIds -> the row, Absent or Deleted
    clock,          \* the second
    changes,        \* writes so far (bound)
    walk            \* the client's walk

pagingVars == <<table, rows, clock, changes, walk>>

\* at: created_at, or the score of a node; shown: the asked status, or active;
\* stored: the job of a task is still in its table.
Row == [at : 0..MaxClock, own : BOOLEAN, shown : BOOLEAN, stored : BOOLEAN]
Absent == [at |-> -1]
Deleted == [at |-> -2]

Alerts == {"alerts", "active"}
Scored == {"nodes", "sources"}
InMemory == Scored \cup {"memory_jobs"}

\* got: RowIds -> how many pages had the row; steady: the rows listed since the
\* first page; moved: a row was moved while it was the cursor.
NoWalk == [pc |-> "idle", cursor |-> 0, got |-> [i \in RowIds |-> 0], steady |-> {}, moved |-> FALSE]

-----------------------------------------------------------------------------
(* WHERE and ORDER BY.                                                     *)

Exists(i) == rows[i] \notin {Absent, Deleted}
Own(i) == Exists(i) /\ rows[i].own
Shown(i) == Exists(i) /\ rows[i].shown

\* Tasks belong to the tenant of their job, as long as the job is stored.
OwnTask(i) == Own(i) /\ rows[i].stored

NewestFirst(i, j) == rows[i].at > rows[j].at \/ (rows[i].at = rows[j].at /\ i > j)
NumberDown(i, j) == i > j
NameUp(i, j) == i < j
ActiveFirst(i, j) == \/ rows[i].shown /\ ~rows[j].shown
                     \/ (rows[i].shown <=> rows[j].shown) /\ NewestFirst(i, j)
BestFirst(i, j) == rows[i].at > rows[j].at \/ (rows[i].at = rows[j].at /\ i < j)

\* The rows after the cursor; the row the cursor names is looked up first.
Query(c, found(_), listed(_), before(_, _), limit) ==
    IF c # 0 /\ ~found(c) THEN [ok |-> FALSE, rows |-> {}]
    ELSE [ok |-> TRUE, rows |-> First({i \in RowIds : listed(i) /\ (c = 0 \/ before(c, i))}, before, limit)]

\* A limit out of range is replaced by the default of the query.
LimitStrict(limit) == IF limit <= 0 \/ limit > PageCap THEN 2 ELSE limit   \* mutant
Limit(limit) == IF limit <= 0 \/ limit > PageCap + 1 THEN 2 ELSE limit

-----------------------------------------------------------------------------
(* The lists of the database and of the store.                             *)

ListJobsPageTenant(c, limit) == Query(c, Own, Own, NewestFirst, IF limit <= 0 THEN 2 ELSE limit)

ListTokensPageTenant(c, limit) == Query(c, Own, Own, NewestFirst, Limit(limit))

\* With the asked status; the cursor may have another one by now.
ListTasksPageTenant(c, limit) ==
    Query(c, OwnTask, LAMBDA i : OwnTask(i) /\ rows[i].shown, NewestFirst, Limit(limit))

\* The cursor is a number.
ListAuditPageTenantRange(c, limit) == Query(c, LAMBDA i : TRUE, Own, NumberDown, Limit(limit))

ListUsersPage(c, limit) == Query(c, Own, Own, NameUp, Limit(limit))

ListAlertsPage(activeOnly, c, limit) ==
    LET matching(i) == IF activeOnly THEN Shown(i) ELSE Exists(i)
    IN  Query(c, matching, matching, ActiveFirst, Limit(limit))

\* Store.ListJobsPage, in the order of creation; jobs are never deleted there.
ListJobsPage(c, limit) == Query(c, Exists, Exists, NumberDown, limit)

-----------------------------------------------------------------------------
(* The handlers: a page, and the cursor of the next one.                   *)

\* None asked, and too many asked.
requestedPageLimit(asked) == IF asked <= 0 THEN 1 ELSE IF asked > PageCap THEN PageCap ELSE asked

nextCursor(page, before(_, _), more) == IF more THEN LastOf(page, before) ELSE 0

\* One row more than the page is read, to see whether there is one.
pageWindow(list, before(_, _), limit) ==
    LET page == First(list.rows, before, limit)
        more == Cardinality(list.rows) > limit
    IN  [ok |-> list.ok, rows |-> page, more |-> more, next |-> nextCursor(page, before, more)]

handleJobs(c, limit) == pageWindow(ListJobsPageTenant(c, limit + 1), NewestFirst, limit)
handleMemoryJobs(c, limit) == pageWindow(ListJobsPage(c, limit + 1), NumberDown, limit)
handleAdminListTokens(c, limit) == pageWindow(ListTokensPageTenant(c, limit + 1), NewestFirst, limit)
handleAdminTasks(c, limit) == pageWindow(ListTasksPageTenant(c, limit + 1), NewestFirst, limit)
handleAdminAudit(c, limit) == pageWindow(ListAuditPageTenantRange(c, limit + 1), NumberDown, limit)
handleAdminListUsers(c, limit) == pageWindow(ListUsersPage(c, limit + 1), NameUp, limit)
handleAdminAlerts(c, limit) == pageWindow(ListAlertsPage(table = "active", c, limit + 1), ActiveFirst, limit)

\* The whole list is at hand.
pageSlice(c, limit, list) ==
    LET listed(i) == i \in list
    IN  pageWindow(Query(c, listed, listed, BestFirst, Cardinality(RowIds)), BestFirst, limit)
handleSources(c, limit) == pageSlice(c, limit, {i \in RowIds : Exists(i)})
handleNodes(c, limit) == pageSlice(c, limit, {i \in RowIds : Shown(i)})

Page(c, limit) ==
    CASE table = "jobs" -> handleJobs(c, limit)
      [] table = "memory_jobs" -> handleMemoryJobs(c, limit)
      [] table = "tokens" -> handleAdminListTokens(c, limit)
      [] table = "tasks" -> handleAdminTasks(c, limit)
      [] table = "audit" -> handleAdminAudit(c, limit)
      [] table = "users" -> handleAdminListUsers(c, limit)
      [] table \in Alerts -> handleAdminAlerts(c, limit)
      [] table = "sources" -> handleSources(c, limit)
      [] table = "nodes" -> handleNodes(c, limit)

\* The rows a walk of this table should see.
Listed(i) ==
    /\ Exists(i)
    /\ table \notin InMemory \cup Alerts => rows[i].own
    /\ table \in {"tasks", "active", "nodes"} => rows[i].shown
    /\ table = "tasks" => rows[i].stored

-----------------------------------------------------------------------------
(* The walk.                                                               *)

PagingInit ==
    /\ table \in Tables
    /\ rows \in [RowIds -> {Absent} \cup
                   {r \in Row : /\ r.at = 0 /\ r.stored
                                /\ r.own \/ table \notin InMemory \cup Alerts
                                /\ r.shown \/ table \in {"tasks", "alerts", "active", "nodes"}}]
    /\ table \in {"audit", "memory_jobs"} =>
           \A i, j \in RowIds : i < j /\ rows[j] # Absent => rows[i] # Absent
    /\ clock = 0
    /\ changes = 0
    /\ walk = NoWalk

\* The first page, and the pages its next_cursor leads to.
ReadPage(asked) ==
    LET page == Page(walk.cursor, requestedPageLimit(asked))
    IN  /\ walk.pc \in {"idle", "more"}
        /\ page.ok
        /\ walk' = [walk EXCEPT !.pc = IF page.more THEN "more" ELSE "done",
                                !.got = [i \in RowIds |-> IF i \in page.rows THEN @[i] + 1 ELSE @[i]],
                                !.cursor = page.next,
                                !.steady = IF walk.pc = "idle" THEN {i \in RowIds : Listed(i)} ELSE @]
        /\ UNCHANGED <<table, rows, clock, changes>>

\* 400, invalid cursor.
RefusePage ==
    /\ walk.pc = "more"
    /\ ~Page(walk.cursor, 1).ok
    /\ walk' = [walk EXCEPT !.pc = "refused"]
    /\ UNCHANGED <<table, rows, clock, changes>>

-----------------------------------------------------------------------------
(* The writes.                                                             *)

\* A row changes: it is no longer steady, and a cursor may have moved.
Write(i, row) ==
    /\ changes < MaxChanges
    /\ row # rows[i]
    /\ rows' = [rows EXCEPT ![i] = row]
    /\ changes' = changes + 1
    /\ walk' = [walk EXCEPT !.steady = @ \ {i},
                            !.moved = @ \/ (i = walk.cursor /\ row \notin {Absent, Deleted})]
    /\ UNCHANGED <<table, clock>>

\* Numbers and the order of memory_jobs grow; the other identifiers are random,
\* but those of a node and of an alert are their own again.
CreateRow(i) ==
    /\ rows[i] = Absent
    /\ table # "sources"
    /\ table \in {"audit", "memory_jobs"} => \A j \in RowIds : j > i => rows[j] = Absent
    /\ \E own \in BOOLEAN :
           /\ own \/ table \notin InMemory \cup Alerts
           /\ Write(i, [at |-> clock, own |-> own, shown |-> TRUE, stored |-> TRUE])

\* DeleteTokenTenant, PruneHistory and a replaced set of nodes.
DeleteRow(i) ==
    /\ Exists(i)
    /\ \/ table \in {"jobs", "tokens", "nodes"}
       \/ table \in {"tasks", "alerts"} /\ ~rows[i].shown
       \/ table = "audit" /\ \A j \in RowIds : j < i => ~Exists(j)
    /\ Write(i, IF table \in Alerts \cup {"nodes"} THEN Absent ELSE Deleted)

\* PruneHistory deletes a job by its age, whatever became of its task.
PruneJob(i) ==
    /\ table = "tasks"
    /\ Exists(i)
    /\ Write(i, [rows[i] EXCEPT !.stored = FALSE])

\* RaiseAlert again renews an alert.
RaiseRow(i) ==
    /\ table \in Alerts
    /\ Exists(i)
    /\ Write(i, [rows[i] EXCEPT !.shown = TRUE, !.at = clock])

\* A task changes its status, an alert is resolved, a node leaves the filter.
HideRow(i) ==
    /\ table \in {"tasks", "alerts", "active", "nodes"}
    /\ Exists(i)
    /\ Write(i, [rows[i] EXCEPT !.shown = FALSE])

\* A measurement changes a score.
Rescore(i) ==
    /\ table \in Scored
    /\ Exists(i)
    /\ \E score \in 0..MaxClock : Write(i, [rows[i] EXCEPT !.at = score])

PagingTick ==
    /\ clock < MaxClock
    /\ clock' = clock + 1
    /\ UNCHANGED <<table, rows, changes, walk>>

PagingNext ==
    \/ \E asked \in 0..PageCap + 1 : ReadPage(asked)
    \/ RefusePage
    \/ PagingTick
    \/ \E i \in RowIds : \/ CreateRow(i) \/ DeleteRow(i) \/ PruneJob(i)
                         \/ RaiseRow(i) \/ HideRow(i) \/ Rescore(i)

-----------------------------------------------------------------------------
(* Properties.                                                             *)

\* Following next_cursor to the end delivers every row that was listed all the
\* time exactly once (keyset pagination of ListJobsPageTenant and its kin,
\* pageSlice in memory), whatever is created, deleted or moved in between, as
\* long as no row was moved while it was the cursor.  Where rows keep their place
\* no page repeats a row.
WalkExact ==
    /\ walk.pc = "done" /\ ~walk.moved =>
          \A i \in walk.steady : walk.got[i] = 1
    /\ table \notin Alerts \cup Scored => \A i \in RowIds : walk.got[i] <= 1
=============================================================================
