------------------------------ MODULE MCAccess ------------------------------
(***************************************************************************)
(* The four parts of the API's access control share no state: a behaviour  *)
(* moves the one that part names, the others rest in an initial state.     *)
(***************************************************************************)
EXTENDS Paging, RateLimiter, TokenUsage, Sessions, TLC

VARIABLE part

MCTables == {"jobs", "tokens", "tasks", "audit", "users", "alerts", "active", "nodes", "sources", "memory_jobs"}

\* c calls directly and through one or two proxies, whatever came before c in
\* the header; d calls directly, and through a proxy that sets another header.
MCCalls == {[by |-> "c", remote |-> "c", xff |-> <<"d">>, real |-> <<>>],
            [by |-> "c", remote |-> "p", xff |-> <<"d", "junk", "c">>, real |-> <<"d">>],
            [by |-> "c", remote |-> "q", xff |-> <<"d", "p", "c", "p">>, real |-> <<>>],
            [by |-> "d", remote |-> "d", xff |-> <<>>, real |-> <<>>],
            [by |-> "d", remote |-> "p", xff |-> <<>>, real |-> <<"junk", "d">>]}

MCDailyQuota == "t" :> 2
MCExpiresAfter == "t" :> 2
MCTenantOf == "root" :> "default" @@ "ann" :> "default" @@ "bob" :> "other"

Init ==
    /\ part \in {"paging", "limiter", "usage", "sessions"}
    /\ LimiterInit
    /\ UsageInit
    /\ SessionsInit /\ (part # "sessions" => accounts["root"].enabled)
    /\ IF part = "paging" THEN PagingInit
       ELSE /\ table = "jobs" /\ rows = [i \in RowIds |-> Absent]
            /\ clock = 0 /\ changes = 0 /\ walk = NoWalk

Next ==
    /\ UNCHANGED part
    /\ \/ part = "paging" /\ PagingNext /\ UNCHANGED <<limiterVars, usageVars, sessionVars>>
       \/ part = "limiter" /\ LimiterNext /\ UNCHANGED <<pagingVars, usageVars, sessionVars>>
       \/ part = "usage" /\ UsageNext /\ UNCHANGED <<pagingVars, limiterVars, sessionVars>>
       \/ part = "sessions" /\ SessionsNext /\ UNCHANGED <<pagingVars, limiterVars, usageVars>>

Spec == Init /\ [][Next]_<<part, pagingVars, limiterVars, usageVars, sessionVars>>
=============================================================================
