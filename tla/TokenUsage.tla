----------------------------- MODULE TokenUsage -----------------------------
(***************************************************************************)
(* Subscription tokens: concurrent requests present a token, are charged   *)
(* to its daily quota, get a body and have its size added to the usage,    *)
(* while the token is disabled, deleted or expires and midnight passes.    *)
(* Each of the calls is one statement of the database.  A body has size 1. *)
(***************************************************************************)
EXTENDS Integers, FiniteSets

CONSTANTS
    SubTokens,      \* identifiers of tokens, random and never used again
    Clients,        \* concurrent requests
    DailyQuota,     \* SubTokens -> requests per day, 0 for no limit
    ExpiresAfter,   \* SubTokens -> the last day it is valid, 0 for no expiry
    LastDay,        \* bound: days
    MaxRequests     \* bound: requests begun per token and day

ASSUME UsageAssumption ==
    /\ IsFiniteSet(Clients)
    /\ DailyQuota \in [SubTokens -> Nat] /\ ExpiresAfter \in [SubTokens -> Nat]
    /\ LastDay \in Nat \ {0} /\ MaxRequests \in Nat

VARIABLES
    subTokens,      \* SubTokens -> "none", "on", "off" or "deleted"
    usage,          \* SubTokens -> days -> the row of token_usage
    day,            \* today
    client,         \* Clients -> the state of the request
    served,         \* SubTokens -> days -> requests charged to the day and answered
    bodies,         \* SubTokens -> bodies written
    uncounted       \* tokens a body of which was charged on one day and counted on
                    \* another, or whose count failed

usageVars == <<subTokens, usage, day, client, served, bodies, uncounted>>

Days == 1..LastDay
IdleClient == [pc |-> "idle"]
Busy(c) == client[c] # IdleClient

Expired(t, d) == ExpiresAfter[t] # 0 /\ d > ExpiresAfter[t]
Valid(t) == subTokens[t] = "on" /\ ~Expired(t, day)

UsageInit ==
    /\ subTokens = [t \in SubTokens |-> "none"]
    /\ usage = [t \in SubTokens |-> [d \in Days |-> [requests |-> 0, bytes |-> 0]]]
    /\ day = 1
    /\ client = [c \in Clients |-> IdleClient]
    /\ served = [t \in SubTokens |-> [d \in Days |-> 0]]
    /\ bodies = [t \in SubTokens |-> 0]
    /\ uncounted = {}

-----------------------------------------------------------------------------
(* Administration and time.                                                *)

CreateToken(t) ==
    /\ subTokens[t] = "none"
    /\ ~Expired(t, day)
    /\ subTokens' = [subTokens EXCEPT ![t] = "on"]
    /\ UNCHANGED <<usage, day, client, served, bodies, uncounted>>

SetTokenEnabled(t, status) ==
    /\ subTokens[t] \in {"on", "off"} \ {status}
    /\ subTokens' = [subTokens EXCEPT ![t] = status]
    /\ UNCHANGED <<usage, day, client, served, bodies, uncounted>>

\* The usage of a deleted token stays.
DeleteToken(t) ==
    /\ subTokens[t] \in {"on", "off"}
    /\ subTokens' = [subTokens EXCEPT ![t] = "deleted"]
    /\ UNCHANGED <<usage, day, client, served, bodies, uncounted>>

Midnight ==
    /\ day < LastDay
    /\ day' = day + 1
    /\ UNCHANGED <<subTokens, usage, client, served, bodies, uncounted>>

-----------------------------------------------------------------------------
(* A request.                                                              *)

\* The token is found, enabled and not expired.  Requests that are refused leave no trace.
ValidateSubToken(c, t) ==
    /\ ~Busy(c)
    /\ Valid(t)
    /\ usage[t][day].requests < MaxRequests
    /\ client' = [client EXCEPT ![c] = [pc |-> "charge", token |-> t, day |-> 0]]
    /\ UNCHANGED <<subTokens, usage, day, served, bodies, uncounted>>

\* The limit on the rate, or a country the token does not allow.
RefuseScope(c) ==
    /\ Busy(c) /\ client[c].pc = "charge"
    /\ client' = [client EXCEPT ![c] = IdleClient]
    /\ UNCHANGED <<subTokens, usage, day, served, bodies, uncounted>>

QuotaOffByOne(t) == DailyQuota[t] > 0 => usage[t][day].requests <= DailyQuota[t]   \* mutant
\* The WHERE of the upsert; the first request of a day inserts its row.
WithinQuota(t) == DailyQuota[t] > 0 /\ usage[t][day].requests > 0 => usage[t][day].requests < DailyQuota[t]

ConsumeTokenQuota(c) ==
    LET t == client[c].token
    IN  /\ Busy(c) /\ client[c].pc = "charge"
        /\ \/ /\ WithinQuota(t)
              /\ usage' = [usage EXCEPT ![t][day].requests = @ + 1]
              /\ client' = [client EXCEPT ![c].pc = "serve", ![c].day = day]
           \/ /\ ~WithinQuota(t)
              /\ client' = [client EXCEPT ![c] = IdleClient]
              /\ UNCHANGED usage
        /\ UNCHANGED <<subTokens, day, served, bodies, uncounted>>

\* 503: the answer of the database is lost, after or before the statement ran.
QuotaCheckFails(c) ==
    LET t == client[c].token
    IN  /\ Busy(c) /\ client[c].pc = "charge"
        /\ client' = [client EXCEPT ![c] = IdleClient]
        /\ usage' \in {usage, IF WithinQuota(t) THEN [usage EXCEPT ![t][day].requests = @ + 1] ELSE usage}
        /\ UNCHANGED <<subTokens, day, served, bodies, uncounted>>

\* serveSubFormat writes a body, or only 304; the pages without nodes
\* (handleSubMeta, handleSubIndex) count no bytes either.
Serve(c, body) ==
    LET t == client[c].token
    IN  /\ Busy(c) /\ client[c].pc = "serve"
        /\ client' = [client EXCEPT ![c] = IF body THEN [@ EXCEPT !.pc = "count"] ELSE IdleClient]
        /\ served' = [served EXCEPT ![t][client[c].day] = @ + 1]
        /\ bodies' = [bodies EXCEPT ![t] = IF body THEN @ + 1 ELSE @]
        /\ UNCHANGED <<subTokens, usage, day, uncounted>>

BytesOnAllDays(t, d) == usage[t][d].requests > 0   \* mutant
\* The WHERE of the update: the row of today.
Counted(t, d) == d = day /\ usage[t][d].requests > 0

AddTokenBytes(c, ok) ==
    LET t == client[c].token
    IN  /\ Busy(c) /\ client[c].pc = "count"
        /\ usage' = [usage EXCEPT ![t] = [d \in Days |->
                        IF ok /\ Counted(t, d) THEN [usage[t][d] EXCEPT !.bytes = @ + 1] ELSE usage[t][d]]]
        /\ uncounted' = IF ok /\ client[c].day = day THEN uncounted ELSE uncounted \cup {t}
        /\ client' = [client EXCEPT ![c] = IdleClient]
        /\ UNCHANGED <<subTokens, day, served, bodies>>

UsageNext ==
    \/ Midnight
    \/ \E t \in SubTokens : \/ CreateToken(t)
                            \/ DeleteToken(t)
                            \/ \E status \in {"on", "off"} : SetTokenEnabled(t, status)
                            \/ \E c \in Clients : ValidateSubToken(c, t)
    \/ \E c \in Clients : \/ RefuseScope(c)
                          \/ ConsumeTokenQuota(c)
                          \/ QuotaCheckFails(c)
                          \/ \E b \in BOOLEAN : Serve(c, b) \/ AddTokenBytes(c, b)

-----------------------------------------------------------------------------
(* Properties.                                                             *)

\* The requests answered on the account of a day never exceed the quota of the
\* token, however many requests race for the last one (ConsumeTokenQuota).
QuotaKept ==
    \A t \in SubTokens, d \in Days : DailyQuota[t] > 0 => served[t][d] <= DailyQuota[t]

\* The bytes recorded for a token, each with the day it is recorded on.
Recorded(t) == UNION {{d} \X (1..usage[t][d].bytes) : d \in Days}

\* The recorded bytes of a token are those of the bodies written to it, except
\* for bodies under way, whose count failed or that were counted after midnight
\* (AddTokenBytes updates the row of the day it runs on, if there is one).
BytesKept ==
    \A t \in SubTokens :
        LET recorded == Cardinality(Recorded(t))
            open == Cardinality({c \in Clients : Busy(c) /\ client[c].pc = "count" /\ client[c].token = t})
        IN  /\ recorded <= bodies[t]
            /\ t \notin uncounted => recorded + open = bodies[t]
=============================================================================
