------------------------------ MODULE Sessions ------------------------------
(***************************************************************************)
(* The accounts of the tenants and the signed sessions their owners act    *)
(* with.  A session carries the rights of the login it comes from and is   *)
(* not looked up again: it ends when it expires.  Requests that administer *)
(* accounts pass managementBoundary, requireRole and the handler.  The     *)
(* process starts anew at any time and then makes sure of the bootstrap    *)
(* account.  A user name is its tenant's, so an account is its name.       *)
(***************************************************************************)
EXTENDS Integers, FiniteSets

CONSTANTS
    Accounts,       \* names of accounts
    TenantOf,       \* Accounts -> tenant
    BootstrapUsers, \* the accounts the configuration may name, one at each start
    SessionTTL,     \* the life of a session
    MaxSessions,    \* bound: sessions issued
    MaxHour,        \* bound: the clock
    AdminHost,      \* the host of the management API, "" for any
    AdminNets       \* the networks it is open to, {} for any

ASSUME SessionsAssumption ==
    BootstrapUsers \subseteq Accounts /\ {SessionTTL, MaxSessions, MaxHour} \subseteq Nat

VARIABLES
    accounts,       \* Accounts -> the row, or NoAccount
    sessions,       \* the sessions issued
    hour,           \* the clock
    stale           \* has a session of a disabled account changed accounts

sessionVars == <<accounts, sessions, hour, stale>>

Roles == {"viewer", "operator", "admin"}
Level == [viewer |-> 1, operator |-> 2, admin |-> 3]
Allows(role, required) == Level[role] >= Level[required]

NoAccount == [role |-> "none", enabled |-> FALSE]
Origins == [host : {"admin", "public"}, net : {"inside", "outside"}]

\* EnsureBootstrapUser: creates the account or enables it, and keeps its role.
Bootstrapped(rows, b) ==
    [rows EXCEPT ![b] =
        IF @ = NoAccount THEN [role |-> "admin", enabled |-> TRUE] ELSE [@ EXCEPT !.enabled = TRUE]]

SessionsInit ==
    /\ \E b \in BootstrapUsers : accounts = Bootstrapped([a \in Accounts |-> NoAccount], b)
    /\ sessions = {}
    /\ hour = 0
    /\ stale = FALSE

-----------------------------------------------------------------------------
(* Logins and requests.                                                    *)

MayLogin(a) == accounts[a] # NoAccount /\ accounts[a].enabled

\* LoginLocal and IssueSession.
Login(a) ==
    /\ MayLogin(a)
    /\ Cardinality(sessions) < MaxSessions
    /\ sessions' = sessions \cup {[account |-> a, role |-> accounts[a].role, expires |-> hour + SessionTTL]}
    /\ UNCHANGED <<accounts, hour, stale>>

\* ValidateSession.
ValidSession(s) == s.expires > hour

\* managementBoundary, for a path of the management API.
managementBoundary(from) ==
    /\ AdminHost \in {"", from.host}
    /\ AdminNets = {} \/ from.net \in AdminNets

\* A request of an administrator's session.
Administers(s, from) == managementBoundary(from) /\ ValidSession(s) /\ Allows(s.role, "admin")

Changed(s, rows) ==
    /\ rows # accounts
    /\ accounts' = rows
    /\ stale' = (stale \/ ~accounts[s.account].enabled)
    /\ UNCHANGED <<sessions, hour>>

\* The tenant of a new account is the session's.
CreatesIn(s, a) == TenantOf[a] = TenantOf[s.account]

\* A name that is taken is a conflict.
handleAdminCreateUser(s, from, a, role) ==
    /\ Administers(s, from)
    /\ CreatesIn(s, a)
    /\ accounts[a] = NoAccount
    /\ Changed(s, [accounts EXCEPT ![a] = [role |-> role, enabled |-> TRUE]])

MayDisableSelf(s, a, enabled) == TRUE   \* mutant
\* "cannot disable the active account"
MaySetEnabled(s, a, enabled) == a = s.account => enabled

\* The WHERE of SetUserEnabled.
InTenant(s, a) == accounts[a] # NoAccount /\ TenantOf[a] = TenantOf[s.account]

setUserEnabled(s, from, a, enabled) ==
    /\ Administers(s, from)
    /\ MaySetEnabled(s, a, enabled)
    /\ InTenant(s, a)
    /\ Changed(s, [accounts EXCEPT ![a].enabled = enabled])

\* NewManager, at the start of a process.
RestartServer ==
    /\ \E b \in BootstrapUsers : accounts' = Bootstrapped(accounts, b)
    /\ accounts' # accounts
    /\ UNCHANGED <<sessions, hour, stale>>

HourPasses ==
    /\ hour < MaxHour
    /\ hour' = hour + 1
    /\ UNCHANGED <<accounts, sessions, stale>>

SessionsNext ==
    \/ RestartServer
    \/ HourPasses
    \/ \E a \in Accounts : Login(a)
    \/ \E s \in sessions, from \in Origins, a \in Accounts :
          \/ \E role \in Roles : handleAdminCreateUser(s, from, a, role)
          \/ \E enabled \in BOOLEAN : setUserEnabled(s, from, a, enabled)

-----------------------------------------------------------------------------
(* Properties.                                                             *)

\* Unless a session of a disabled account acts, the administrators of a tenant
\* cannot lock each other out: one of them stays enabled (setUserEnabled).
OneAdminLeft ==
    ~stale => \A a \in Accounts : accounts[a].role = "admin" =>
                  \E b \in Accounts : TenantOf[b] = TenantOf[a] /\ accounts[b] = [role |-> "admin", enabled |-> TRUE]
=============================================================================
