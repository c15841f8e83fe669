CONSTANTS
    RowIds = {1, 2, 3, 4}
    Tables <- MCTables
    PageCap = 2
    MaxClock = 1
    MaxChanges = 2
    Visitors = {"c", "d", "p", "q"}
    TrustedProxies = {"p", "q"}
    Junk = "junk"
    Calls <- MCCalls
    Unit = 3
    Rate = 2
    Burst = 2
    IdleAfter = 3
    MaxSecond = 6
    SubTokens = {"t"}
    Clients = {c1, c2}
    DailyQuota <- MCDailyQuota
    ExpiresAfter <- MCExpiresAfter
    LastDay = 3
    MaxRequests = 3
    Accounts = {"root", "ann", "bob"}
    TenantOf <- MCTenantOf
    BootstrapUsers = {"root", "bob"}
    SessionTTL = 2
    MaxSessions = 3
    MaxHour = 4
    AdminHost = "admin"
    AdminNets = {"inside"}
SPECIFICATION Spec
INVARIANTS
    WalkExact
    
    QuotaKept
    BytesKept
    OneAdminLeft
CHECK_DEADLOCK FALSE
