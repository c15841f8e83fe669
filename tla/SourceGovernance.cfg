CONSTANTS
    Api = api
    Sources = {s1}
    Procs = {api}
    Fetchers = {f1}
    Home <- AllInApi
    Requests = {r1, r2}
    DisableAfter = 2
    Cooldown = 2
SPECIFICATION Spec
INVARIANTS
    RowIsMap
PROPERTIES
    CooldownEarned
