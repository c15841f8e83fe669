CONSTANTS
    Api = api
    Sources = {s1, s2}
    Procs = {api}
    Fetchers = {f1}
    Home <- AllInApi
    Requests = {}
    DisableAfter = 2
    Cooldown = 2
SPECIFICATION Spec
PROPERTIES
    FailedKeepsNodes
