CONSTANTS
    n1 = n1
    n2 = n2
    s1 = s1
    s2 = s2
    api = api
    Nodes = {n1, n2}
    Sources = {s1, s2}
    Offers <- MCOffers
    Procs = {api}
    Slots = {j1}
    Home <- AllInApi
    Persistent = {api}
    DropAfter = 1
    MaxNodes = 1
    MaxClock = 3
SPECIFICATION Spec
INVARIANTS
    TableIsMap
PROPERTIES
    
    ObservationsKept
