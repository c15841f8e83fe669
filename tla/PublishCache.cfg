CONSTANTS
    Api = api
    Procs = {api, worker}
    Requests = {r1, r2}
    Values = {low, high}
    Invalid = invalid
    Initial = low
    MaxBlobs = 2
    Crashing = {api}
    Bodies <- MCBodies
SPECIFICATION Spec
SYMMETRY RequestSymmetry
INVARIANTS
    ServesPolicy
    LabelNeverAhead
    
