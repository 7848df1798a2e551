CONSTANTS
    Procs = {p1, p2}
    Replicas = {r1, r2}
    Admins = {"admin"}
    Nicks = {"new"}
    DefaultSize = 1
    MaxSize = 2
    Sizes = {0, 2}
    MaxRequests = 4
    MaxFaults = 1
SPECIFICATION Spec
SYMMETRY Symmetry
INVARIANTS TypeOK DeletedStaysOut RefusalsEarned PagesComplete
PROPERTIES KeepsPromise
