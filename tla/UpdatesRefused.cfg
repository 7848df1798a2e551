CONSTANTS
    Procs = {p1, p2}
    Replicas = {r1}
    Admins = {"admin"}
    Nicks = {"new"}
    DefaultSize = 1
    MaxSize = 2
    Sizes = {0}
    MaxRequests = 3
    MaxFaults = 1
SPECIFICATION Spec
SYMMETRY Symmetry
INVARIANTS UpdatesAccepted
