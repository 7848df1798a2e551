CONSTANTS
    Procs = {p1, p2}
    Clients = {a, b}
    Instances = {i1, i2}
    Limit = 1
    Window = 2
    Rate = 1
    Burst = 2
    Token = 2
    Second = 2
    Idle = 3
    MaxEntries = 1
    MaxTime = 4
    MaxRequests = 4
    MaxOutages = 1
SPECIFICATION Spec
SYMMETRY Symmetry
INVARIANTS TypeOK QuotaKept MemoryRefusalsEarned SilenceHelps
