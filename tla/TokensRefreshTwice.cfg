CONSTANTS
    Procs = {p1, p2}
    AccessTTL = 1
    RefreshTTL = 2
    LogoutTTL = 2
    RedisStartsUp = TRUE
    MaxTime = 0
    MaxLogins = 1
    MaxRequests = 2
    MaxOutages = 0
    MaxLosses = 0
    MaxAborts = 0
SPECIFICATION Spec
SYMMETRY Symmetry
INVARIANTS BuysOnceWhileValid
