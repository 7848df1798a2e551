CONSTANTS
    Procs = {p1, p2}
    AccessTTL = 1
    RefreshTTL = 2
    LogoutTTL = 2
    RedisStartsUp = TRUE
    MaxTime = 3
    MaxLogins = 1
    MaxRequests = 3
    MaxOutages = 1
    MaxLosses = 1
    MaxAborts = 1
SPECIFICATION Spec
SYMMETRY Symmetry
INVARIANTS TypeOK RevokedRefused KeyOutlivesToken
