CONSTANTS
    Procs = {p1, p2}
    Passwords = {"wrong"}
    ShortThreshold = 1
    LongThreshold = 2
    ShortDuration = 1
    LongDuration = 3
    Window = 3
    Day = 3
    HasReplica = FALSE
    RedisStarts = {TRUE, FALSE}
    MaxTime = 2
    MaxAttempts = 3
    MaxFlips = 1
    MaxDBErrs = 0
    MaxAborts = 1
SPECIFICATION Spec
SYMMETRY Symmetry
INVARIANTS ThresholdEnforced LockEnforced LockKeyBacked
