CONSTANTS
    Procs = {p1}
    Passwords = {"right", "wrong"}
    ShortThreshold = 1
    LongThreshold = 2
    ShortDuration = 1
    LongDuration = 5
    Window = 3
    Day = 3
    HasReplica = TRUE
    RedisStarts = {TRUE}
    MaxTime = 6
    MaxAttempts = 3
    MaxFlips = 0
    MaxDBErrs = 1
    MaxAborts = 0
SPECIFICATION PromptSpec
INVARIANTS TypeOK LongFirst LockKeyBacked
PROPERTIES CountCoversRows LockPromised
