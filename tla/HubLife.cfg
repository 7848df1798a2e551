CONSTANTS
    Clients = {c1, c2}
    RegCap = 1
    UnregCap = 1
    BcastCap = 1
    SendCap = 1
    MayStop = TRUE
    MaxMsgs = 3
SPECIFICATION FairSpec
INVARIANTS TypeOK RegisteredOpen StoppedHangsUp
PROPERTIES LostEnds StoppedEnds
