CONSTANTS
    Requests = {r1, r2}
    StreamCap = 1
    HasTimeout = TRUE
SPECIFICATION FairSpec
INVARIANTS TypeOK AnsweredBeforeExit
PROPERTIES ProcessEnds StreamEnds
