CONSTANTS
    Requests = {r1}
    StreamCap = 1
    HasTimeout = TRUE
SPECIFICATION Spec
INVARIANT DrainWindow
