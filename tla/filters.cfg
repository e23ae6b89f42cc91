\* Five requests of two clients, two to a window, one token, seven units.
SPECIFICATION Spec
CONSTANTS
    Requests = {r1, r2, r3, r4, r5}
    Addresses = {c1, c2, inside, junk}
    c1 = c1
    c2 = c2
    inside = inside
    junk = junk
    Invalid = {junk}
    BlockedRanges = {inside}
    AllowedRanges = {}
    Queries <- MCQueries
    Detectors = {"xss_attempt", "sql_injection_attempt", "path_traversal_attempt"}
    Limit = 1
    Window = 2
    Burst = 1
    Second = 1
    Minute = 3
    MaxSize = 1
    MaxTime = 6
    None = None
SYMMETRY Symmetry
CHECK_DEADLOCK FALSE
INVARIANTS
    TypeOK
    WindowIsRationed
PROPERTY LimitIsEarned
