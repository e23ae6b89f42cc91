\* Two requests, pages of one policy out of two, a threshold of one failure.
SPECIFICATION Spec
CONSTANTS
    Threads = {r1, r2}
    Ids = {i1, i2}
    Selectors = {s1, s2}
    Names = {n1}
    BadToken = BadToken
    PageSize = 1
    Attempts = 2
    FailureThreshold = 1
    RecoveryTimeout = 1
    None = None
CHECK_DEADLOCK FALSE
INVARIANTS
    TypeOK
    AgentsArePermitted
PROPERTIES
    ImplementsBreaker
    EveryRequestIsAnswered
