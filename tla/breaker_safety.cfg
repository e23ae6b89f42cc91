\* Three threads, a threshold of two failures, a recovery of two units.
SPECIFICATION BreakerSpec
CONSTANTS
    Threads = {t1, t2, t3}
    FailureThreshold = 2
    RecoveryTimeout = 2
    None = None
INVARIANTS
    OpenIsEarned
    FailuresOpen
PROPERTY OpenGivesWay
