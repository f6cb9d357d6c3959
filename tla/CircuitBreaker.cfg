\* Three threads, a threshold of two failures, a timeout of one second.
SPECIFICATION Spec
CONSTANTS
    t1 = t1
    t2 = t2
    t3 = t3
    Threads <- ThreadSet
    FAILURE_THRESHOLD = 2
    RESET_TIMEOUT_SECS = 1
    StartTime = 2
    MaxTime = 4
    MaxFailures = 3
SYMMETRY ThreadSymmetry
INVARIANTS TripSticks
PROPERTIES OpenIsRecent
CHECK_DEADLOCK TRUE
