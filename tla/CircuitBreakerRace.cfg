\* Two threads are enough for a reset to land on a tripped breaker.
SPECIFICATION Spec
CONSTANTS
    t1 = t1
    t2 = t2
    t3 = t3
    Threads <- TwoThreads
    FAILURE_THRESHOLD = 2
    RESET_TIMEOUT_SECS = 1
    StartTime = 2
    MaxTime = 3
    MaxFailures = 3
INVARIANT TrippedIsOpen
CHECK_DEADLOCK TRUE
