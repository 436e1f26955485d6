\* Refinement and liveness: three threads, initial value 0.
SPECIFICATION FairSpec
CONSTANTS
    Threads = {t1, t2, t3}
    Orig = 0
    LONG_MAX = 3
    NULL = NULL
PROPERTIES
    ImplementsAbstract
    WaitersServed
CHECK_DEADLOCK FALSE
