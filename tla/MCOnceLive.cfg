SPECIFICATION FairSpec
CONSTANTS
    Threads = {t1, t2, t3}
    NULL = NULL
    Quiescent = FALSE
    SAFE_DELTA = 4
    MaxGeneration = 0
CHECK_DEADLOCK FALSE
PROPERTIES
    CallsReturn
