SPECIFICATION FairSpec
CONSTANTS
    Threads = {t1, t2, t3}
    NULL = NULL
CHECK_DEADLOCK FALSE
PROPERTIES
    LockersServed
