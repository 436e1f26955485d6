SPECIFICATION Spec
CONSTANTS
    Threads = {t1, t2, t3}
    Notifs = {n1, n2}
    NULL = NULL
    VALUES = 4
    GENS = 4
    MaxGen = 2
CHECK_DEADLOCK FALSE
INVARIANT NotifyOnceCompleted
