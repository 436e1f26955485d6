SPECIFICATION Spec
CONSTANTS
    Threads = {t1, t2, t3}
    Notifs = {n1, n2}
    NULL = NULL
    VALUES = 4
    GENS = 4
    MaxGen = 2
SYMMETRY Symmetry
CHECK_DEADLOCK FALSE
INVARIANTS
    TypeOK
    WordCounts
    FlagsHandled
    OneConsumer
    SubmittedOnce
    RefLedger
    FreedAtRest
    NoLostWaiter
    NotifyAfterEmpty
