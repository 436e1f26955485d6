\* Safety: four threads, initial value 1, a counter that wraps after 4.
SPECIFICATION Spec
CONSTANTS
    Threads = {t1, t2, t3, t4}
    Orig = 1
    LONG_MAX = 4
    NULL = NULL
SYMMETRY Symmetry
INVARIANTS
    TypeOK
    OnePort
    Ledger
    NoPhantomToken
    NoUseAfterDispose
    CrashesJustified
CHECK_DEADLOCK FALSE
