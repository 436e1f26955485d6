SPECIFICATION Spec
CONSTANTS
    Threads = {t1, t2, t3, t4}
    NULL = NULL
    Quiescent = TRUE
    SAFE_DELTA = 4
    MaxGeneration = 6
SYMMETRY Symmetry
CHECK_DEADLOCK FALSE
INVARIANTS
    TypeOK
    RunsOnce
    ReturnsAfterInit
    NoLostSleeper
    CrashesOnlyInCallout
PROPERTIES
    GateMovesForward
