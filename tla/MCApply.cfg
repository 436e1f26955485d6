SPECIFICATION Spec
CONSTANTS
    caller = caller
    Workers = {w1, w2}
    MaxIterations = 3
    MaxNesting = 2
    Parallelism = 3
    Depth = 2
    Width = 3
    MaxExcess = 2
    UINT32_MAX = 3
SYMMETRY Symmetry
CHECK_DEADLOCK FALSE
INVARIANTS
    TypeOK
    EachIndexOnce
    FreedByLast
    StackAlive
    EventClean
    WidthBalanced
