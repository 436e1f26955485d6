SPECIFICATION FairSpec
CONSTANTS
    caller = caller
    Workers = {w1, w2}
    MaxIterations = 3
    MaxNesting = 1
    Parallelism = 3
    Depth = 1
    Width = 2
    MaxExcess = 1
    UINT32_MAX = 3
CHECK_DEADLOCK FALSE
PROPERTIES
    CallerReturns
