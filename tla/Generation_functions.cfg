SPECIFICATION MCSpec
CONSTANTS
    x = x
    y = y
    z = z
    Paths <- MCPaths
    Uncovered <- MCUncovered
    Inputs <- MCInputs
    Finds <- MCFinds
    A = 8
    M = 47
    PathLists <- MCLists
INVARIANTS
    EachInputOnce
    EveryTargetTried
    TargetsFresh
    ResultUnique
    ShortestFound
    DistinctPathTargeted
    DistinctTried
PROPERTY Terminates
CHECK_DEADLOCK FALSE
