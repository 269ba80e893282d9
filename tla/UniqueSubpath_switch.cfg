SPECIFICATION IndexSpec
CONSTANTS
    A = 8
    M = 10007
    PathLists <- SwitchLists
INVARIANT EveryPathTargeted
CHECK_DEADLOCK FALSE
