SPECIFICATION Spec
CONSTANTS
    Versions = {1, 2, 3}
    Broken = {}
    Pathless = {}
    MaxRuns = 3
    InWorkDir = FALSE
INVARIANT NewExecutedCurrent
CHECK_DEADLOCK FALSE
