SPECIFICATION Spec
CONSTANTS
    Versions = {1, 2, 3, 4}
    Broken = {2}
    Pathless = {4}
    MaxRuns = 3
    InWorkDir = TRUE
INVARIANTS
    NewExecutedCurrent
    MatchedWithOwnPaths
    SuiteReadable
CHECK_DEADLOCK FALSE
