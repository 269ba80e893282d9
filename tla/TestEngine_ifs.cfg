SPECIFICATION Spec
CONSTANTS
    t1 = t1
    t2 = t2
    t3 = t3
    t4 = t4
    Blocks <- IfsBlocks
    NumPaths = 4
    Mask <- IfsMask
    Tests <- MCTests
    Runs <- IfsRuns
    Suites <- MCSuites
INVARIANT CoveredPathExecuted
CHECK_DEADLOCK FALSE
