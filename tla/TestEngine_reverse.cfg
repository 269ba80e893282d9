SPECIFICATION Spec
CONSTANTS
    t1 = t1
    t2 = t2
    t3 = t3
    t4 = t4
    Blocks <- ReverseBlocks
    NumPaths = 4
    Mask <- ReverseMask
    Tests <- MCTests
    Runs <- ReverseRuns
    Suites <- MCSuites
INVARIANTS
    AssignedCovers
    LoadBalanced
    ExactNotStarved
    HalfOfBest
CHECK_DEADLOCK FALSE
