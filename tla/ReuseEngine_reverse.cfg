SPECIFICATION Spec
CONSTANTS
    t1 = t1
    t2 = t2
    t3 = t3
    t4 = t4
    Tests <- MCTests
    OldBlocks = {0, 1, 2, 3}
    OldNumPaths = 2
    OldMask <- MCOldMask
    OldRuns <- MCOldRuns
    NewBlocks = {0, 1, 2, 3, 4, 5, 6, 7}
    NewNumPaths = 4
    NewMask <- MCNewMask
    NewRuns <- MCNewRuns
    Sim <- MCSim
    SIMILARITY_THRESHOLD = 35
    SuiteFiles <- MCSuiteFiles
INVARIANTS
    MatchersAgree
    ExpectationsKept
    NoTestLost
CHECK_DEADLOCK FALSE
