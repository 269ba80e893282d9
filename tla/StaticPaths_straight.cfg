SPECIFICATION SpecFunction
CONSTANTS
    LastBlock = 3
    LastAcyclic = 3
    Blocks <- MCBlocks
    Graphs <- Branches
    Candidates <- Ascending
INVARIANT AllPathsFound
CHECK_DEADLOCK FALSE
