SPECIFICATION SpecFunction
CONSTANTS
    LastBlock = 5
    LastAcyclic = 1
    Blocks <- MCBlocks
    Graphs <- AndGraphs
    Candidates <- Ascending
INVARIANT EveryBlockOnPath
CHECK_DEADLOCK FALSE
