SPECIFICATION SpecFunction
CONSTANTS
    LastBlock = 4
    LastAcyclic = 1
    Blocks <- MCBlocks
    Graphs <- DoWhileGraphs
    Candidates <- Ascending
INVARIANT OnlyWalks
CHECK_DEADLOCK FALSE
