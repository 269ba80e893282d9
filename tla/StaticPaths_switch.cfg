SPECIFICATION SpecFunction
CONSTANTS
    LastBlock = 3
    LastAcyclic = 3
    Blocks <- MCBlocks
    Graphs <- Switches
    Candidates <- Ascending
INVARIANT UniqueIdentifier
CHECK_DEADLOCK FALSE
