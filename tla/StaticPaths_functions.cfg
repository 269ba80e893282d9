SPECIFICATION FairSpecFunction
CONSTANTS
    LastBlock = 11
    LastAcyclic = 4
    Blocks <- MCBlocks
    Graphs <- BranchesAndLoops
    Candidates <- Ascending
INVARIANTS
    OnlyExecutions
    Complete
    MaskIdentifies
    OneTurnPaths
PROPERTY Ends
CHECK_DEADLOCK FALSE
