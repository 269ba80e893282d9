SPECIFICATION Spec
CONSTANTS
    Blocks <- MCBlocks
    Graphs <- MCGraphs
    Targets <- MCTargets
    MaxTrace = 18
    Candidates <- MCCandidates
INVARIANTS
    CoverageExact
    PartSurvives
CHECK_DEADLOCK FALSE
