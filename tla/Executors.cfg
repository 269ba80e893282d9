SPECIFICATION FairSpecEither
CONSTANTS
    N = 4
    maxThreads = 3
    Printed <- MCPrinted
INVARIANTS
    OneWriter
    ResultsOwn
PROPERTIES
    KeepsPromise
    LoopKeepsPromise
    Returns
CHECK_DEADLOCK FALSE
