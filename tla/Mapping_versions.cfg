SPECIFICATION MappingSpec
CONSTANTS
    Functions <- AllFunctions
    Unit = 6
    Scale = 420
INVARIANTS
    DistanceMinimal
    SameGraph
    UntouchedReused
CHECK_DEADLOCK FALSE
