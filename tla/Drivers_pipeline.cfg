SPECIFICATION Spec
CONSTANTS
    INT_MAX = 127
    ArrayTexts <- MCArrayTexts
    UintTexts <- MCUintTexts
    Atoms <- MCAtoms
    Programs <- MCPrograms
    MaxCalls = 2
    Ints = {0, 1, 10, 99, 100, 127, 128, 200, 255}
    Uints = {0, 7, 127, 128, 255}
    Arrays <- MCArrays
    Chars <- MCChars
    Strings <- MCStrings
    KLEE_ARRAY_SIZE = 5
INVARIANTS
    NoOverflow
    ElementsClamped
    ArrayFilled
    SourceKept
    OneMain
    DriverFits
    ArgumentsArrive
CHECK_DEADLOCK FALSE
