CONSTANTS
    Readers = {r1}
    NArrays = 1
    NNodes = 6
    Keys = {1, 2}
    Levels = 4
    DataLen = 8
SPECIFICATION Spec
CHECK_DEADLOCK FALSE
INVARIANTS
    ShownInPlace
