CONSTANTS
    Readers = {r1, r2}
    NArrays = 2
    NNodes = 2
    Keys = {1, 2}
    Levels = 3
    DataLen = 8
SPECIFICATION Spec
CHECK_DEADLOCK FALSE
INVARIANTS
    CheckNeverWarns
