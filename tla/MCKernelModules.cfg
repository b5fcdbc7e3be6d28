CONSTANTS
    Readers = {r1}
    NArrays = 1
    NNodes = 6
    Keys = {1, 2}
    Levels = 4
    DataLen = 8
    Users = {u1, u2}
    MaxThreads = 2
    MaxBuffers = 2
SPECIFICATION KernelSpec
CHECK_DEADLOCK FALSE
INVARIANTS
    CheckNeverWarns
    LeftmostIsFirst
    TreeOfLiveNodes
    ShownOnce
    HeldAsReported
    ReleasesOnlyHeld
    NothingOutlivesParent
    LeavesOnlyThreadsAndBuffers
