CONSTANTS
    Types = {"START", "HIGH"}
    ZeroType = "START"
    Lens = {0, 2}
    Capacity = 3
    MaxSent = 3
    MaxTaken = 3
    Late = TRUE
    Closes = FALSE
SPECIFICATION Spec
INVARIANTS
    CompletePackets
CHECK_DEADLOCK FALSE
