CONSTANTS
    Types = {"START", "HIGH"}
    ZeroType = "START"
    Lens = {0, 2}
    Capacity = 3
    MaxSent = 2
    MaxTaken = 2
    Late = TRUE
    Closes = TRUE
SPECIFICATION FairSpec
INVARIANTS
    CompleteUntilTorn
PROPERTIES
    EverythingArrives
CHECK_DEADLOCK FALSE
