CONSTANTS
    Client = Client
    Server = Server
    FifoSize = 8
    HeadLen = 4
    Lens = {0}
    ErrMax = 1
    Rounds = 2
    MaxConn = 2
SPECIFICATION FairSpec
INVARIANTS
    Lockstep
    TakesCurrentOnly
    NothingDropped
PROPERTIES
    RunTogetherOrStop
CHECK_DEADLOCK FALSE
