CONSTANTS
    Client = Client
    Server = Server
    FifoSize = 0
    HeadLen = 4
    Lens = {0, 95}
    ErrMax = 2
    Rounds = 2
    MaxConn = 1
SPECIFICATION Spec
INVARIANTS
    NothingDropped
CHECK_DEADLOCK FALSE
