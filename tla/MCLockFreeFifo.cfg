CONSTANTS
    Size = 8
    W = 16
    HeadLen = 2
    Ids = {1}
    Lens = {0, 3}
SPECIFICATION FairSpec
INVARIANTS
    TypeOK
    CursorsSafe
    CopiesInBounds
    NoByteRace
    UnreadIntact
    IInv
PROPERTIES
    ImplementsMsgFifo
    EveryMessageLeaves
    ProducerNotStarved
