CONSTANTS
    Size = 8
    W = 16
    HeadLen = 2
    Ids = {1}
    Lens = {1, 3}
SPECIFICATION ShmSpec
INVARIANTS
    EveryHeadIsMagic
