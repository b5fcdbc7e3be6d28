CONSTANTS
    Size = 7
    HeadLen = 2
    Ids = {1}
    Lens = {0, 1, 3}
    Producers = {p1, p2}
    Consumers = {c1, c2}
SPECIFICATION Spec
SYMMETRY ThreadSymmetry
INVARIANTS
    LockEndsWithCall
    IndicesMatchDepth
    CopiesInBounds
PROPERTIES
    ImplementsMsgFifo
