CONSTANTS
    Nodes = {n1, n2, n3}
    Keys = {1, 2}
    Packets = {p1, p2, p3}
    MaxIndex = 5
    DataLen = 3
    Values = {1, 2}
    Word = 4
    LetterCount = 2
    MaxLen = 3
    MaxWords = 2
    MaxBelow = 1
    MaxOdd = 1
    MsgFifoMax = 8192
    Requests = {0, 1, 2, 3, 4, 5, 6, 7, 8, 9, 10, 11,
        12, 13, 14, 15, 16, 17, 18, 19, 31, 32, 33, 63,
        64, 65, 127, 128, 129, 255, 256, 257, 511, 512, 513, 1000,
        1023, 1024, 1025, 2047, 2048, 2049, 4095, 4096, 4097, 6000, 8191, 8192,
        8193, 9000, 16383, 16384, 16385, 32767, 32768, 32769, 65535, 65536, 65537, 65544,
        65792, 66047, 66048, 131071, 131072, 131073, 196608, 262143, 262144, 262145, 524287, 524288,
        524289, 557056, 557057, 983040, 1048575, 1048576, 1048584, 1049600, 2097153}
    WordBits = 20
    LruKeys = {1, 2, 3, 4}
    MaxCapacity = 3
    MaxUses = 6
    PidSize = 4
SPECIFICATION SequentialSpec
SYMMETRY SymmetryOfHeaps
CHECK_DEADLOCK FALSE
INVARIANTS
    ChainsAgree
    HeapAccountedFor
    RingHoldsPackets
    QueuesHoldPushed
    WordsAreCounted
    NoUselessNodes
    SizeIsUsable
    EntriesInUse
    KillsDescendants
PROPERTIES
    ImplementsListSeq
    ImplementsLru
