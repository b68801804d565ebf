\* The same two peers when a fast one may be taken for plain.
CONSTANTS
    p1 = p1
    p2 = p2
    d1 = d1
    d2 = d2
    d3 = d3
    d4 = d4
    NULL = NULL
    Peer = {p1, p2}
    Pd = {d1, d2, d3}
    NumPieces = 2
    NumBlocks <- Blocks11
    Block <- BlockSet11
    MinQueue = 2
    MaxRequests = 2
    RandomPieces = 1
    U32 = 8
    Seed = TRUE
SPECIFICATION FreshSpec
PROPERTY AnswersExpected
CONSTRAINT HeapBound
SYMMETRY Sym
