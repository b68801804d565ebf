\* Two fast peers, each with some of the pieces.
CONSTANTS
    p1 = p1
    p2 = p2
    d1 = d1
    d2 = d2
    d3 = d3
    d4 = d4
    NULL = NULL
    Peer = {p1, p2}
    Pd = {d1, d2, d3, d4}
    NumPieces = 2
    NumBlocks <- Blocks21
    Block <- BlockSet21
    MinQueue = 2
    MaxRequests = 3
    RandomPieces = 4
    U32 = 8
    Seed = FALSE
SPECIFICATION FastSpec
INVARIANT NothingForgotten
CONSTRAINT HeapBound
SYMMETRY Sym
