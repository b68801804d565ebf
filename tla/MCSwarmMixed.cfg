\* Two peers, each with some of the pieces: plain ones, or plain and fast ones
\* that are all taken for fast; we stay and seed.
CONSTANTS
    p1 = p1
    p2 = p2
    d1 = d1
    d2 = d2
    d3 = d3
    d4 = d4
    NULL = NULL
    Peer = {p1, p2}
    Pd = {d1, d2, d3}
    NumPieces = 2
    NumBlocks <- Blocks11
    Block <- BlockSet11
    MinQueue = 2
    MaxRequests = 2
    RandomPieces = 1
    U32 = 8
    Seed = TRUE
SPECIFICATION MixedSpec
PROPERTY AnswersExpected
CONSTRAINT HeapBound
SYMMETRY Sym
