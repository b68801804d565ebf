\* One plain seed.
CONSTANTS
    p1 = p1
    p2 = p2
    d1 = d1
    d2 = d2
    d3 = d3
    d4 = d4
    NULL = NULL
    Peer = {p1}
    Pd = {d1, d2, d3}
    NumPieces = 2
    NumBlocks <- Blocks21
    Block <- BlockSet21
    MinQueue = 2
    MaxRequests = 3
    RandomPieces = 4
    U32 = 8
    Seed = FALSE
SPECIFICATION PlainSeedsSpec
PROPERTY EnoughRequests
