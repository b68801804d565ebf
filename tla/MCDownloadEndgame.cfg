\* Two peers and one block.
CONSTANTS
    p1 = p1
    p2 = p2
    d1 = d1
    d2 = d2
    d3 = d3
    d4 = d4
    NULL = NULL
    Peer = {p1, p2}
    Pd = {d1, d2, d3}
    NumPieces = 1
    NumBlocks <- Blocks1
    Block <- BlockSet1
    MinQueue = 2
    MaxRequests = 2
    RandomPieces = 4
    U32 = 3
    Seed = FALSE
SPECIFICATION Spec
PROPERTY EndgameAsksHolders
CONSTRAINT HeapBound
SYMMETRY Sym
