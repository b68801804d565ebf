\* One peer and a piece of two blocks; we leave when it is verified.
CONSTANTS
    p1 = p1
    p2 = p2
    d1 = d1
    d2 = d2
    d3 = d3
    d4 = d4
    NULL = NULL
    Peer = {p1}
    Pd = {d1, d2, d3}
    NumPieces = 1
    NumBlocks <- Blocks2
    Block <- BlockSet2
    MinQueue = 2
    MaxRequests = 3
    RandomPieces = 4
    U32 = 4
    Seed = FALSE
SPECIFICATION Spec
INVARIANTS
    TypeOK
    NoErrx
PROPERTIES
    PdSpec
    DeadUntilReaped
CONSTRAINT HeapBound
