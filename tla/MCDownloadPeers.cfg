\* Two peers and one block: requests change hands; we stay and seed.
CONSTANTS
    p1 = p1
    p2 = p2
    d1 = d1
    d2 = d2
    d3 = d3
    d4 = d4
    NULL = NULL
    Peer = {p1, p2}
    Pd = {d1, d2, d3}
    NumPieces = 1
    NumBlocks <- Blocks1
    Block <- BlockSet1
    MinQueue = 2
    MaxRequests = 2
    RandomPieces = 4
    U32 = 3
    Seed = TRUE
SPECIFICATION Spec
INVARIANTS
    Linked
    NoEmptyNode
    OwnersConnected
    VerifiedIntact
    GoodPiecesExact
CONSTRAINTS
    HeapBound
    DeadSilent
SYMMETRY Sym
