\* Two fast seeds that answer; a piece of two blocks.
CONSTANTS
    p1 = p1
    p2 = p2
    d1 = d1
    d2 = d2
    d3 = d3
    d4 = d4
    NULL = NULL
    Peer = {p1, p2}
    Pd = {d1, d2, d3, d4}
    NumPieces = 1
    NumBlocks <- Blocks2
    Block <- BlockSet2
    MinQueue = 2
    MaxRequests = 3
    RandomPieces = 4
    U32 = 8
    Seed = FALSE
SPECIFICATION FairFastSeedsSpec
INVARIANTS
    QueueLenExact
    NothingForgotten
    AskedOnce
PROPERTIES
    DeadReaped
    Completes
