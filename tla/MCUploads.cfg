\* Three peers, one slot; one of the peers asks, for one block, up to twice.
CONSTANTS
    Peer = {p1, p2, p3}
    Block = {b1}
    Asking = {p1}
    Slots = 1
    MaxQueue = 2
SPECIFICATION Spec
INVARIANTS
    UploadsExact
    SlotsKept
    SlotsUsed
PROPERTIES
    QueuesMove
