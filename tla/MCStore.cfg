\* Lengths wrap around at five, which is more than a piece.
CONSTANTS
    Torrents <- SmallTorrents
    MOD = 5
SPECIFICATION Spec
INVARIANTS
    BlocksExact
    LengthKept
    MapsInside
    RefsExact
CHECK_DEADLOCK FALSE
