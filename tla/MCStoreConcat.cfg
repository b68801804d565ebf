CONSTANTS
    Torrents <- SmallTorrents
    MOD = 5
SPECIFICATION Spec
INVARIANT Concatenation
CHECK_DEADLOCK FALSE
