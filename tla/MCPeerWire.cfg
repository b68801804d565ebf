\* A handshake of four bytes and five bytes of messages; three is too long.
CONSTANTS
    NULL = NULL
    Byte = {0, 1}
    FastBytes = {1}
    BT_INITIAL_LEN = 1
    Pstr <- Pstr1
    RESERVED = 1
    HASH = 1
    ID = 1
    LENGTH_FIELD = 2
    MAX_MESSAGE_LEN = 2
    ntohl <- Number2
    NumPieces = 2
    MaxBytes = 9
SPECIFICATION Spec
INVARIANTS
    BufferFits
    NothingHeldBack
    PeerKnows
PROPERTY FramingSpec
CHECK_DEADLOCK FALSE
