\* The same instance: a HAVE before the bitfield.
CONSTANTS
    NULL = NULL
    Byte = {0, 1}
    FastBytes = {1}
    BT_INITIAL_LEN = 1
    Pstr <- Pstr1
    RESERVED = 1
    HASH = 1
    ID = 1
    LENGTH_FIELD = 2
    MAX_MESSAGE_LEN = 2
    ntohl <- Number2
    NumPieces = 2
    MaxBytes = 9
SPECIFICATION Spec
INVARIANT PeerKnowsAll
CHECK_DEADLOCK FALSE
