\* One client, which may connect again, and five pieces.  Numbers are printed in base 2 and the room
\* is scaled with them: 2 and 3 are longer than ROOM allows for, 4 is too long
\* for piece[].
CONSTANTS
    c1 = c1
    Conn = {c1}
    Peer <- Peers1
    NumPieces = 5
    Seed = FALSE
    CTL_MESSAGE_LEN = 10
    ROOM = 2
    PIECE_LEN = 5
    Base = 2
    MaxBytes = 3
    MaxOut = 3
SPECIFICATION Spec
INVARIANT NoPiecesYet
CHECK_DEADLOCK FALSE
