\* Four descriptors, one of them taken, and two peers wanted.
CONSTANTS
    NULL = NULL
    Addr = {a1, a2}
    Incoming = incoming
    Peer <- Peers6
    MaxFds = 4
    Other = 0
    Reserve = 2
    PEERS_WANTED = 2
    RESBUFLEN = 3
    READ = 2
    NumPieces = 2
    MaxAnswer = 4
    MaxList = 2
SPECIFICATION Spec
PROPERTY ToldWhenDone
CHECK_DEADLOCK FALSE
