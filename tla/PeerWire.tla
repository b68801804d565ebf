------------------------------ MODULE PeerWire ------------------------------
(***************************************************************************)
(* network_handle_peer_response(): how the bytes of one peer's connection  *)
(* become a handshake and messages.  Bytes arrive in chunks of any size;   *)
(* libevent appends a chunk to the input buffer and calls the handler,     *)
(* which calls itself until the buffer is empty.  A call of the handler is *)
(* one step here, and only the handler steps while the buffer is not empty.*)
(*                                                                         *)
(* The lengths are parameters, so that a small instance has all cases.     *)
(* What network_peer_process_message() does with a message belongs to      *)
(* other modules; here it hands the message over and may kill the peer.    *)
(* What the peer makes of the HAVEs, the BITFIELD, the HAVEALL or HAVENONE *)
(* that we send is what this client does with a peer's: the first of them  *)
(* ends its wait for a bitfield, and only a HAVE is heeded afterwards.     *)
(***************************************************************************)
EXTENDS Integers, Sequences

CONSTANTS
    Byte,
    FastBytes,         \* the bytes with bit 0x04 set
    BT_INITIAL_LEN,    \* 20: the length byte and the protocol string
    Pstr,              \* those bytes
    RESERVED,          \* 8 reserved bytes, whose last has the fast bit
    HASH,              \* 20 bytes of info hash
    ID,                \* 20 bytes of peer id
    LENGTH_FIELD,      \* 4
    MAX_MESSAGE_LEN,
    ntohl(_),          \* the number that LENGTH_FIELD bytes stand for
    NumPieces,         \* tp->num_pieces
    MaxBytes,          \* bound: how many bytes the peer sends
    NULL

Piece == 0..(NumPieces - 1)
HANDSHAKE2_LEN == RESERVED + HASH + ID
\* 27, the place of the fast bit in the whole handshake.
FAST_OFFSET == BT_INITIAL_LEN + RESERVED - 1
Buffer(n) == [0..(n - 1) -> Byte]

ASSUME WireConstants ==
    /\ Byte # {} /\ FastBytes \subseteq Byte
    /\ {BT_INITIAL_LEN, RESERVED, HASH, ID, LENGTH_FIELD} \subseteq Nat \ {0}
    /\ BT_INITIAL_LEN <= HASH
    /\ Pstr \in Buffer(BT_INITIAL_LEN)
    /\ MAX_MESSAGE_LEN \in Nat /\ MaxBytes \in Nat /\ NumPieces \in Nat \ {0}
    /\ \A f \in Buffer(LENGTH_FIELD) : ntohl(f) \in Nat

VARIABLES
    wire,              \* the bytes the peer sends, in order
    info_hash,         \* the torrent's info hash
    arrived,           \* how many bytes have arrived
    consumed,          \* how many of them were read from the input buffer
    state,             \* p->state, the flags this handler uses
    rxmsg,             \* p->rxmsg: NULL or the bytes of the buffer
    rxmsglen,          \* p->rxmsglen
    rxpending,         \* p->rxpending
    delivered,         \* the messages processed while the peer was not dead
    good,              \* the pieces we have (TORRENT_PIECE_CKSUMOK)
    had,               \* those we had when the connection was made
    told,              \* the peer's bitfield of us: the pieces it knows we have
    first              \* what ended its wait for a bitfield: "none", "HAVE", "BITFIELD"

rx == <<state, rxmsg, rxmsglen, rxpending>>
known == <<good, had, told, first>>
vars == <<wire, info_hash, arrived, consumed, rx, delivered, known>>

Min(a, b) == IF a < b THEN a ELSE b

\* Mutation of input: a single byte is left for later.
input_many == consumed + 1 < arrived

\* The input buffer is not empty: the handler is called (again).
input == consumed < arrived

\* A buffer fresh from malloc() has any content; it is never read before it is
\* written, so one content stands for all.
garbage == CHOOSE b \in Byte : TRUE

xmalloc(n) == [k \in 0..(n - 1) |-> garbage]

------------------------------------------------------------------------------
(* One call of the handler: a buffer, a read, then what is complete.        *)

\* The flags, buffer and lengths with which the call reads.
new_buffer ==
    IF rxpending # 0 THEN [st |-> state, msg |-> rxmsg, len |-> rxmsglen, pending |-> rxpending]
    ELSE IF "HANDSHAKE1" \in state
    THEN [st |-> state, msg |-> xmalloc(BT_INITIAL_LEN),
          len |-> BT_INITIAL_LEN, pending |-> BT_INITIAL_LEN]
    ELSE [st |-> state \ {"GOTLEN"}, msg |-> xmalloc(LENGTH_FIELD),
          len |-> LENGTH_FIELD, pending |-> LENGTH_FIELD]

\* Mutation of bufferevent_read: every read starts at the beginning of the buffer.
bufferevent_read_at_start(b, n) ==
    [k \in 0..(b.len - 1) |-> IF k < n THEN wire[consumed + k] ELSE b.msg[k]]

\* bufferevent_read() of n bytes into buffer b, behind what is there already.
bufferevent_read(b, n) ==
    [k \in 0..(b.len - 1) |->
        IF k \in (b.len - b.pending)..(b.len - b.pending + n - 1)
        THEN wire[consumed + k - (b.len - b.pending)] ELSE b.msg[k]]

\* The handler returns with these flags, buffer and lengths.
return(st, msg, len, pending) ==
    state' = st /\ rxmsg' = msg /\ rxmsglen' = len /\ rxpending' = pending

\* More data is pending, come back later.
incomplete(b, n, msg) ==
    /\ n < b.pending
    /\ return(b.st, msg, b.len, b.pending - n)
    /\ UNCHANGED <<delivered, known>>

\* Mutation of handshake1: the buffer of the first part is used for the second.
handshake1_same_buffer(b, msg) ==
    /\ "HANDSHAKE1" \in b.st
    /\ IF msg = Pstr
       THEN return((b.st \ {"HANDSHAKE1"}) \cup {"HANDSHAKE2"}, msg, HANDSHAKE2_LEN, HANDSHAKE2_LEN)
       ELSE return({"DEAD"}, msg, b.len, 0)
    /\ UNCHANGED <<delivered, known>>

handshake1(b, msg) ==
    /\ "HANDSHAKE1" \in b.st
    /\ IF msg = Pstr
       THEN return((b.st \ {"HANDSHAKE1"}) \cup {"HANDSHAKE2"},
                   xmalloc(HANDSHAKE2_LEN), HANDSHAKE2_LEN, HANDSHAKE2_LEN)
       ELSE return({"DEAD"}, msg, b.len, 0)
    /\ UNCHANGED <<delivered, known>>

\* The peer takes pieces S for all that we have, unless it has had a HAVE: then it
\* is "not expecting bitfield!".
expect_bitfield(S) ==
    IF first = "none" THEN told' = S /\ first' = "BITFIELD" ELSE UNCHANGED <<told, first>>

\* Mutation of write_bitfield: HAVEALL as soon as there is something to tell.
write_bitfield_eager(fast) ==
    IF good = {} THEN UNCHANGED <<told, first>> ELSE expect_bitfield(IF fast THEN Piece ELSE good)

\* HAVENONE, HAVEALL and BITFIELD to a fast peer; BITFIELD to a plain one, and
\* nothing if we have no pieces.
write_bitfield(fast) ==
    CASE fast /\ good = {} -> expect_bitfield({})
      [] fast /\ good = Piece -> expect_bitfield(Piece)
      [] ~ fast /\ good = {} -> UNCHANGED <<told, first>>
      [] OTHER -> expect_bitfield(good)

\* Mutation of fast_bit: the byte behind it.
fast_bit_next(msg) == msg[FAST_OFFSET + 1] \in FastBytes

\* The offset is that of the whole handshake, the buffer has its second part.
fast_bit(msg) == msg[FAST_OFFSET] \in FastBytes

\* SENDBITFIELD is set here and cleared before the handler returns.
handshake2(b, msg) ==
    /\ "HANDSHAKE2" \in b.st
    /\ IF [k \in 0..(HASH - 1) |-> msg[RESERVED + k]] = info_hash
       THEN /\ return((b.st \ {"HANDSHAKE2"}) \cup {"BITFIELD"}
                          \cup (IF fast_bit(msg) THEN {"FAST"} ELSE {}), NULL, b.len, 0)
            /\ write_bitfield(fast_bit(msg))
       ELSE return({"DEAD"}, msg, b.len, 0) /\ UNCHANGED <<told, first>>
    /\ UNCHANGED <<delivered, good, had>>

\* The first LENGTH_FIELD bytes of a buffer of n bytes.  When a peer is killed
\* the rest of a message is taken for a length, and what follows a short one in
\* memory may be anything.
length_fields(msg, n) ==
    IF n >= LENGTH_FIELD THEN {[k \in 0..(LENGTH_FIELD - 1) |-> msg[k]]} ELSE Buffer(LENGTH_FIELD)

\* A message that is too long kills the peer; a keep-alive has no body to wait for.
got_length(b, msg) ==
    /\ b.st \cap {"HANDSHAKE1", "HANDSHAKE2", "GOTLEN"} = {}
    /\ \E f \in length_fields(msg, b.len) :
         IF ntohl(f) > MAX_MESSAGE_LEN THEN return({"DEAD"}, msg, ntohl(f), 0)
         ELSE return(b.st \cup {"GOTLEN"}, IF ntohl(f) = 0 THEN NULL ELSE xmalloc(ntohl(f)),
                     ntohl(f), ntohl(f))
    /\ UNCHANGED <<delivered, known>>

\* A piece is verified: every peer of the list is sent a HAVE, whatever its state.
network_peer_write_have(i) ==
    /\ good' = good \cup {i} /\ told' = told \cup {i}
    /\ first' = IF first = "none" THEN "HAVE" ELSE first
    /\ UNCHANGED had

\* The flags after a HAVE, BITFIELD, HAVEALL or HAVENONE.
established(st) ==
    (st \ {"BITFIELD"}) \cup {"ESTABLISHED"}

\* network_peer_process_message() gets the message.  It may kill the peer, and
\* the message may be the last block of a piece.
whole_message(b, msg) ==
    /\ b.st \cap {"HANDSHAKE1", "HANDSHAKE2"} = {} /\ "GOTLEN" \in b.st
    /\ delivered' = IF "DEAD" \in b.st THEN delivered ELSE Append(delivered, msg)
    /\ \/ \E st \in {b.st, established(b.st), {"DEAD"}} :
             return(st, NULL, b.len, 0) /\ UNCHANGED known
       \/ return(b.st, NULL, b.len, 0) /\ \E i \in Piece \ good : network_peer_write_have(i)

network_handle_peer_response ==
    LET b == new_buffer
        n == Min(b.pending, arrived - consumed)
        msg == bufferevent_read(b, n)
    IN  /\ input
        /\ consumed' = consumed + n
        /\ \/ incomplete(b, n, msg)
           \/ n = b.pending /\ handshake1(b, msg)
           \/ n = b.pending /\ handshake2(b, msg)
           \/ n = b.pending /\ got_length(b, msg)
           \/ n = b.pending /\ whole_message(b, msg)
        /\ UNCHANGED <<wire, info_hash, arrived>>

------------------------------------------------------------------------------
(* Events between two calls.                                                *)

\* A chunk of any size arrives.
chunk(n) ==
    /\ ~ input /\ n \in (arrived + 1)..MaxBytes
    /\ arrived' = n
    /\ UNCHANGED <<wire, info_hash, consumed, rx, delivered, known>>

\* network_handle_peer_error(), or scheduler_threshold_kill() in the middle of a
\* message: only the flags change.
killed ==
    /\ ~ input
    /\ state' = {"DEAD"}
    /\ UNCHANGED <<wire, info_hash, arrived, consumed, rxmsg, rxmsglen, rxpending, delivered, known>>

\* Another peer's block completed piece i.
piece_completed(i) ==
    /\ ~ input /\ i \notin good
    /\ network_peer_write_have(i)
    /\ UNCHANGED <<wire, info_hash, arrived, consumed, rx, delivered>>

------------------------------------------------------------------------------
\* The connection is new, whoever opened it; our handshake is sent at once.
Init ==
    /\ wire \in [0..(MaxBytes - 1) -> Byte]
    /\ info_hash \in Buffer(HASH)
    /\ arrived = 0 /\ consumed = 0
    /\ state = {"HANDSHAKE1"}
    /\ rxmsg = NULL /\ rxmsglen = 0 /\ rxpending = 0
    /\ delivered = <<>>
    /\ good \in SUBSET Piece /\ had = good
    /\ told = {} /\ first = "none"

Next ==
    \/ network_handle_peer_response
    \/ \E n \in 1..MaxBytes : chunk(n)
    \/ killed
    \/ \E i \in Piece : piece_completed(i)

Spec == Init /\ [][Next]_vars

------------------------------------------------------------------------------
\* The variables keep their types: the handler reads no byte that has not
\* arrived, and rxpending never exceeds the message it belongs to.
WireTypeOK ==
    /\ wire \in [0..(MaxBytes - 1) -> Byte] /\ info_hash \in Buffer(HASH)
    /\ arrived \in 0..MaxBytes /\ consumed \in 0..arrived
    /\ state \subseteq {"HANDSHAKE1", "HANDSHAKE2", "BITFIELD", "ESTABLISHED",
                      "GOTLEN", "FAST", "DEAD"}
    /\ rxmsglen \in Nat /\ rxpending \in 0..rxmsglen
    /\ good \subseteq Piece /\ had \subseteq Piece /\ told \subseteq Piece
    /\ first \in {"none", "HAVE", "BITFIELD"}

\* Whatever is still to be read has a buffer to go to that is long enough for it,
\* for a peer that was killed in the middle of a message, too.
BufferFits == rxpending > 0 => rxmsg \in Buffer(rxmsglen)

\* Where the message that is being read begins.
frame_start ==
    consumed - IF rxpending = 0 THEN 0
               ELSE (rxmsglen - rxpending)
                    + IF "HANDSHAKE2" \in state THEN BT_INITIAL_LEN
                      ELSE IF "GOTLEN" \in state THEN LENGTH_FIELD ELSE 0

alive == "DEAD" \notin state

Framing == INSTANCE PeerStream WITH
    HandshakeLen <- BT_INITIAL_LEN + HANDSHAKE2_LEN, LengthField <- LENGTH_FIELD,
    Number <- ntohl, pos <- frame_start, open <- alive

\* Partial reads never lose, repeat, split or reorder a message: the handler
\* implements the stream of whole messages of module PeerStream.
FramingSpec == Framing!StreamSpec

\* No complete message is left in the input buffer when the handler is done,
\* however the bytes were cut into chunks.
NothingHeldBack ==
    (alive /\ ~ input) =>
        IF state \cap {"HANDSHAKE1", "HANDSHAKE2"} # {}
        THEN arrived < BT_INITIAL_LEN + HANDSHAKE2_LEN
        ELSE frame_start + LENGTH_FIELD <= arrived
             => arrived < frame_start + LENGTH_FIELD + Framing!length(frame_start)

shaken == alive /\ state \cap {"HANDSHAKE1", "HANDSHAKE2"} = {}

\* "does this peer support fast extension?": a peer past its handshake is taken
\* for fast if and only if the reserved bytes it has sent say that it is.
FastAsSaid == shaken => ("FAST" \in state <=> wire[FAST_OFFSET] \in FastBytes)

\* What the handler does instead: peers of one torrent are all taken for fast or
\* all for plain, by a bit of the info hash, which they all send.
FastByTorrent == shaken => ("FAST" \in state <=> info_hash[BT_INITIAL_LEN - 1] \in FastBytes)

\* What a peer past its handshake knows of our pieces, whichever were verified
\* before, while and after it shook hands.  It knows all of them, except when a
\* HAVE went out before the handshake was over and made it ignore the bitfield
\* that followed: then it knows those verified since the connection was made,
\* and never learns of those we had before.
PeerKnows == shaken => told = IF first = "HAVE" THEN good \ had ELSE good

\* It knows all of our pieces ("send the bitfield").
PeerKnowsAll == shaken => told = good
==============================================================================
