----------------------------- MODULE PeerStream -----------------------------
(***************************************************************************)
(* What the client promises its message processor about one peer: the      *)
(* bytes of the peer are a handshake followed by messages, each a length   *)
(* and a body; every message is handed over once, whole and in order, and  *)
(* keep-alives (messages without a body) are skipped.  The client may give *)
(* the peer up at any time; then nothing more is promised.                 *)
(***************************************************************************)
EXTENDS Integers, Sequences

CONSTANTS
    HandshakeLen,      \* length of the peer's handshake
    LengthField,       \* length of a length field
    Number(_)          \* the number that the bytes of a length field stand for

VARIABLES
    wire,              \* the bytes the peer sends, in order
    arrived,           \* how many of them have arrived
    pos,               \* where the first message not handed over begins
    delivered,         \* the messages handed over
    open               \* the peer is not given up

streamVars == <<wire, arrived, pos, delivered, open>>

\* Bytes a, a + 1, ..., a + n - 1 of the wire, numbered from 0.
bytes(a, n) == [k \in 0..(n - 1) |-> wire[a + k]]

length(a) == Number(bytes(a, LengthField))

StreamInit ==
    /\ arrived = 0 /\ pos = 0 /\ delivered = <<>> /\ open = TRUE

arrive ==
    /\ arrived' >= arrived
    /\ UNCHANGED <<wire, pos, delivered, open>>

shake_hands ==
    /\ open /\ open'
    /\ pos = 0 /\ HandshakeLen <= arrived
    /\ pos' = HandshakeLen
    /\ UNCHANGED <<wire, arrived, delivered>>

keep_alive ==
    /\ open /\ open'
    /\ pos > 0 /\ pos + LengthField <= arrived /\ length(pos) = 0
    /\ pos' = pos + LengthField
    /\ UNCHANGED <<wire, arrived, delivered>>

\* The message may make the client give up the peer.
deliver ==
    /\ open
    /\ pos > 0 /\ pos + LengthField <= arrived /\ length(pos) > 0
    /\ pos + LengthField + length(pos) <= arrived
    /\ delivered' = Append(delivered, bytes(pos + LengthField, length(pos)))
    /\ open' => pos' = pos + LengthField + length(pos)
    /\ UNCHANGED <<wire, arrived>>

give_up ==
    /\ ~ open'
    /\ UNCHANGED <<wire, delivered>>

StreamNext == arrive \/ shake_hands \/ keep_alive \/ deliver \/ give_up

StreamSpec == StreamInit /\ [][StreamNext]_streamVars
==============================================================================
