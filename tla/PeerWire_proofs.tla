--------------------------- MODULE PeerWire_proofs ---------------------------
(* The handler of a peer's bytes hands over whole messages only, for every    *)
(* length of the fields, every stream of bytes and every way to cut it.       *)
EXTENDS PeerWire, TLAPS

Flags == {"HANDSHAKE1", "HANDSHAKE2", "BITFIELD", "ESTABLISHED", "GOTLEN", "FAST", "DEAD"}
Shaking == {"HANDSHAKE1", "HANDSHAKE2"}
HandshakeLen == BT_INITIAL_LEN + HANDSHAKE2_LEN

\* The number in the length field at byte a of the stream.
length_at(a) == ntohl([k \in 0..(LENGTH_FIELD - 1) |-> wire[a + k]])

------------------------------------------------------------------------------
(* The inductive invariant.                                                   *)

\* The part of the stream that a buffer of len bytes is for, when c bytes were
\* consumed and r of them are in the buffer.
Place(st, len, r, c) ==
    \/ st = {"HANDSHAKE1"} /\ len = BT_INITIAL_LEN /\ c = r
    \/ st = {"HANDSHAKE2"} /\ len = HANDSHAKE2_LEN /\ c = BT_INITIAL_LEN + r
    \/ /\ st \cap Shaking = {} /\ "GOTLEN" \notin st
       /\ len = LENGTH_FIELD /\ c - r >= HandshakeLen
    \/ /\ st \cap Shaking = {} /\ "GOTLEN" \in st
       /\ c - r - LENGTH_FIELD >= HandshakeLen
       /\ len = length_at(c - r - LENGTH_FIELD)

\* A buffer that is being filled: as long as the peer lives, what is in it is the
\* stream from the buffer's place on.
Reading(st, msg, len, pending, c) ==
    /\ st \subseteq Flags /\ len \in Nat /\ pending \in 1..len /\ msg \in Buffer(len)
    /\ "DEAD" \in st => st \cap Shaking = {}
    /\ "DEAD" \notin st =>
         /\ \A k \in 0..(len - pending - 1) : msg[k] = wire[c - (len - pending) + k]
         /\ Place(st, len, len - pending, c)

\* Nothing is being read: before the first byte or between two messages.
Between ==
    /\ "DEAD" \in state => state \cap Shaking = {}
    /\ alive => \/ state = {"HANDSHAKE1"} /\ consumed = 0
                \/ state \cap Shaking = {} /\ consumed >= HandshakeLen

\* What the peer was told of our pieces, by what it was told of first.  As long as
\* it was told nothing, nothing was verified.
Known ==
    /\ had \subseteq good
    /\ first = "none" => told = {} /\ good = had
    /\ first = "HAVE" => told = good \ had
    /\ first = "BITFIELD" => told = good

WInv ==
    /\ WireTypeOK /\ Known
    /\ rxpending > 0 => Reading(state, rxmsg, rxmsglen, rxpending, consumed)
    /\ rxpending = 0 => Between
    /\ FastByTorrent /\ PeerKnows

------------------------------------------------------------------------------
(* The lengths.                                                               *)

\* The lengths the handlers allocate and wait for are at least one byte.
LEMMA Lengths ==
    /\ BT_INITIAL_LEN \in Nat /\ BT_INITIAL_LEN > 0 /\ LENGTH_FIELD \in Nat /\ LENGTH_FIELD > 0
    /\ HANDSHAKE2_LEN \in Nat /\ HANDSHAKE2_LEN > 0 /\ HandshakeLen \in Nat /\ HandshakeLen > 0
    /\ RESERVED \in Nat /\ RESERVED > 0 /\ HASH \in Nat /\ BT_INITIAL_LEN <= HASH
    /\ HANDSHAKE2_LEN >= RESERVED + HASH
  BY WireConstants DEF HANDSHAKE2_LEN, HandshakeLen

\* xmalloc() returns a buffer of the length asked for.
LEMMA Malloc ==
    ASSUME NEW n \in Nat
    PROVE  xmalloc(n) \in Buffer(n)
<1>1. garbage \in Byte
  BY WireConstants, Zenon DEF garbage
<1> QED
  BY <1>1 DEF xmalloc, Buffer

------------------------------------------------------------------------------
(* What the peer is told.                                                     *)

\* A HAVE keeps the peer's knowledge in step with the pieces.
LEMMA KnownHave ==
    ASSUME WireTypeOK, Known, NEW i \in Piece \ good, network_peer_write_have(i)
    PROVE  /\ Known' /\ first' \in {"HAVE", "BITFIELD"}
           /\ good' \subseteq Piece /\ had' \subseteq Piece /\ told' \subseteq Piece
<1>1. /\ good' = good \cup {i} /\ told' = told \cup {i} /\ had' = had
      /\ first' = IF first = "none" THEN "HAVE" ELSE first
  BY DEF network_peer_write_have
<1>2. first' \in {"HAVE", "BITFIELD"}
  BY <1>1 DEF WireTypeOK
<1>3. good' \subseteq Piece /\ had' \subseteq Piece /\ told' \subseteq Piece
  BY <1>1 DEF WireTypeOK
<1>4. had' \subseteq good' /\ i \notin had
  BY <1>1 DEF Known
<1>5. first' = "HAVE" => told' = good' \ had'
  BY <1>1, <1>4 DEF Known
<1>6. first' = "BITFIELD" => told' = good'
  BY <1>1 DEF Known
<1> QED
  BY <1>2, <1>3, <1>4, <1>5, <1>6 DEF Known

\* The bitfield tells a peer that expects one all there is to know.
LEMMA KnownBitfield ==
    ASSUME WireTypeOK, Known, NEW fast \in BOOLEAN, write_bitfield(fast), UNCHANGED <<good, had>>
    PROVE  /\ Known' /\ first' \in {"none", "HAVE", "BITFIELD"} /\ told' \subseteq Piece
           /\ told' = IF first' = "HAVE" THEN good' \ had' ELSE good'
<1>1. \/ good = {} /\ UNCHANGED <<told, first>>
      \/ expect_bitfield(good)
  BY DEF write_bitfield
<1>2. CASE good = {} /\ UNCHANGED <<told, first>>
  BY <1>2 DEF Known, WireTypeOK
<1>3. CASE first = "none" /\ expect_bitfield(good)
  BY <1>3 DEF Known, WireTypeOK, expect_bitfield
<1>4. CASE first # "none" /\ expect_bitfield(good)
  BY <1>4 DEF Known, WireTypeOK, expect_bitfield
<1> QED
  BY <1>1, <1>2, <1>3, <1>4

------------------------------------------------------------------------------
(* One call of the handler.                                                   *)

\* The buffer the call reads into, and where the stream goes on.
LEMMA NewBuffer ==
    ASSUME WInv
    PROVE  /\ Reading(new_buffer.st, new_buffer.msg, new_buffer.len, new_buffer.pending, consumed)
           /\ "DEAD" \in new_buffer.st <=> "DEAD" \in state
           /\ "FAST" \in new_buffer.st <=> "FAST" \in state
           /\ new_buffer.st \cap Shaking = state \cap Shaking
           /\ "DEAD" \notin new_buffer.st =>
                frame_start = consumed - ((new_buffer.len - new_buffer.pending)
                              + IF "HANDSHAKE2" \in new_buffer.st THEN BT_INITIAL_LEN
                                ELSE IF "GOTLEN" \in new_buffer.st THEN LENGTH_FIELD ELSE 0)
<1>1. CASE rxpending # 0
  <2>1. new_buffer = [st |-> state, msg |-> rxmsg, len |-> rxmsglen, pending |-> rxpending]
    BY <1>1 DEF new_buffer
  <2>2. Reading(state, rxmsg, rxmsglen, rxpending, consumed)
    BY <1>1 DEF WInv, WireTypeOK
  <2> QED
    BY <1>1, <2>1, <2>2 DEF frame_start
<1>2. CASE rxpending = 0 /\ "HANDSHAKE1" \in state
  <2>1. new_buffer = [st |-> state, msg |-> xmalloc(BT_INITIAL_LEN),
                      len |-> BT_INITIAL_LEN, pending |-> BT_INITIAL_LEN]
    BY <1>2 DEF new_buffer
  <2>2. state = {"HANDSHAKE1"} /\ consumed = 0
    BY <1>2 DEF WInv, Between, alive, Shaking
  <2>3. xmalloc(BT_INITIAL_LEN) \in Buffer(BT_INITIAL_LEN)
    BY Malloc, Lengths
  <2>4. Reading(state, xmalloc(BT_INITIAL_LEN), BT_INITIAL_LEN, BT_INITIAL_LEN, consumed)
    BY <2>2, <2>3, Lengths DEF Reading, Place, Flags
  <2> QED
    BY <1>2, <2>1, <2>2, <2>4, Lengths DEF frame_start
<1>3. CASE rxpending = 0 /\ "HANDSHAKE1" \notin state
  <2> DEFINE st == state \ {"GOTLEN"}
  <2>1. new_buffer = [st |-> st, msg |-> xmalloc(LENGTH_FIELD),
                      len |-> LENGTH_FIELD, pending |-> LENGTH_FIELD]
    BY <1>3 DEF new_buffer
  <2>2. state \cap Shaking = {} /\ (alive => consumed >= HandshakeLen)
    BY <1>3 DEF WInv, Between, alive
  <2>3. xmalloc(LENGTH_FIELD) \in Buffer(LENGTH_FIELD)
    BY Malloc, Lengths
  <2>4. st \subseteq Flags /\ consumed \in Nat
    BY DEF WInv, WireTypeOK, Flags
  <2>5. st \cap Shaking = {} /\ "GOTLEN" \notin st /\ "HANDSHAKE2" \notin st
        /\ ("DEAD" \in st <=> "DEAD" \in state) /\ ("FAST" \in st <=> "FAST" \in state)
    BY <2>2 DEF Shaking
  <2> HIDE DEF st
  <2>6. Reading(st, xmalloc(LENGTH_FIELD), LENGTH_FIELD, LENGTH_FIELD, consumed)
    BY <2>2, <2>3, <2>4, <2>5, Lengths DEF Reading, Place, alive
  <2>7. frame_start = consumed
    BY <1>3, <2>4 DEF frame_start
  <2> QED
    BY <2>1, <2>2, <2>4, <2>5, <2>6, <2>7, Lengths
<1> QED
  BY <1>1, <1>2, <1>3

\* The same in the next state.
LEMMA ReadingNext ==
    ASSUME NEW st, NEW msg, NEW len, NEW pending, NEW c, Reading(st, msg, len, pending, c),
           wire' = wire, state' = st, rxmsg' = msg, rxmsglen' = len, rxpending' = pending,
           consumed' = c
    PROVE  Reading(state, rxmsg, rxmsglen, rxpending, consumed)'
  BY DEF Reading, Place, length_at

\* What the buffer has after the read.
LEMMA ReadMore ==
    ASSUME WireTypeOK,
           NEW b, Reading(b.st, b.msg, b.len, b.pending, consumed),
           NEW n \in 1..b.pending, consumed + n <= arrived
    PROVE  /\ bufferevent_read(b, n) \in Buffer(b.len)
           /\ "DEAD" \notin b.st =>
                \A k \in 0..(b.len - b.pending + n - 1) :
                    bufferevent_read(b, n)[k] = wire[consumed - (b.len - b.pending) + k]
<1> DEFINE L == b.len
           P == b.pending
           M == b.msg
<1>1. L \in Nat /\ P \in 1..L /\ M \in [0..(L - 1) -> Byte] /\ n \in 1..P
  BY DEF Reading, Buffer
<1>2. /\ consumed \in Nat /\ arrived \in Nat /\ arrived <= MaxBytes /\ MaxBytes \in Nat
      /\ wire \in [0..(MaxBytes - 1) -> Byte]
  BY WireConstants DEF WireTypeOK
<1>3. bufferevent_read(b, n) =
        [k \in 0..(L - 1) |-> IF k \in (L - P)..(L - P + n - 1)
                              THEN wire[consumed + k - (L - P)] ELSE M[k]]
  BY DEF bufferevent_read
<1>4. "DEAD" \notin b.st => \A k \in 0..(L - P - 1) : M[k] = wire[consumed - (L - P) + k]
  BY DEF Reading
<1> HIDE DEF L, P, M
<1>5. \A k \in 0..(L - 1) : k \in (L - P)..(L - P + n - 1) =>
        consumed + k - (L - P) \in 0..(MaxBytes - 1) /\ consumed + k - (L - P) = consumed - (L - P) + k
  BY <1>1, <1>2
<1>6. bufferevent_read(b, n) \in [0..(L - 1) -> Byte]
  BY <1>1, <1>2, <1>3, <1>5
<1>7. ASSUME "DEAD" \notin b.st, NEW k \in 0..(L - P + n - 1)
      PROVE  bufferevent_read(b, n)[k] = wire[consumed - (L - P) + k]
  <2>1. k \in 0..(L - 1)
    BY <1>1
  <2>2. CASE k \in (L - P)..(L - P + n - 1)
    BY <1>3, <1>5, <2>1, <2>2
  <2>3. CASE k \notin (L - P)..(L - P + n - 1)
    <3>1. k \in 0..(L - P - 1)
      BY <1>1, <2>3
    <3> QED
      BY <1>3, <1>4, <1>7, <2>1, <2>3, <3>1
  <2> QED
    BY <2>2, <2>3
<1> QED
  BY <1>6, <1>7 DEF L, P, Buffer

\* Shorthand for what a step promises: the invariant goes on to hold, and the step
\* is one of the stream's, or none.
Promised == WInv' /\ (Framing!StreamNext \/ UNCHANGED Framing!streamVars)

\* A dead peer stays dead and is handed nothing: any such step gives it up.
LEMMA DeadStep ==
    ASSUME WInv, WireTypeOK', Known',
           UNCHANGED <<wire, delivered>>, "DEAD" \in state', state' \cap Shaking = {},
           rxpending' > 0 => rxmsg' \in Buffer(rxmsglen')
    PROVE  Promised
<1>1. Framing!give_up
  BY DEF Framing!give_up, alive
<1>2. FastByTorrent' /\ PeerKnows'
  BY DEF FastByTorrent, PeerKnows, shaken, alive
<1>3. rxpending' > 0 => Reading(state, rxmsg, rxmsglen, rxpending, consumed)'
  <2>1. state' \subseteq Flags /\ rxmsglen' \in Nat /\ (rxpending' > 0 => rxpending' \in 1..rxmsglen')
    BY DEF WireTypeOK, Flags
  <2> QED
    BY <2>1 DEF Reading
<1>4. Between'
  BY DEF Between, alive
<1> QED
  BY <1>1, <1>2, <1>3, <1>4 DEF Promised, WInv, Framing!StreamNext

\* The step of the handler, taken apart.
Call(b, n, msg) ==
    /\ b = new_buffer /\ n = Min(b.pending, arrived - consumed) /\ msg = bufferevent_read(b, n)
    /\ input /\ consumed' = consumed + n
    /\ UNCHANGED <<wire, info_hash, arrived>>

LEMMA CallFacts ==
    ASSUME WInv, NEW b, NEW n, NEW msg, Call(b, n, msg)
    PROVE  /\ Reading(b.st, b.msg, b.len, b.pending, consumed)
           /\ n \in 1..b.pending /\ consumed' \in 0..arrived' /\ arrived' \in 0..MaxBytes
           /\ wire' \in [0..(MaxBytes - 1) -> Byte] /\ info_hash' \in Buffer(HASH)
           /\ consumed \in Nat /\ arrived \in Nat
           /\ msg \in Buffer(b.len)
           /\ "DEAD" \notin b.st =>
                \A k \in 0..(b.len - b.pending + n - 1) :
                    msg[k] = wire[consumed - (b.len - b.pending) + k]
<1>1. Reading(b.st, b.msg, b.len, b.pending, consumed)
  BY NewBuffer DEF Call
<1>2. WireTypeOK /\ consumed \in Nat /\ arrived \in Nat /\ consumed < arrived
  BY WireConstants DEF WInv, WireTypeOK, Call, input
<1>3. b.pending \in Nat /\ b.pending > 0
  BY <1>1 DEF Reading
<1>4. n \in 1..b.pending /\ consumed + n <= arrived
  BY <1>2, <1>3 DEF Call, Min
<1>5. msg = bufferevent_read(b, n)
  BY DEF Call
<1>6. consumed' \in 0..arrived' /\ arrived' \in 0..MaxBytes
      /\ wire' \in [0..(MaxBytes - 1) -> Byte] /\ info_hash' \in Buffer(HASH)
  BY <1>2, <1>3, <1>4 DEF Call, WireTypeOK
<1> QED
  BY <1>1, <1>2, <1>4, <1>5, <1>6, ReadMore

\* The buffer is not full yet.
LEMMA IncompleteStep ==
    ASSUME WInv, NEW b, NEW n, NEW msg, Call(b, n, msg), incomplete(b, n, msg)
    PROVE  Promised
<1> DEFINE L == b.len
           P == b.pending
           st == b.st
<1>1. /\ state' = st /\ rxmsg' = msg /\ rxmsglen' = L /\ rxpending' = P - n /\ n < P
      /\ UNCHANGED <<delivered, good, had, told, first, wire, info_hash, arrived>>
      /\ consumed' = consumed + n
  BY DEF incomplete, return, Call, known
<1>2. /\ Reading(st, b.msg, L, P, consumed) /\ n \in 1..P /\ msg \in Buffer(L)
      /\ consumed' \in 0..arrived' /\ arrived' \in 0..MaxBytes /\ consumed \in Nat
      /\ wire' \in [0..(MaxBytes - 1) -> Byte] /\ info_hash' \in Buffer(HASH)
      /\ "DEAD" \notin st =>
            \A k \in 0..(L - P + n - 1) : msg[k] = wire[consumed - (L - P) + k]
  BY CallFacts
<1>3. /\ "DEAD" \in st <=> "DEAD" \in state
      /\ "FAST" \in st <=> "FAST" \in state
      /\ st \cap Shaking = state \cap Shaking
      /\ "DEAD" \notin st =>
            frame_start = consumed - ((L - P) + IF "HANDSHAKE2" \in st THEN BT_INITIAL_LEN
                                                ELSE IF "GOTLEN" \in st THEN LENGTH_FIELD ELSE 0)
  BY NewBuffer DEF Call
<1>4. /\ st \subseteq Flags /\ L \in Nat /\ P \in 1..L /\ P - n \in 1..L
      /\ L - (P - n) = L - P + n /\ consumed + n - (L - P + n) = consumed - (L - P)
      /\ "DEAD" \in st => st \cap Shaking = {}
      /\ "DEAD" \notin st => Place(st, L, L - P, consumed)
  <2>1. /\ st \subseteq Flags /\ L \in Nat /\ P \in 1..L
        /\ "DEAD" \in st => st \cap Shaking = {}
        /\ "DEAD" \notin st => Place(st, L, L - P, consumed)
    BY <1>2 DEF Reading
  <2> HIDE DEF L, P, st
  <2>2. /\ P - n \in 1..L /\ L - (P - n) = L - P + n
        /\ consumed + n - (L - P + n) = consumed - (L - P)
    BY <1>1, <1>2, <2>1, SMTT(30)
  <2> QED
    BY <2>1, <2>2
<1> HIDE DEF L, P, st
<1>5. "DEAD" \notin st => Place(st, L, L - P + n, consumed + n)
  BY <1>2, <1>4, Lengths DEF Place
<1>6. Reading(st, msg, L, P - n, consumed + n)
  <2> DEFINE Q == P - n
             c == consumed + n
  <2>1. c - (L - Q) = consumed - (L - P) /\ L - Q - 1 = L - P + n - 1 /\ L - Q = L - P + n
    BY <1>2, <1>4
  <2>2. st \subseteq Flags /\ L \in Nat /\ Q \in 1..L /\ msg \in Buffer(L)
    BY <1>2, <1>4
  <2>3. "DEAD" \notin st => Place(st, L, L - Q, c)
    BY <1>5, <2>1
  <2> HIDE DEF Q, c
  <2>4. "DEAD" \notin st => \A k \in 0..(L - Q - 1) : msg[k] = wire[c - (L - Q) + k]
    BY <1>2, <2>1
  <2>5. Reading(st, msg, L, Q, c)
    BY <1>4, <2>2, <2>3, <2>4 DEF Reading
  <2> QED
    BY <2>5 DEF Q, c
<1>7. Reading(state, rxmsg, rxmsglen, rxpending, consumed)'
  BY <1>1, <1>6, ReadingNext
<1>8. WireTypeOK' /\ Known'
  BY <1>1, <1>2, <1>4 DEF WInv, WireTypeOK, Flags, Known
<1>9. FastByTorrent' /\ PeerKnows'
  BY <1>1, <1>3 DEF WInv, FastByTorrent, PeerKnows, shaken, alive, Shaking
<1>10. rxpending' > 0
  BY <1>1, <1>4
<1>11. WInv'
  BY <1>7, <1>8, <1>9, <1>10 DEF WInv
<1>12. CASE "DEAD" \in st
  BY <1>1, <1>11, <1>12 DEF Promised, Framing!StreamNext, Framing!give_up, alive
<1>13. CASE "DEAD" \notin st
  <2>1. frame_start' = frame_start
    BY <1>1, <1>2, <1>3, <1>4, <1>13, Lengths DEF frame_start
  <2>2. alive /\ alive'
    BY <1>1, <1>3, <1>13 DEF alive
  <2>3. UNCHANGED Framing!streamVars
    BY <1>1, <2>1, <2>2 DEF Framing!streamVars
  <2> QED
    BY <1>11, <2>3 DEF Promised
<1> QED
  BY <1>12, <1>13

\* The first part of the handshake is complete.
LEMMA Handshake1Step ==
    ASSUME WInv, NEW b, NEW n, NEW msg, Call(b, n, msg), n = b.pending, handshake1(b, msg)
    PROVE  Promised
<1>1. /\ Reading(b.st, b.msg, b.len, b.pending, consumed) /\ msg \in Buffer(b.len)
      /\ consumed' \in 0..arrived' /\ arrived' \in 0..MaxBytes /\ consumed \in Nat
      /\ wire' \in [0..(MaxBytes - 1) -> Byte] /\ info_hash' \in Buffer(HASH)
  BY CallFacts
<1>2. /\ consumed' = consumed + b.pending
      /\ UNCHANGED <<wire, info_hash, arrived, delivered, good, had, told, first>>
  BY DEF Call, handshake1, known
<1>3. "HANDSHAKE1" \in b.st /\ "DEAD" \notin b.st
  BY <1>1 DEF handshake1, Reading, Shaking
<1>4. /\ b.st = {"HANDSHAKE1"} /\ b.len = BT_INITIAL_LEN /\ b.pending \in 1..b.len
      /\ consumed = b.len - b.pending
  BY <1>1, <1>3 DEF Reading, Place, Shaking
<1>5. /\ good \subseteq Piece /\ had \subseteq Piece /\ told \subseteq Piece
      /\ first \in {"none", "HAVE", "BITFIELD"} /\ Known
  BY DEF WInv, WireTypeOK
<1>6. CASE msg = Pstr
  <2>1. /\ state' = {"HANDSHAKE2"} /\ rxmsg' = xmalloc(HANDSHAKE2_LEN)
        /\ rxmsglen' = HANDSHAKE2_LEN /\ rxpending' = HANDSHAKE2_LEN
    <3>1. ({"HANDSHAKE1"} \ {"HANDSHAKE1"}) \cup {"HANDSHAKE2"} = {"HANDSHAKE2"}
      OBVIOUS
    <3> QED
      BY <1>3, <1>4, <1>6, <3>1 DEF handshake1, return
  <2>2. consumed' = BT_INITIAL_LEN
    BY <1>1, <1>2, <1>4, Lengths
  <2>3. xmalloc(HANDSHAKE2_LEN) \in Buffer(HANDSHAKE2_LEN)
    BY Malloc, Lengths
  <2>4. Reading(state, rxmsg, rxmsglen, rxpending, consumed)'
    BY <2>1, <2>2, <2>3, Lengths DEF Reading, Place, Flags
  <2>5. WireTypeOK' /\ Known'
    BY <1>1, <1>2, <1>5, <2>1, Lengths DEF WireTypeOK, Known
  <2>6. FastByTorrent' /\ PeerKnows'
    BY <2>1 DEF FastByTorrent, PeerKnows, shaken
  <2>7. WInv'
    BY <2>1, <2>4, <2>5, <2>6, Lengths DEF WInv
  <2>8. frame_start = 0 /\ alive
    BY <1>1, <1>3, <1>4, NewBuffer, Lengths DEF Call, alive
  <2>9. frame_start' = 0 /\ alive'
    BY <2>1, <2>2, Lengths DEF frame_start, alive
  <2> QED
    BY <1>2, <2>7, <2>8, <2>9 DEF Promised, Framing!streamVars
<1>7. CASE msg # Pstr
  <2>1. state' = {"DEAD"} /\ rxmsg' = msg /\ rxmsglen' = b.len /\ rxpending' = 0
    BY <1>7 DEF handshake1, return
  <2>2. WireTypeOK'
    BY <1>1, <1>2, <1>4, <1>5, <2>1, Lengths DEF WireTypeOK
  <2>3. Known'
    BY <1>2, <1>5 DEF Known
  <2> QED
    BY <1>2, <2>1, <2>2, <2>3, DeadStep DEF Shaking
<1> QED
  BY <1>6, <1>7

\* The second part of the handshake is complete: the place of the fast bit is one
\* of the info hash, and the peer learns which pieces we have.
LEMMA Handshake2Step ==
    ASSUME WInv, NEW b, NEW n, NEW msg, Call(b, n, msg), n = b.pending, handshake2(b, msg)
    PROVE  Promised
<1>1. /\ Reading(b.st, b.msg, b.len, b.pending, consumed) /\ msg \in Buffer(b.len)
      /\ consumed' \in 0..arrived' /\ arrived' \in 0..MaxBytes /\ consumed \in Nat
      /\ wire' \in [0..(MaxBytes - 1) -> Byte] /\ info_hash' \in Buffer(HASH)
  BY CallFacts
<1>2. consumed' = consumed + b.pending /\ UNCHANGED <<wire, info_hash, arrived, delivered, good, had>>
  BY DEF Call, handshake2
<1>3. "HANDSHAKE2" \in b.st /\ "DEAD" \notin b.st
  BY <1>1 DEF handshake2, Reading, Shaking
<1>4. /\ b.st = {"HANDSHAKE2"} /\ b.len = HANDSHAKE2_LEN /\ b.pending \in 1..b.len
      /\ consumed = BT_INITIAL_LEN + (b.len - b.pending)
  BY <1>1, <1>3 DEF Reading, Place, Shaking
<1>5. /\ good \subseteq Piece /\ had \subseteq Piece /\ told \subseteq Piece
      /\ first \in {"none", "HAVE", "BITFIELD"} /\ Known
  BY DEF WInv, WireTypeOK
<1>6. consumed' = HandshakeLen
  BY <1>1, <1>2, <1>4, Lengths DEF HandshakeLen
<1>7. CASE [k \in 0..(HASH - 1) |-> msg[RESERVED + k]] = info_hash
  <2> DEFINE fast == fast_bit(msg)
             st == {"BITFIELD"} \cup (IF fast THEN {"FAST"} ELSE {})
  <2>1. state' = st /\ rxmsg' = NULL /\ rxmsglen' = b.len /\ rxpending' = 0 /\ write_bitfield(fast)
    <3>1. ({"HANDSHAKE2"} \ {"HANDSHAKE2"}) \cup {"BITFIELD"} = {"BITFIELD"}
      OBVIOUS
    <3> QED
      BY <1>4, <1>7, <3>1 DEF handshake2, return
  <2>2. fast <=> info_hash[BT_INITIAL_LEN - 1] \in FastBytes
    <3>1. BT_INITIAL_LEN - 1 \in 0..(HASH - 1) /\ FAST_OFFSET = RESERVED + (BT_INITIAL_LEN - 1)
      BY Lengths DEF FAST_OFFSET
    <3>2. info_hash[BT_INITIAL_LEN - 1] = msg[FAST_OFFSET]
      BY <1>7, <3>1
    <3> QED
      BY <3>2 DEF fast_bit
  <2>3. /\ Known' /\ first' \in {"none", "HAVE", "BITFIELD"} /\ told' \subseteq Piece
        /\ told' = IF first' = "HAVE" THEN good' \ had' ELSE good'
    <3>1. fast \in BOOLEAN /\ WireTypeOK
      BY DEF fast_bit, WInv
    <3> QED
      BY <1>2, <1>5, <2>1, <3>1, KnownBitfield
  <2>4. "DEAD" \notin st /\ st \cap Shaking = {} /\ ("FAST" \in st <=> fast) /\ st \subseteq Flags
    BY DEF Shaking, Flags
  <2> HIDE DEF st, fast
  <2>5. WireTypeOK' /\ Known'
    BY <1>1, <1>2, <1>4, <1>5, <2>1, <2>3, <2>4, Lengths DEF WireTypeOK, Flags
  <2>6. Between' /\ alive'
    BY <1>6, <2>1, <2>4, Lengths DEF Between, alive
  <2>7. FastByTorrent' /\ PeerKnows'
    BY <1>2, <2>1, <2>2, <2>3, <2>4 DEF FastByTorrent, PeerKnows, shaken
  <2>8. WInv'
    BY <2>1, <2>5, <2>6, <2>7 DEF WInv
  <2>9. frame_start = 0 /\ alive
    BY <1>1, <1>3, <1>4, NewBuffer, Lengths DEF Call, alive
  <2>10. frame_start' = HandshakeLen
    BY <1>6, <2>1, Lengths DEF frame_start
  <2>11. HandshakeLen <= arrived
    BY <1>1, <1>2, <1>6, Lengths
  <2>12. Framing!shake_hands
    BY <1>2, <2>6, <2>9, <2>10, <2>11 DEF Framing!shake_hands, HandshakeLen
  <2> QED
    BY <2>8, <2>12 DEF Promised, Framing!StreamNext
<1>8. CASE [k \in 0..(HASH - 1) |-> msg[RESERVED + k]] # info_hash
  <2>1. state' = {"DEAD"} /\ rxmsg' = msg /\ rxmsglen' = b.len /\ rxpending' = 0
        /\ UNCHANGED <<told, first>>
    BY <1>8 DEF handshake2, return
  <2>2. WireTypeOK'
    BY <1>1, <1>2, <1>4, <1>5, <2>1, Lengths DEF WireTypeOK
  <2>3. Known'
    BY <1>2, <1>5, <2>1 DEF Known
  <2> QED
    BY <1>2, <2>1, <2>2, <2>3, DeadStep DEF Shaking
<1> QED
  BY <1>7, <1>8

\* A length field is complete.
LEMMA GotLengthStep ==
    ASSUME WInv, NEW b, NEW n, NEW msg, Call(b, n, msg), n = b.pending, got_length(b, msg)
    PROVE  Promised
<1> DEFINE st == b.st
<1>1. /\ Reading(st, b.msg, b.len, b.pending, consumed) /\ msg \in Buffer(b.len)
      /\ consumed' \in 0..arrived' /\ arrived' \in 0..MaxBytes /\ consumed \in Nat
      /\ wire' \in [0..(MaxBytes - 1) -> Byte] /\ info_hash' \in Buffer(HASH)
      /\ "DEAD" \notin st =>
            \A k \in 0..(b.len - b.pending + n - 1) : msg[k] = wire[consumed - (b.len - b.pending) + k]
  BY CallFacts
<1>2. /\ consumed' = consumed + b.pending
      /\ UNCHANGED <<wire, info_hash, arrived, delivered, good, had, told, first>>
      /\ st \cap Shaking = {} /\ "GOTLEN" \notin st
  BY DEF Call, got_length, Shaking, known
<1>3. st \subseteq Flags /\ b.len \in Nat /\ b.pending \in 1..b.len
  BY <1>1 DEF Reading
<1>4. PICK f \in length_fields(msg, b.len) :
        IF ntohl(f) > MAX_MESSAGE_LEN THEN return({"DEAD"}, msg, ntohl(f), 0)
        ELSE return(st \cup {"GOTLEN"}, IF ntohl(f) = 0 THEN NULL ELSE xmalloc(ntohl(f)),
                    ntohl(f), ntohl(f))
  BY DEF got_length
<1>5. ntohl(f) \in Nat
  <2>1. f \in Buffer(LENGTH_FIELD)
    <3>1. CASE b.len >= LENGTH_FIELD
      <4>1. f = [k \in 0..(LENGTH_FIELD - 1) |-> msg[k]]
        BY <3>1 DEF length_fields
      <4>2. \A k \in 0..(LENGTH_FIELD - 1) : k \in 0..(b.len - 1)
        BY <1>3, <3>1, Lengths
      <4>3. \A k \in 0..(LENGTH_FIELD - 1) : msg[k] \in Byte
        BY <1>1, <4>2 DEF Buffer
      <4> QED
        BY <4>1, <4>3 DEF Buffer
    <3>2. CASE ~ (b.len >= LENGTH_FIELD)
      BY <3>2 DEF length_fields
    <3> QED
      BY <3>1, <3>2
  <2> QED
    BY <2>1, WireConstants
<1>6. /\ good \subseteq Piece /\ had \subseteq Piece /\ told \subseteq Piece
      /\ first \in {"none", "HAVE", "BITFIELD"} /\ Known
  BY DEF WInv, WireTypeOK
<1>7. xmalloc(ntohl(f)) \in Buffer(ntohl(f))
  BY <1>5, Malloc
<1>8. /\ "DEAD" \in st <=> "DEAD" \in state
      /\ "FAST" \in st <=> "FAST" \in state
      /\ st \cap Shaking = state \cap Shaking
      /\ "DEAD" \notin st =>
            frame_start = consumed - ((b.len - b.pending)
                          + IF "HANDSHAKE2" \in st THEN BT_INITIAL_LEN
                            ELSE IF "GOTLEN" \in st THEN LENGTH_FIELD ELSE 0)
  BY NewBuffer DEF Call
<1> HIDE DEF st
<1>9. CASE ntohl(f) > MAX_MESSAGE_LEN
  <2>1. state' = {"DEAD"} /\ rxmsg' = msg /\ rxmsglen' = ntohl(f) /\ rxpending' = 0
    BY <1>4, <1>9 DEF return
  <2>2. WireTypeOK'
    BY <1>1, <1>2, <1>5, <1>6, <2>1 DEF WireTypeOK
  <2>3. Known'
    BY <1>2, <1>6 DEF Known
  <2> QED
    BY <1>2, <2>1, <2>2, <2>3, DeadStep DEF Shaking
<1>10. CASE ~ (ntohl(f) > MAX_MESSAGE_LEN)
  <2> DEFINE st2 == st \cup {"GOTLEN"}
  <2>1. /\ state' = st2 /\ rxmsglen' = ntohl(f) /\ rxpending' = ntohl(f)
        /\ rxpending' > 0 => rxmsg' \in Buffer(rxmsglen')
    BY <1>4, <1>5, <1>7, <1>10 DEF return
  <2>2. /\ st2 \cap Shaking = {} /\ st2 \subseteq Flags /\ "GOTLEN" \in st2 /\ "HANDSHAKE2" \notin st2
        /\ ("DEAD" \in st2 <=> "DEAD" \in st) /\ ("FAST" \in st2 <=> "FAST" \in st)
    BY <1>2, <1>3 DEF Shaking, Flags
  <2> HIDE DEF st2
  <2>3. WireTypeOK' /\ Known'
    BY <1>1, <1>2, <1>5, <1>6, <2>1, <2>2 DEF WireTypeOK, Flags, Known
  <2>4. CASE "DEAD" \in st
    BY <1>2, <2>1, <2>2, <2>3, <2>4, DeadStep
  <2>5. CASE "DEAD" \notin st
    <3> DEFINE a == consumed - (b.len - b.pending)
    <3>1. b.len = LENGTH_FIELD /\ a >= HandshakeLen /\ a \in Int
      <4>1. Place(st, b.len, b.len - b.pending, consumed)
        BY <1>1, <2>5 DEF Reading
      <4>2. st # {"HANDSHAKE1"} /\ st # {"HANDSHAKE2"}
        BY <1>2 DEF Shaking
      <4> QED
        BY <1>1, <1>2, <1>3, <4>1, <4>2 DEF Place
    <3>2. consumed' = a + LENGTH_FIELD /\ a + LENGTH_FIELD <= arrived
      BY <1>1, <1>2, <1>3, <3>1
    <3>3. f = [k \in 0..(LENGTH_FIELD - 1) |-> wire[a + k]]
      <4>1. f = [k \in 0..(LENGTH_FIELD - 1) |-> msg[k]]
        BY <3>1, Lengths DEF length_fields
      <4>2. \A k \in 0..(LENGTH_FIELD - 1) : msg[k] = wire[a + k]
        <5>1. b.len - b.pending + n - 1 = LENGTH_FIELD - 1
          BY <1>3, <3>1, Lengths
        <5> QED
          BY <1>1, <2>5, <5>1
      <4> QED
        BY <4>1, <4>2
    <3>4. frame_start = a
      BY <1>1, <1>2, <1>3, <1>8, <2>5, <3>1 DEF Shaking
    <3>5. alive /\ alive' /\ "DEAD" \notin st2
      BY <1>8, <2>1, <2>2, <2>5 DEF alive
    <3>6. FastByTorrent' /\ PeerKnows'
      BY <1>2, <1>8, <2>1, <2>2 DEF WInv, FastByTorrent, PeerKnows, shaken, alive, Shaking
    <3> HIDE DEF a
    <3>7. length_at(a) = ntohl(f)
      BY <3>3 DEF length_at
    <3>8. CASE ntohl(f) = 0
      <4>1. Between'
        BY <2>1, <2>2, <3>1, <3>2, <3>5, Lengths DEF Between, alive
      <4>2. WInv'
        BY <2>1, <2>3, <3>6, <3>8, <4>1 DEF WInv
      <4>3. frame_start' = a + LENGTH_FIELD
        BY <2>1, <3>1, <3>2, <3>8, Lengths DEF frame_start
      <4>4. Framing!length(a) = 0
        BY <3>7, <3>8 DEF Framing!length, Framing!bytes, length_at
      <4>5. Framing!keep_alive
        BY <1>2, <3>1, <3>2, <3>4, <3>5, <4>3, <4>4, Lengths DEF Framing!keep_alive
      <4> QED
        BY <4>2, <4>5 DEF Promised, Framing!StreamNext
    <3>9. CASE ntohl(f) # 0
      <4> DEFINE c == a + LENGTH_FIELD
      <4>1. ntohl(f) \in 1..ntohl(f) /\ c - 0 - LENGTH_FIELD = a /\ ntohl(f) - ntohl(f) = 0
        BY <1>5, <3>1, <3>9, Lengths
      <4>2. Place(st2, ntohl(f), 0, c)
        BY <2>2, <3>1, <3>7, <4>1 DEF Place
      <4> HIDE DEF c
      <4>3. Reading(st2, rxmsg', ntohl(f), ntohl(f), c)
        BY <1>5, <2>1, <2>2, <4>1, <4>2 DEF Reading
      <4>4. Reading(state, rxmsg, rxmsglen, rxpending, consumed)'
        BY <1>2, <2>1, <3>2, <4>3, ReadingNext DEF c
      <4>5. WInv'
        BY <1>5, <2>1, <2>3, <3>6, <3>9, <4>4 DEF WInv
      <4>6. frame_start' = a
        BY <1>5, <2>1, <2>2, <3>1, <3>2, <3>9, Lengths DEF frame_start
      <4> QED
        BY <1>2, <3>4, <3>5, <4>5, <4>6 DEF Promised, Framing!streamVars
    <3> QED
      BY <3>8, <3>9
  <2> QED
    BY <2>4, <2>5
<1> QED
  BY <1>9, <1>10

\* A message is complete.
LEMMA WholeMessageStep ==
    ASSUME WInv, NEW b, NEW n, NEW msg, Call(b, n, msg), n = b.pending, whole_message(b, msg)
    PROVE  Promised
<1> DEFINE st == b.st
<1>1. /\ Reading(st, b.msg, b.len, b.pending, consumed) /\ msg \in Buffer(b.len)
      /\ consumed' \in 0..arrived' /\ arrived' \in 0..MaxBytes /\ consumed \in Nat
      /\ wire' \in [0..(MaxBytes - 1) -> Byte] /\ info_hash' \in Buffer(HASH)
      /\ "DEAD" \notin st =>
            \A k \in 0..(b.len - b.pending + n - 1) : msg[k] = wire[consumed - (b.len - b.pending) + k]
  BY CallFacts
<1>2. /\ consumed' = consumed + b.pending /\ UNCHANGED <<wire, info_hash, arrived>>
      /\ st \cap Shaking = {} /\ "GOTLEN" \in st
      /\ delivered' = IF "DEAD" \in st THEN delivered ELSE Append(delivered, msg)
  BY DEF Call, whole_message, Shaking
<1>3. st \subseteq Flags /\ b.len \in Nat /\ b.pending \in 1..b.len
  BY <1>1 DEF Reading
<1>4. /\ state' \in {st, established(st), {"DEAD"}} /\ rxmsg' = NULL /\ rxmsglen' = b.len /\ rxpending' = 0
      /\ \/ UNCHANGED <<good, had, told, first>>
         \/ \E i \in Piece \ good : network_peer_write_have(i)
  BY DEF whole_message, return, known
<1>5. /\ good' \subseteq Piece /\ had' \subseteq Piece /\ told' \subseteq Piece
      /\ first' \in {"none", "HAVE", "BITFIELD"} /\ Known'
      /\ first' = "none" => UNCHANGED <<good, told, first>>
  <2>1. CASE UNCHANGED <<good, had, told, first>>
    BY <2>1 DEF WInv, WireTypeOK, Known
  <2>2. CASE \E i \in Piece \ good : network_peer_write_have(i)
    BY <2>2, KnownHave DEF WInv
  <2> QED
    BY <1>4, <2>1, <2>2
<1>6. /\ state' \cap Shaking = {} /\ state' \subseteq Flags
      /\ "DEAD" \in st => "DEAD" \in state'
      /\ "DEAD" \notin state' => ("FAST" \in state' <=> "FAST" \in st)
  BY <1>2, <1>3, <1>4 DEF established, Shaking, Flags
<1>7. /\ "DEAD" \in st <=> "DEAD" \in state
      /\ "FAST" \in st <=> "FAST" \in state
      /\ st \cap Shaking = state \cap Shaking
      /\ "DEAD" \notin st =>
            frame_start = consumed - ((b.len - b.pending)
                          + IF "HANDSHAKE2" \in st THEN BT_INITIAL_LEN
                            ELSE IF "GOTLEN" \in st THEN LENGTH_FIELD ELSE 0)
  BY NewBuffer DEF Call
<1> HIDE DEF st
<1>8. WireTypeOK'
  BY <1>1, <1>3, <1>4, <1>5, <1>6 DEF WireTypeOK, Flags
<1>9. CASE "DEAD" \in st
  BY <1>2, <1>4, <1>5, <1>6, <1>8, <1>9, DeadStep
<1>10. CASE "DEAD" \notin st
  <2> DEFINE a == consumed - (b.len - b.pending) - LENGTH_FIELD
  <2>1. a >= HandshakeLen /\ a \in Int /\ b.len = length_at(a)
    <3>1. Place(st, b.len, b.len - b.pending, consumed)
      BY <1>1, <1>10 DEF Reading
    <3>2. st # {"HANDSHAKE1"} /\ st # {"HANDSHAKE2"}
      BY <1>2 DEF Shaking
    <3> QED
      BY <1>1, <1>2, <1>3, <3>1, <3>2, Lengths DEF Place
  <2>2. consumed' = a + LENGTH_FIELD + b.len /\ a + LENGTH_FIELD + b.len <= arrived
    BY <1>1, <1>2, <1>3, Lengths, SMTT(30)
  <2>3. msg = [k \in 0..(b.len - 1) |-> wire[a + LENGTH_FIELD + k]]
    <3>1. b.len - b.pending + n - 1 = b.len - 1 /\ consumed - (b.len - b.pending) = a + LENGTH_FIELD
      BY <1>1, <1>3, Lengths
    <3>2. \A k \in 0..(b.len - 1) : msg[k] = wire[a + LENGTH_FIELD + k]
      BY <1>1, <1>10, <3>1
    <3> QED
      BY <1>1, <3>2 DEF Buffer
  <2>4. frame_start = a /\ alive
    BY <1>1, <1>2, <1>3, <1>7, <1>10, Lengths DEF Shaking, alive
  <2> HIDE DEF a
  <2>5. Framing!length(a) = b.len
    BY <2>1 DEF Framing!length, Framing!bytes, length_at
  <2>6. Framing!bytes(a + LENGTH_FIELD, b.len) = msg
    BY <2>3 DEF Framing!bytes
  <2>7. alive' => frame_start' = a + LENGTH_FIELD + b.len
    BY <1>3, <1>4, <2>1, <2>2, Lengths DEF frame_start
  <2>8. Framing!deliver
    <3>1. delivered' = Append(delivered,
                          Framing!bytes(frame_start + LENGTH_FIELD, Framing!length(frame_start)))
      BY <1>2, <1>10, <2>4, <2>5, <2>6, Zenon
    <3>2. /\ a > 0 /\ a + LENGTH_FIELD <= arrived /\ b.len > 0
          /\ a + LENGTH_FIELD + b.len <= arrived
      BY <1>1, <1>2, <1>3, <2>1, <2>2, Lengths
    <3>3. /\ frame_start > 0 /\ frame_start + LENGTH_FIELD <= arrived
          /\ Framing!length(frame_start) > 0
          /\ frame_start + LENGTH_FIELD + Framing!length(frame_start) <= arrived
          /\ alive' => frame_start' = frame_start + LENGTH_FIELD + Framing!length(frame_start)
      BY <2>4, <2>5, <2>7, <3>2
    <3> QED
      BY <1>2, <2>4, <3>1, <3>3, Zenon DEF Framing!deliver
  <2>9. Between'
    BY <1>3, <1>6, <2>1, <2>2, Lengths DEF Between
  <2>10. FastByTorrent' /\ PeerKnows'
    <3>1. state \cap Shaking = {} /\ alive
      BY <1>2, <1>7, <2>4
    <3>2. (first = "none" => told = good) /\ ("FAST" \in state <=> info_hash[BT_INITIAL_LEN - 1] \in FastBytes)
      BY <3>1 DEF WInv, FastByTorrent, PeerKnows, shaken, Shaking
    <3>3. told' = IF first' = "HAVE" THEN good' \ had' ELSE good'
      BY <1>5, <3>2 DEF Known
    <3> QED
      BY <1>2, <1>6, <1>7, <3>2, <3>3 DEF FastByTorrent, PeerKnows, shaken, alive
  <2>11. WInv'
    BY <1>4, <1>5, <1>8, <2>9, <2>10 DEF WInv
  <2> QED
    BY <2>8, <2>11 DEF Promised, Framing!StreamNext
<1> QED
  BY <1>9, <1>10

\* One call of the handler.
LEMMA HandlerStep ==
    ASSUME WInv, network_handle_peer_response
    PROVE  Promised
<1> DEFINE b == new_buffer
           n == Min(b.pending, arrived - consumed)
           msg == bufferevent_read(b, n)
<1>1. Call(b, n, msg)
  BY DEF Call, network_handle_peer_response
<1>2. \/ incomplete(b, n, msg)
      \/ n = b.pending /\ handshake1(b, msg)
      \/ n = b.pending /\ handshake2(b, msg)
      \/ n = b.pending /\ got_length(b, msg)
      \/ n = b.pending /\ whole_message(b, msg)
  BY DEF network_handle_peer_response
<1> HIDE DEF b, n, msg
<1> QED
  BY <1>1, <1>2, IncompleteStep, Handshake1Step, Handshake2Step, GotLengthStep, WholeMessageStep

------------------------------------------------------------------------------
(* Events between two calls, and the start.                                   *)

\* Bytes arrive, the peer is killed, or a piece is completed by another peer.
LEMMA EventStep ==
    ASSUME WInv, (\E n \in 1..MaxBytes : chunk(n)) \/ killed \/ (\E i \in Piece : piece_completed(i))
    PROVE  Promised
<1>1. UNCHANGED <<wire, info_hash, consumed, rxmsg, rxmsglen, rxpending, delivered>>
  BY DEF chunk, killed, piece_completed, rx
<1>2. WireTypeOK /\ Known
  BY DEF WInv
<1>3. CASE \E n \in 1..MaxBytes : chunk(n)
  <2>1. UNCHANGED <<state, good, had, told, first>> /\ arrived' \in 0..MaxBytes /\ arrived' >= arrived
    BY <1>2, <1>3, WireConstants DEF chunk, rx, known, WireTypeOK
  <2>2. WireTypeOK'
    BY <1>1, <1>2, <2>1 DEF WireTypeOK
  <2>3. FastByTorrent' /\ PeerKnows' /\ (Between => Between') /\ Known'
    BY <1>1, <2>1 DEF WInv, FastByTorrent, PeerKnows, Between, shaken, alive, Known
  <2>4. rxpending' > 0 => Reading(state, rxmsg, rxmsglen, rxpending, consumed)'
    BY <1>1, <2>1, ReadingNext DEF WInv
  <2>5. WInv'
    BY <1>1, <1>2, <2>1, <2>2, <2>3, <2>4 DEF WInv
  <2>6. frame_start' = frame_start /\ alive' = alive
    BY <1>1, <2>1 DEF frame_start, alive
  <2> QED
    BY <1>1, <2>1, <2>5, <2>6 DEF Promised, Framing!StreamNext, Framing!arrive
<1>4. CASE killed
  <2>1. state' = {"DEAD"} /\ UNCHANGED <<arrived, good, had, told, first>>
    BY <1>4 DEF killed, known
  <2>2. WireTypeOK'
    BY <1>1, <1>2, <2>1 DEF WireTypeOK
  <2>3. rxpending > 0 => rxmsg \in Buffer(rxmsglen)
    BY DEF WInv, Reading
  <2>4. Known'
    BY <1>2, <2>1 DEF Known
  <2> QED
    BY <1>1, <2>1, <2>2, <2>3, <2>4, DeadStep DEF Shaking
<1>5. CASE \E i \in Piece : piece_completed(i)
  <2>1. PICK i \in Piece \ good : network_peer_write_have(i)
    BY <1>5 DEF piece_completed
  <2>2. UNCHANGED <<state, arrived>>
    BY <1>5 DEF piece_completed, rx
  <2>3. WireTypeOK' /\ Known' /\ first' \in {"HAVE", "BITFIELD"}
    <3>1. /\ Known' /\ first' \in {"HAVE", "BITFIELD"}
          /\ good' \subseteq Piece /\ had' \subseteq Piece /\ told' \subseteq Piece
      BY <1>2, <2>1, KnownHave
    <3> QED
      BY <1>1, <1>2, <2>2, <3>1 DEF WireTypeOK
  <2>4. FastByTorrent' /\ PeerKnows' /\ (Between => Between')
    <3>1. told' = IF first' = "HAVE" THEN good' \ had' ELSE good'
      BY <2>3 DEF Known
    <3> QED
      BY <1>1, <2>2, <3>1 DEF WInv, FastByTorrent, PeerKnows, Between, shaken, alive
  <2>5. rxpending' > 0 => Reading(state, rxmsg, rxmsglen, rxpending, consumed)'
    BY <1>1, <2>2, ReadingNext DEF WInv
  <2>6. WInv'
    BY <1>1, <2>3, <2>4, <2>5 DEF WInv
  <2>7. frame_start' = frame_start /\ alive' = alive
    BY <1>1, <2>2 DEF frame_start, alive
  <2> QED
    BY <1>1, <2>2, <2>6, <2>7 DEF Promised, Framing!streamVars
<1> QED
  BY <1>3, <1>4, <1>5

\* Before the first byte.
LEMMA WireInit == Init => WInv /\ Framing!StreamInit
<1> SUFFICES ASSUME Init PROVE WInv /\ Framing!StreamInit
  OBVIOUS
<1>1. WireTypeOK /\ Known
  BY WireConstants DEF Init, WireTypeOK, Known
<1>2. Between /\ FastByTorrent /\ PeerKnows /\ rxpending = 0 /\ alive
  BY DEF Init, Between, FastByTorrent, PeerKnows, shaken, alive
<1>3. frame_start = 0
  BY DEF Init, frame_start
<1> QED
  BY <1>1, <1>2, <1>3 DEF Init, WInv, Framing!StreamInit

\* Every step keeps the invariant and is a step of the stream, or none.
LEMMA WireNext ==
    WInv /\ [Next]_vars => WInv' /\ [Framing!StreamNext]_(Framing!streamVars)
<1> SUFFICES ASSUME WInv, [Next]_vars
             PROVE  WInv' /\ (Framing!StreamNext \/ UNCHANGED Framing!streamVars)
  OBVIOUS
<1>1. CASE UNCHANGED vars
  <2>1. /\ UNCHANGED <<wire, info_hash, arrived, consumed, state, rxmsg, rxmsglen, rxpending>>
        /\ UNCHANGED <<delivered, good, had, told, first>>
    BY <1>1 DEF vars, rx, known
  <2>2. WireTypeOK' /\ FastByTorrent' /\ PeerKnows' /\ (Between => Between') /\ Known'
    BY <2>1 DEF WInv, WireTypeOK, FastByTorrent, PeerKnows, Between, shaken, alive, Known
  <2>3. rxpending' > 0 => Reading(state, rxmsg, rxmsglen, rxpending, consumed)'
    BY <2>1, ReadingNext DEF WInv
  <2>4. WInv'
    BY <2>1, <2>2, <2>3 DEF WInv
  <2>5. UNCHANGED Framing!streamVars
    BY <2>1 DEF Framing!streamVars, frame_start, alive
  <2> QED
    BY <2>4, <2>5
<1>2. CASE Next
  BY <1>2, HandlerStep, EventStep DEF Next, Promised
<1> QED
  BY <1>1, <1>2

\* The invariant holds throughout.
LEMMA WireInvariant == Spec => []WInv
  BY WireInit, WireNext, PTL DEF Spec

------------------------------------------------------------------------------
(* What follows.                                                              *)

\* The handler implements the stream of whole messages: for all lengths of the
\* fields, all bytes a peer may send, all ways to cut them into reads, and
\* wherever the peer is killed, no message is lost, repeated, split or reordered.
THEOREM WireFraming == Spec => FramingSpec
<1>1. Init => WInv /\ Framing!StreamInit
  BY WireInit
<1>2. WInv /\ [Next]_vars => WInv' /\ [Framing!StreamNext]_(Framing!streamVars)
  BY WireNext
<1> QED
  BY <1>1, <1>2, PTL DEF Spec, FramingSpec, Framing!StreamSpec

\* The buffer has room for what bufferevent_read() is asked to put there, whatever
\* lengths the peer announces and whenever it is killed.
THEOREM WireBuffer == Spec => [](WireTypeOK /\ BufferFits)
<1>1. WInv => WireTypeOK /\ BufferFits
  BY DEF WInv, BufferFits, Reading
<1> QED
  BY <1>1, WireInvariant, PTL

\* When the handler returns there is no whole message left in the input buffer.
THEOREM WireNothingHeldBack == Spec => []NothingHeldBack
<1>1. ASSUME WInv PROVE NothingHeldBack
  <2> SUFFICES ASSUME alive, ~ input
               PROVE  IF state \cap {"HANDSHAKE1", "HANDSHAKE2"} # {}
                      THEN arrived < BT_INITIAL_LEN + HANDSHAKE2_LEN
                      ELSE frame_start + LENGTH_FIELD <= arrived
                           => arrived < frame_start + LENGTH_FIELD + Framing!length(frame_start)
    BY DEF NothingHeldBack
  <2>1. arrived = consumed /\ consumed \in Nat /\ rxmsglen \in Nat /\ rxpending \in 0..rxmsglen
    BY <1>1, WireConstants DEF input, WInv, WireTypeOK
  <2>2. CASE rxpending = 0
    <3>1. frame_start = consumed
      BY <2>1, <2>2 DEF frame_start
    <3>2. Between
      BY <1>1, <2>2 DEF WInv
    <3> QED
      BY <2>1, <3>1, <3>2, Lengths DEF Between, Shaking
  <2>3. CASE rxpending > 0
    <3> DEFINE r == rxmsglen - rxpending
    <3>1. Place(state, rxmsglen, r, consumed) /\ r \in Nat /\ r < rxmsglen
      BY <1>1, <2>1, <2>3 DEF WInv, Reading, alive
    <3>2. frame_start = consumed - (r + IF "HANDSHAKE2" \in state THEN BT_INITIAL_LEN
                                        ELSE IF "GOTLEN" \in state THEN LENGTH_FIELD ELSE 0)
      BY <2>1, <2>3 DEF frame_start
    <3> HIDE DEF r
    <3>3. CASE state \cap Shaking # {}
      BY <2>1, <3>1, <3>3, Lengths DEF Place, Shaking
    <3>4. CASE state \cap Shaking = {} /\ "GOTLEN" \notin state
      <4>1. rxmsglen = LENGTH_FIELD /\ frame_start = consumed - r
        BY <2>1, <3>1, <3>2, <3>4 DEF Place, Shaking
      <4> QED
        BY <2>1, <3>1, <3>4, <4>1, Lengths DEF Shaking
    <3>5. CASE state \cap Shaking = {} /\ "GOTLEN" \in state
      <4>1. frame_start = consumed - r - LENGTH_FIELD /\ frame_start \in Int
            /\ rxmsglen = length_at(consumed - r - LENGTH_FIELD)
        BY <2>1, <3>1, <3>2, <3>5, Lengths DEF Place, Shaking
      <4>2. Framing!length(frame_start) = rxmsglen
        BY <4>1 DEF Framing!length, Framing!bytes, length_at
      <4> QED
        BY <2>1, <3>1, <3>5, <4>1, <4>2, Lengths DEF Shaking
    <3> QED
      BY <3>3, <3>4, <3>5
  <2> QED
    BY <2>1, <2>2, <2>3
<1> QED
  BY <1>1, WireInvariant, PTL

\* All peers of a torrent are taken for fast, or none is, whatever their reserved
\* bytes say.
THEOREM WireFastByTorrent == Spec => []FastByTorrent
<1>1. WInv => FastByTorrent
  BY DEF WInv
<1> QED
  BY <1>1, WireInvariant, PTL

\* A peer past its handshake knows exactly the pieces we have, except when a HAVE
\* made it ignore the bitfield: then it lacks those we had when it connected, and
\* no others, for any number of pieces and whenever they are verified.
THEOREM WirePeerKnows == Spec => []PeerKnows
<1>1. WInv => PeerKnows
  BY DEF WInv
<1> QED
  BY <1>1, WireInvariant, PTL
==============================================================================
