-------------------------- MODULE CtlServer_proofs --------------------------
(***************************************************************************)
(* For any number of clients and pieces: a client of the control server    *)
(* never shows more than the session has, and one that has read everything *)
(* shows exactly the verified pieces.                                      *)
(*                                                                         *)
(* The invariant follows the unread stream of every client.  What it says  *)
(* of the session is true of the session now (Told), and while the list of *)
(* the pieces ends its line, either the client shows the current list and  *)
(* no other is on its way, or the current list is on its way, begins a     *)
(* line, and no other comes after it (Current).                            *)
(***************************************************************************)
EXTENDS CtlServer, FiniteSetTheorems, TLAPS

\* A message tells of pieces of g and of bytes that were received, of the st
\* there were at the start and the d that came since.
Told(m, g, st, d) ==
    /\ m.key = "pieces" => m.vals \subseteq g
    /\ m.key = "torrent_bytes" => m.nl /\ m.vals = {st}
    /\ m.key = "bytes" => m.nl /\ \E n \in 0..d : m.vals = {n}

ToldAll(s, g, st, d) == \A k \in 1..Len(s) : Told(s[k], g, st, d)

AllTold == \A c \in Conn : ToldAll(out[c], good, started, downloaded)

\* What a client shows is true.
Within(v, g, st, d) ==
    /\ v.pieces \cap Piece \subseteq g
    /\ v.torrent_bytes <= st
    /\ v.bytes <= d

AllWithin == \A c \in Conn : Within(view[c], good, started, downloaded)

\* No list of pieces is among the messages of s from the k-th on.
NoListFrom(s, k) == \A j \in k..Len(s) : s[j].key # "pieces"

\* The k-th message of s is the list of g, begins a line and ends it.
ListAt(s, k, g) ==
    /\ s[k].key = "pieces" /\ s[k].vals = g /\ s[k].nl
    /\ k > 1 => s[k - 1].nl
    /\ NoListFrom(s, k + 1)

Current(s, v, g) ==
    \/ v.pieces = g /\ NoListFrom(s, 1)
    \/ \E k \in 1..Len(s) : ListAt(s, k, g)

AllCurrent == running /\ whole(good) => \A c \in conns : Current(out[c], view[c], good)

CInv == CtlTypeOK /\ AllTold /\ AllWithin /\ AllCurrent

-----------------------------------------------------------------------------
\* The only value of a line is the number it holds.
LEMMA NumberOne == \A x : number({x}) = x
  BY DEF number

\* The messages of the bootstrap, of the bytes and of the pieces are messages.
LEMMA Messages ==
  ASSUME CtlTypeOK
  PROVE  /\ \A g \in SUBSET Piece : ctl_server_pieces(g) \in Message
         /\ \A ps \in SUBSET Peer : ctl_server_peers(ps) \in Message
         /\ \A n \in Int : bytes_message(n) \in Message
         /\ ctl_server_conn_bootstrap \in Seq(Message)
  <1>1. \A g \in SUBSET Piece : g \in SUBSET Int /\ whole(g) \in BOOLEAN
    BY CtlAssumption DEF Piece, whole
  <1>2. \A ps \in SUBSET Peer : ps \in SUBSET Int
    BY CtlAssumption
  <1>3. \A g \in SUBSET Piece : ctl_server_pieces(g) \in Message
    BY <1>1 DEF ctl_server_pieces, chunk, Message
  <1>4. \A ps \in SUBSET Peer : ctl_server_peers(ps) \in Message
    BY <1>2 DEF ctl_server_peers, chunk, Message
  <1>5. \A n \in Int : bytes_message(n) \in Message
    BY DEF bytes_message, chunk, Message
  <1>6. chunk("torrent_bytes", {started}, TRUE) \in Message
    BY DEF chunk, Message, CtlTypeOK
  <1>7. ctl_server_conn_bootstrap \in Seq(Message)
    <2>1. \A x, y, z \in Message : <<x, y, z>> \in Seq(Message)
      OBVIOUS
    <2>2. good \in SUBSET Piece /\ peers \in SUBSET Peer
      BY DEF CtlTypeOK
    <2> QED
      BY <1>3, <1>4, <1>6, <2>1, <2>2, Zenon DEF ctl_server_conn_bootstrap
  <1> QED
    BY <1>3, <1>4, <1>5, <1>7

\* The program starts in the invariant, with no client.
LEMMA CtlInit == Init => CInv
  <1> SUFFICES ASSUME Init PROVE CInv
    OBVIOUS
  <1>1. started \in Nat
    <2>1. IsFiniteSet(Piece)
      BY CtlAssumption, FS_Interval DEF Piece
    <2>2. IsFiniteSet(good)
      BY <2>1, FS_Subset DEF Init
    <2> QED
      BY <2>2, FS_CardinalityType DEF Init
  <1>2. fresh \in View /\ Within(fresh, good, started, downloaded)
    BY <1>1 DEF fresh, View, Within, Init
  <1>3. CtlTypeOK
    BY <1>1, <1>2 DEF CtlTypeOK, Init
  <1>4. AllTold
    BY DEF AllTold, ToldAll, Init
  <1>5. AllWithin
    BY <1>2 DEF AllWithin, Init
  <1>6. AllCurrent
    BY DEF AllCurrent, Init
  <1> QED
    BY <1>3, <1>4, <1>5, <1>6 DEF CInv

-----------------------------------------------------------------------------
\* Messages that tell the truth may be added to a stream that does, and it
\* stays true as pieces and bytes are added.
LEMMA AddTold ==
  ASSUME NEW s \in Seq(Message), NEW t \in Seq(Message),
         NEW g, NEW h, g \subseteq h, NEW st,
         NEW d \in Nat, NEW e \in Nat, d <= e,
         ToldAll(s, g, st, d), ToldAll(t, h, st, e)
  PROVE  s \o t \in Seq(Message) /\ ToldAll(s \o t, h, st, e)
  <1>1. ToldAll(s, h, st, e)
    BY DEF ToldAll, Told
  <1>2. s \o t \in Seq(Message) /\ Len(s \o t) = Len(s) + Len(t)
    OBVIOUS
  <1>3. ASSUME NEW k \in 1..Len(s \o t) PROVE Told((s \o t)[k], h, st, e)
    <2>1. CASE k <= Len(s)
      <3>1. k \in 1..Len(s) /\ (s \o t)[k] = s[k]
        BY <1>2, <2>1
      <3> QED
        BY <1>1, <3>1 DEF ToldAll
    <2>2. CASE k > Len(s)
      <3>1. k - Len(s) \in 1..Len(t) /\ (s \o t)[k] = t[k - Len(s)]
        BY <1>2, <2>2
      <3> QED
        BY <3>1 DEF ToldAll
    <2> QED
      BY <1>2, <2>1, <2>2
  <1> QED
    BY <1>2, <1>3 DEF ToldAll

\* A message that is no list of pieces leaves a client's list current.
LEMMA AddOther ==
  ASSUME NEW s \in Seq(Message), NEW m \in Message, m.key # "pieces",
         NEW v, NEW g, Current(s, v, g)
  PROVE  Current(s \o <<m>>, v, g)
  <1> DEFINE t == s \o <<m>>
  <1>1. /\ Len(t) = Len(s) + 1
        /\ \A j \in 1..Len(s) : t[j] = s[j]
        /\ t[Len(s) + 1] = m
    OBVIOUS
  <1>2. \A k \in 1..Len(s) + 1 : NoListFrom(s, k) => NoListFrom(t, k)
    BY <1>1 DEF NoListFrom
  <1>3. CASE v.pieces = g /\ NoListFrom(s, 1)
    BY <1>2, <1>3 DEF Current
  <1>4. ASSUME NEW k \in 1..Len(s), ListAt(s, k, g) PROVE Current(t, v, g)
    <2>1. t[k] = s[k] /\ (k > 1 => t[k - 1] = s[k - 1])
      BY <1>1
    <2>2. NoListFrom(t, k + 1)
      BY <1>2, <1>4 DEF ListAt
    <2>3. ListAt(t, k, g)
      BY <1>4, <2>1, <2>2 DEF ListAt
    <2> QED
      BY <1>1, <2>3 DEF Current
  <1> QED
    BY <1>3, <1>4 DEF Current

\* A list that follows the end of a line is current, whatever came before.
LEMMA AddList ==
  ASSUME NEW s \in Seq(Message), NEW m \in Message, NEW l \in Message,
         m.nl, l.key = "pieces", l.nl, NEW v
  PROVE  Current(s \o <<m, l>>, v, l.vals)
  <1> DEFINE t == s \o <<m, l>>
             k == Len(s) + 2
  <1>1. Len(t) = k /\ k \in 1..Len(t) /\ t[k] = l /\ t[k - 1] = m
    OBVIOUS
  <1>2. NoListFrom(t, k + 1)
    BY <1>1 DEF NoListFrom
  <1>3. ListAt(t, k, l.vals)
    BY <1>1, <1>2 DEF ListAt
  <1> QED
    BY <1>1, <1>3 DEF Current

\* Storing the pieces of a view changes nothing else in it.
LEMMA StorePieces ==
  ASSUME NEW v \in View, NEW x \in SUBSET Int
  PROVE  /\ store(v, "pieces", x) \in View
         /\ store(v, "pieces", x).pieces = x
         /\ store(v, "pieces", x).torrent_bytes = v.torrent_bytes
         /\ store(v, "pieces", x).bytes = v.bytes
  BY Zenon DEF View, store

\* Storing the peers of a view changes nothing else in it.
LEMMA StorePeers ==
  ASSUME NEW v \in View, NEW x \in SUBSET Int
  PROVE  /\ store(v, "peers", x) \in View
         /\ store(v, "peers", x).peers = x
         /\ store(v, "peers", x).pieces = v.pieces
         /\ store(v, "peers", x).torrent_bytes = v.torrent_bytes
         /\ store(v, "peers", x).bytes = v.bytes
  BY Zenon DEF View, store

\* Storing the torrent_bytes of a view changes nothing else in it.
LEMMA StoreTorrentBytes ==
  ASSUME NEW v \in View, NEW x \in Int
  PROVE  /\ store(v, "torrent_bytes", x) \in View
         /\ store(v, "torrent_bytes", x).torrent_bytes = x
         /\ store(v, "torrent_bytes", x).pieces = v.pieces
         /\ store(v, "torrent_bytes", x).bytes = v.bytes
  BY DEF View, store

\* Storing the bytes of a view changes nothing else in it.
LEMMA StoreBytes ==
  ASSUME NEW v \in View, NEW x \in Int
  PROVE  /\ store(v, "bytes", x) \in View
         /\ store(v, "bytes", x).bytes = x
         /\ store(v, "bytes", x).pieces = v.pieces
         /\ store(v, "bytes", x).torrent_bytes = v.torrent_bytes
  BY DEF View, store

\* Storing any other value keeps the pieces.
LEMMA KeepPieces ==
  ASSUME NEW v \in View, NEW x, NEW key \in {"torrent_bytes", "bytes", "peers"}
  PROVE  store(v, key, x).pieces = v.pieces
  BY DEF View, store

\* What is left of a stream when its first k messages are read.
LEMMA Rest ==
  ASSUME NEW S, NEW s \in Seq(S), NEW k \in 1..Len(s),
         NEW rest, rest = SubSeq(s, k + 1, Len(s))
  PROVE  /\ rest \in Seq(S) /\ Len(rest) = Len(s) - k
         /\ \A j \in 1..Len(rest) : k + j \in 1..Len(s) /\ rest[j] = s[k + j]
  <1>1. Len(s) \in Nat /\ k + 1 \in 1..Len(s) + 1 /\ k \in Nat
    OBVIOUS
  <1>2. rest \in Seq(S) /\ Len(rest) = Len(s) - k
    BY <1>1, SMTT(20)
  <1>3. ASSUME NEW j \in 1..Len(rest) PROVE k + j \in 1..Len(s)
    BY <1>1, <1>2, SMTT(20)
  <1>4. ASSUME NEW j \in 1..Len(rest) PROVE rest[j] = s[k + j]
    BY <1>1, <1>2, SMTT(20)
  <1> QED
    BY <1>2, <1>3, <1>4

\* CTLconnection.run() reads a line of a stream that tells the truth: what the
\* client shows stays true, and so does the rest of the stream.
LEMMA ReadTold ==
  ASSUME NEW s \in Seq(Message), NEW v \in View,
         NEW g \in SUBSET Piece, NEW st \in Nat, NEW d \in Nat,
         ToldAll(s, g, st, d), Within(v, g, st, d),
         NEW k \in 1..Len(s), s[k].nl, \A j \in 1..k - 1 : ~ s[j].nl
  PROVE  /\ SubSeq(s, k + 1, Len(s)) \in Seq(Message)
         /\ ToldAll(SubSeq(s, k + 1, Len(s)), g, st, d)
         /\ shown(v, SubSeq(s, 1, k)) \in View
         /\ Within(shown(v, SubSeq(s, 1, k)), g, st, d)
  <1> DEFINE line == SubSeq(s, 1, k)
             rest == SubSeq(s, k + 1, Len(s))
             m == s[1]
  <1>1. /\ rest \in Seq(Message) /\ Len(rest) = Len(s) - k
        /\ \A j \in 1..Len(rest) : k + j \in 1..Len(s) /\ rest[j] = s[k + j]
    BY Rest
  <1>2. ToldAll(rest, g, st, d)
    BY <1>1 DEF ToldAll
  <1>3. Head(line) = m /\ Len(line) = k /\ m \in Message /\ 1 \in 1..Len(s)
    OBVIOUS
  <1> SUFFICES shown(v, line) \in View /\ Within(shown(v, line), g, st, d)
    BY <1>1, <1>2
  <1> HIDE DEF line, rest
  <1>4. Told(m, g, st, d)
    BY <1>3 DEF ToldAll
  <1>5. line_vals(line) \in SUBSET Int /\ line_vals(line) \subseteq m.vals \cup {JUNK}
    BY <1>3 DEF line_vals, JUNK, Message
  <1>6. m.nl => line_vals(line) = m.vals
    BY <1>3 DEF line_vals
  <1>7. st \in Int /\ \A n \in 0..d : n \in Int
    OBVIOUS
  <1>8. CASE m.key = "pieces"
    <2>1. shown(v, line) = store(v, "pieces", line_vals(line))
      BY <1>3, <1>8 DEF shown
    <2>2. JUNK \notin Piece
      BY DEF JUNK, Piece
    <2>3. line_vals(line) \cap Piece \subseteq g
      BY <1>4, <1>5, <1>8, <2>2 DEF Told
    <2>4. /\ shown(v, line) \in View
          /\ shown(v, line).pieces = line_vals(line)
          /\ shown(v, line).torrent_bytes = v.torrent_bytes
          /\ shown(v, line).bytes = v.bytes
      BY <1>5, <2>1, StorePieces
    <2> QED
      BY <2>3, <2>4 DEF Within
  <1>9. CASE m.key = "peers"
    <2>1. shown(v, line) = store(v, "peers", line_vals(line))
      BY <1>3, <1>9 DEF shown
    <2>2. /\ shown(v, line) \in View
          /\ shown(v, line).peers = line_vals(line)
          /\ shown(v, line).pieces = v.pieces
          /\ shown(v, line).torrent_bytes = v.torrent_bytes
          /\ shown(v, line).bytes = v.bytes
      BY <1>5, <2>1, StorePeers
    <2> QED
      BY <2>2 DEF Within
  <1>10. CASE m.key = "torrent_bytes"
    <2>1. shown(v, line) = store(v, "torrent_bytes", number(line_vals(line)))
      BY <1>3, <1>10 DEF shown
    <2>2. shown(v, line) = store(v, "torrent_bytes", st)
      BY <1>4, <1>6, <1>10, <2>1, NumberOne, Zenon DEF Told
    <2>3. /\ store(v, "torrent_bytes", st) \in View
          /\ store(v, "torrent_bytes", st).torrent_bytes = st
          /\ store(v, "torrent_bytes", st).pieces = v.pieces
          /\ store(v, "torrent_bytes", st).bytes = v.bytes
      BY <1>7, StoreTorrentBytes
    <2> QED
      BY <2>2, <2>3 DEF Within
  <1>11. CASE m.key = "bytes"
    <2>1. shown(v, line) = store(v, "bytes", number(line_vals(line)))
      BY <1>3, <1>11 DEF shown
    <2>2. PICK n \in 0..d : line_vals(line) = {n}
      BY <1>4, <1>6, <1>11 DEF Told
    <2>3. shown(v, line) = store(v, "bytes", n)
      BY <2>1, <2>2, NumberOne, Zenon
    <2>4. /\ store(v, "bytes", n) \in View
          /\ store(v, "bytes", n).bytes = n
          /\ store(v, "bytes", n).pieces = v.pieces
          /\ store(v, "bytes", n).torrent_bytes = v.torrent_bytes
      BY <1>7, StoreBytes, Zenon
    <2> QED
      BY <2>3, <2>4 DEF Within
  <1>12. m.key \in {"torrent_bytes", "bytes", "pieces", "peers"}
    BY <1>3 DEF Message
  <1> QED
    BY <1>8, <1>9, <1>10, <1>11, <1>12

\* The line that is read is the current list, ends before it, or leaves the
\* list the client shows.
LEMMA ReadCurrent ==
  ASSUME NEW s \in Seq(Message), NEW v \in View, NEW g \in SUBSET Int, Current(s, v, g),
         NEW k \in 1..Len(s), s[k].nl, \A j \in 1..k - 1 : ~ s[j].nl
  PROVE  Current(SubSeq(s, k + 1, Len(s)), shown(v, SubSeq(s, 1, k)), g)
  <1> DEFINE line == SubSeq(s, 1, k)
             rest == SubSeq(s, k + 1, Len(s))
             m == s[1]
  <1>1. /\ rest \in Seq(Message) /\ Len(rest) = Len(s) - k
        /\ \A j \in 1..Len(rest) : k + j \in 1..Len(s) /\ rest[j] = s[k + j]
    BY Rest
  <1>2. Head(line) = m /\ Len(line) = k /\ m \in Message
    OBVIOUS
  <1> SUFFICES Current(rest, shown(v, line), g)
    OBVIOUS
  <1> HIDE DEF line, rest
  <1>3. \A i \in 1..k : NoListFrom(s, i + 1) => NoListFrom(rest, 1)
    BY <1>1 DEF NoListFrom
  <1>4. CASE v.pieces = g /\ NoListFrom(s, 1)
    <2>1. m.key \in {"torrent_bytes", "bytes", "peers"}
      BY <1>2, <1>4 DEF NoListFrom, Message
    <2>2. NoListFrom(rest, 1)
      BY <1>1, <1>4 DEF NoListFrom
    <2>3. shown(v, line).pieces = v.pieces
      <3>1. \E x : shown(v, line) = store(v, m.key, x)
        BY <1>2, <2>1 DEF shown
      <3> QED
        BY <2>1, <3>1, KeepPieces
    <2> QED
      BY <1>4, <2>2, <2>3 DEF Current
  <1>5. ASSUME NEW i \in 1..Len(s), ListAt(s, i, g)
        PROVE  Current(rest, shown(v, line), g)
    <2>1. k <= i
      BY <1>5 DEF ListAt
    <2>2. CASE k = i
      <3>1. k = 1
        BY <1>5, <2>2 DEF ListAt
      <3>2. line_vals(line) = g /\ m.key = "pieces"
        BY <1>2, <1>5, <2>2, <3>1 DEF ListAt, line_vals
      <3>3. shown(v, line).pieces = g
        <4>1. shown(v, line) = store(v, "pieces", g)
          BY <1>2, <3>2, Zenon DEF shown
        <4> QED
          BY <4>1, StorePieces
      <3>4. NoListFrom(rest, 1)
        BY <1>3, <1>5, <2>2 DEF ListAt
      <3> QED
        BY <3>3, <3>4 DEF Current
    <2>3. CASE k < i
      <3> DEFINE n == i - k
      <3>1. n \in 1..Len(rest) /\ rest[n] = s[i] /\ (n > 1 => rest[n - 1] = s[i - 1])
        <4>1. n \in 1..Len(rest) /\ k + n = i /\ k + (n - 1) = i - 1
          <5>1. Len(rest) = Len(s) - k /\ Len(s) \in Nat /\ i \in Nat /\ i <= Len(s) /\ k \in Nat
            BY <1>1
          <5> QED
            BY <2>3, <5>1
        <4>2. n > 1 => n - 1 \in 1..Len(rest)
          BY <4>1
        <4> HIDE DEF n
        <4> QED
          BY <1>1, <4>1, <4>2, Zenon
      <3>2. NoListFrom(rest, n + 1)
        <4>1. \A j \in n + 1..Len(rest) : k + j \in i + 1..Len(s) /\ rest[j] = s[k + j]
          BY <1>1, <2>3
        <4> QED
          BY <1>5, <4>1 DEF ListAt, NoListFrom
      <3>3. ListAt(rest, n, g)
        BY <1>5, <2>3, <3>1, <3>2 DEF ListAt
      <3> QED
        BY <3>1, <3>3 DEF Current
    <2> QED
      BY <2>1, <2>2, <2>3
  <1> QED
    BY <1>4, <1>5 DEF Current

-----------------------------------------------------------------------------
\* broadcast() of messages that tell the truth, while pieces and bytes may be
\* added: every stream tells the truth and every view stays true.
LEMMA BroadcastStep ==
  ASSUME CtlTypeOK, AllTold, AllWithin,
         NEW msgs \in Seq(Message), broadcast(msgs),
         good \subseteq good', good' \subseteq Piece, started' = started,
         downloaded' \in Nat, downloaded <= downloaded',
         peers' \subseteq Peer, listening' = listening, conns' = conns, view' = view,
         ToldAll(msgs, good', started, downloaded')
  PROVE  CtlTypeOK' /\ AllTold' /\ AllWithin'
  <1>1. ASSUME NEW c \in Conn
        PROVE  out'[c] \in Seq(Message) /\ ToldAll(out'[c], good', started', downloaded')
    <2>1. out[c] \in Seq(Message) /\ downloaded \in Nat /\ <<>> \in Seq(Message)
      BY DEF CtlTypeOK
    <2>2. ToldAll(out[c], good, started, downloaded)
      BY DEF AllTold
    <2>3. CASE c \in conns
      <3>1. out'[c] = out[c] \o msgs
        BY <2>3 DEF broadcast
      <3> QED
        BY <2>1, <2>2, <3>1, AddTold
    <2>4. CASE c \notin conns
      <3>1. out'[c] = out[c]
        BY <2>4 DEF broadcast
      <3>2. ToldAll(out[c], good', started, downloaded')
        BY <2>1, <2>2 DEF ToldAll, Told
      <3> QED
        BY <2>1, <3>1, <3>2
    <2> QED
      BY <2>3, <2>4
  <1>2. out' = [c \in Conn |-> out'[c]]
    BY DEF broadcast
  <1>3. out' \in [Conn -> Seq(Message)]
    BY <1>1, <1>2, Zenon
  <1>4. CtlTypeOK'
    BY <1>3 DEF CtlTypeOK
  <1>5. AllTold'
    BY <1>1 DEF AllTold
  <1>6. ASSUME NEW c \in Conn PROVE Within(view[c], good', started', downloaded')
    <2>1. view[c] \in View /\ Within(view[c], good, started, downloaded)
      BY DEF CtlTypeOK, AllWithin
    <2> QED
      BY <2>1 DEF Within, View, CtlTypeOK
  <1> QED
    BY <1>4, <1>5, <1>6 DEF AllWithin

\* broadcast() of one message that is no list of pieces.
LEMMA OtherStep ==
  ASSUME CtlTypeOK, AllCurrent, NEW m \in Message, m.key # "pieces", broadcast(<<m>>),
         UNCHANGED <<good, conns, view, running>>
  PROVE  AllCurrent'
  <1> SUFFICES ASSUME running, whole(good), NEW c \in conns
               PROVE  Current(out'[c], view[c], good)
    BY Zenon DEF AllCurrent
  <1>1. c \in Conn /\ out[c] \in Seq(Message)
    BY DEF CtlTypeOK
  <1>2. Current(out[c], view[c], good)
    BY DEF AllCurrent
  <1>3. out'[c] = out[c] \o <<m>>
    BY <1>1 DEF broadcast
  <1> QED
    BY <1>1, <1>2, <1>3, AddOther

\* network_peer_read_piece() tells the bytes.
LEMMA ReadPieceStep == CInv /\ network_peer_read_piece => CInv'
  <1> SUFFICES ASSUME CInv, network_peer_read_piece PROVE CInv'
    OBVIOUS
  <1> USE DEF CInv
  <1> DEFINE m == bytes_message(downloaded + 1)
  <1>1. downloaded \in Nat /\ downloaded + 1 \in Nat /\ downloaded <= downloaded + 1
    BY DEF CtlTypeOK
  <1>2. m \in Message /\ <<m>> \in Seq(Message)
    BY <1>1, Messages
  <1>3. m.key = "bytes" /\ m.nl /\ m.vals = {downloaded + 1}
    BY DEF bytes_message, chunk
  <1>4. ToldAll(<<m>>, good, started, downloaded + 1)
    BY <1>1, <1>3 DEF ToldAll, Told
  <1> HIDE DEF m
  <1>5. broadcast(<<m>>)
    BY DEF network_peer_read_piece, m
  <1>6. CtlTypeOK' /\ AllTold' /\ AllWithin'
    <2>1. /\ good' = good /\ started' = started /\ downloaded' = downloaded + 1
          /\ peers' = peers /\ listening' = listening /\ conns' = conns /\ view' = view
      BY DEF network_peer_read_piece
    <2>2. good \subseteq Piece /\ peers \subseteq Peer
      BY DEF CtlTypeOK
    <2> QED
      BY <1>1, <1>2, <1>4, <1>5, <2>1, <2>2, BroadcastStep, Zenon
  <1>7. AllCurrent'
    <2>1. UNCHANGED <<good, conns, view, running>>
      BY DEF network_peer_read_piece
    <2> QED
      BY <1>2, <1>3, <1>5, <2>1, OtherStep
  <1> QED
    BY <1>6, <1>7

\* network_peerlist_update() tells the peers.
LEMMA PeerlistStep ==
  ASSUME CInv, NEW new \in SUBSET Peer, network_peerlist_update(new)
  PROVE  CInv'
  <1> USE DEF CInv
  <1> DEFINE m == ctl_server_peers(peers')
  <1>1. peers' \in SUBSET Peer
    BY DEF CtlTypeOK, network_peerlist_update
  <1>2. m \in Message /\ <<m>> \in Seq(Message)
    BY <1>1, Messages
  <1>3. m.key = "peers"
    BY DEF ctl_server_peers, chunk
  <1>4. ToldAll(<<m>>, good, started, downloaded)
    BY <1>3 DEF ToldAll, Told
  <1> HIDE DEF m
  <1>5. broadcast(<<m>>)
    BY DEF network_peerlist_update, m
  <1>6. CtlTypeOK' /\ AllTold' /\ AllWithin'
    <2>1. /\ good' = good /\ started' = started /\ downloaded' = downloaded
          /\ listening' = listening /\ conns' = conns /\ view' = view
      BY DEF network_peerlist_update
    <2>2. good \subseteq Piece /\ downloaded \in Nat /\ downloaded <= downloaded
      BY DEF CtlTypeOK
    <2> QED
      BY <1>1, <1>2, <1>4, <1>5, <2>1, <2>2, BroadcastStep, Zenon
  <1>7. AllCurrent'
    <2>1. UNCHANGED <<good, conns, view, running>>
      BY DEF network_peerlist_update
    <2> QED
      BY <1>2, <1>3, <1>5, <2>1, OtherStep
  <1> QED
    BY <1>6, <1>7

\* The last block of a piece tells the bytes, and then the pieces unless the
\* program ends.
LEMMA VerifiedStep ==
  ASSUME CInv, NEW i \in Piece, piece_verified(i)
  PROVE  CInv'
  <1> USE DEF CInv
  <1> DEFINE m == bytes_message(downloaded + 1)
             l == ctl_server_pieces(good')
  <1>1. downloaded \in Nat /\ downloaded + 1 \in Nat /\ downloaded <= downloaded + 1
    BY DEF CtlTypeOK
  <1>2. /\ good' \in SUBSET Piece /\ good \subseteq good' /\ good' \subseteq Piece
        /\ downloaded' = downloaded + 1
        /\ started' = started /\ peers' = peers /\ conns' = conns /\ view' = view
        /\ peers \subseteq Peer /\ listening' = listening
    BY DEF CtlTypeOK, piece_verified
  <1>3. m \in Message /\ <<m>> \in Seq(Message)
    BY <1>1, Messages
  <1>4. m.key = "bytes" /\ m.nl /\ m.vals = {downloaded + 1}
    BY DEF bytes_message, chunk
  <1>5. l \in Message
    BY <1>2, Messages
  <1>6. l.key = "pieces" /\ l.vals = good' /\ l.nl = whole(good')
    BY DEF ctl_server_pieces, chunk
  <1>7. \/ broadcast(<<m>>) /\ running' = FALSE
        \/ broadcast(<<m, l>>)
    BY DEF piece_verified
  <1> HIDE DEF m, l
  <1>8. CASE broadcast(<<m>>) /\ running' = FALSE
    <2>1. ToldAll(<<m>>, good', started, downloaded + 1)
      BY <1>1, <1>4 DEF ToldAll, Told
    <2>2. CtlTypeOK' /\ AllTold' /\ AllWithin'
      BY <1>1, <1>2, <1>3, <1>8, <2>1, BroadcastStep, Zenon
    <2>3. AllCurrent'
      BY <1>8 DEF AllCurrent
    <2> QED
      BY <2>2, <2>3
  <1>9. CASE broadcast(<<m, l>>)
    <2>1. <<m, l>> \in Seq(Message)
      BY <1>3, <1>5
    <2>2. Told(m, good', started, downloaded + 1) /\ Told(l, good', started, downloaded + 1)
      BY <1>1, <1>4, <1>6 DEF Told
    <2>3. ToldAll(<<m, l>>, good', started, downloaded + 1)
      BY <2>2 DEF ToldAll
    <2>4. CtlTypeOK' /\ AllTold' /\ AllWithin'
      BY <1>1, <1>2, <1>9, <2>1, <2>3, BroadcastStep, Zenon
    <2>5. ASSUME whole(good'), NEW c \in conns PROVE Current(out'[c], view[c], good')
      <3>1. c \in Conn /\ out[c] \in Seq(Message)
        BY DEF CtlTypeOK
      <3>2. out'[c] = out[c] \o <<m, l>>
        BY <1>9, <3>1 DEF broadcast
      <3>3. Current(out[c] \o <<m, l>>, view[c], l.vals)
        BY <1>3, <1>4, <1>5, <1>6, <2>5, <3>1, AddList, Zenon
      <3> QED
        BY <1>6, <3>2, <3>3
    <2>6. AllCurrent'
      BY <1>2, <2>5 DEF AllCurrent
    <2> QED
      BY <2>4, <2>6
  <1> QED
    BY <1>7, <1>8, <1>9, Zenon

\* A client that connects shows nothing, and is sent what there is.
LEMMA ConnectStep ==
  ASSUME CInv, NEW c \in Conn, ctl_server_handle_connect(c)
  PROVE  CInv'
  <1> USE DEF CInv
  <1>1. UNCHANGED <<good, peers, downloaded, started, listening>>
    BY DEF ctl_server_handle_connect
  <1>2. CASE truncated(good)
    <2>1. running' = FALSE /\ UNCHANGED <<conns, out, view>>
      BY <1>2 DEF ctl_server_handle_connect
    <2> QED
      BY <1>1, <2>1 DEF CtlTypeOK, AllTold, AllWithin, AllCurrent
  <1>3. CASE ~ truncated(good)
    <2> DEFINE t == chunk("torrent_bytes", {started}, TRUE)
               l == ctl_server_pieces(good)
               p == ctl_server_peers(peers)
    <2>1. PICK v \in {fresh, view[c]} :
          /\ conns' = conns \cup {c}
          /\ out' = [out EXCEPT ![c] = <<t, l, p>>]
          /\ view' = [view EXCEPT ![c] = v]
          /\ running' = running
      BY <1>3, Zenon DEF ctl_server_handle_connect, ctl_server_conn_bootstrap
    <2>2. /\ t.key = "torrent_bytes" /\ t.nl /\ t.vals = {started}
          /\ l.key = "pieces" /\ l.vals = good /\ l.nl = whole(good)
          /\ p.key = "peers"
      BY DEF chunk, ctl_server_pieces, ctl_server_peers
    <2>3. <<t, l, p>> \in Seq(Message)
      BY Messages, Zenon DEF ctl_server_conn_bootstrap
    <2> HIDE DEF t, l, p
    <2>4. v \in View /\ Within(v, good, started, downloaded)
      <3>1. fresh \in View /\ Within(fresh, good, started, downloaded)
        BY DEF fresh, View, Within, CtlTypeOK
      <3>2. view[c] \in View /\ Within(view[c], good, started, downloaded)
        BY DEF CtlTypeOK, AllWithin
      <3> QED
        BY <3>1, <3>2, SMTT(30)
    <2>5. CtlTypeOK'
      BY <1>1, <2>1, <2>3, <2>4 DEF CtlTypeOK
    <2>6. ToldAll(<<t, l, p>>, good, started, downloaded)
      <3>1. /\ Told(t, good, started, downloaded)
            /\ Told(l, good, started, downloaded)
            /\ Told(p, good, started, downloaded)
        BY <2>2 DEF Told
      <3> QED
        BY <3>1 DEF ToldAll
    <2>7. \A d \in Conn : out'[d] = (IF d = c THEN <<t, l, p>> ELSE out[d])
                          /\ view'[d] = (IF d = c THEN v ELSE view[d])
      BY <2>1 DEF CtlTypeOK
    <2>8. AllTold'
      BY <1>1, <2>6, <2>7 DEF AllTold
    <2>9. AllWithin'
      BY <1>1, <2>4, <2>7 DEF AllWithin
    <2>10. ASSUME whole(good) PROVE Current(<<t, l, p>>, v, good)
      <3>1. NoListFrom(<<t, l, p>>, 3)
        BY <2>2 DEF NoListFrom
      <3>2. ListAt(<<t, l, p>>, 2, good)
        <4>1. <<t, l, p>>[2] = l /\ <<t, l, p>>[2 - 1] = t /\ 2 + 1 = 3
          OBVIOUS
        <4> QED
          BY <2>2, <2>10, <3>1, <4>1, Zenon DEF ListAt
      <3> QED
        BY <3>2 DEF Current
    <2>11. AllCurrent'
      <3> SUFFICES ASSUME running, whole(good), NEW d \in conns \cup {c}
                   PROVE  Current(out'[d], view'[d], good)
        BY <1>1, <2>1 DEF AllCurrent
      <3>1. d \in Conn
        BY DEF CtlTypeOK
      <3>2. d # c => Current(out[d], view[d], good)
        BY DEF AllCurrent
      <3> QED
        BY <2>7, <2>10, <3>1, <3>2
    <2> QED
      BY <2>5, <2>8, <2>9, <2>11
  <1> QED
    BY <1>2, <1>3

\* A client that has gone is sent nothing.
LEMMA ErrorStep ==
  ASSUME CInv, NEW c \in Conn, ctl_server_handle_conn_error(c)
  PROVE  CInv'
  <1> USE DEF CInv
  <1>1. /\ conns' = conns \ {c} /\ out' = [out EXCEPT ![c] = <<>>]
        /\ UNCHANGED <<good, peers, downloaded, started, listening, view, running>>
    BY DEF ctl_server_handle_conn_error
  <1>2. \A d \in Conn : out'[d] = IF d = c THEN <<>> ELSE out[d]
    BY <1>1 DEF CtlTypeOK
  <1>3. CtlTypeOK'
    BY <1>1 DEF CtlTypeOK
  <1>4. ToldAll(<<>>, good, started, downloaded)
    BY DEF ToldAll
  <1>5. AllTold'
    BY <1>1, <1>2, <1>4 DEF AllTold
  <1>6. AllWithin'
    BY <1>1 DEF AllWithin
  <1>7. AllCurrent'
    <2> SUFFICES ASSUME running, whole(good), NEW d \in conns \ {c}
                 PROVE  Current(out'[d], view[d], good)
      BY <1>1 DEF AllCurrent
    <2>1. d \in Conn /\ Current(out[d], view[d], good)
      BY DEF AllCurrent, CtlTypeOK
    <2> QED
      BY <1>2, <2>1
  <1> QED
    BY <1>3, <1>5, <1>6, <1>7

\* A client reads a line.
LEMMA RunStep ==
  ASSUME CInv, NEW c \in Conn, run(c)
  PROVE  CInv'
  <1> USE DEF CInv
  <1> DEFINE s == out[c]
             v == view[c]
  <1>1. PICK k \in 1..Len(s) :
          /\ s[k].nl /\ \A j \in 1..k - 1 : ~ s[j].nl
          /\ view' = [view EXCEPT ![c] = shown(v, SubSeq(s, 1, k))]
          /\ out' = [out EXCEPT ![c] = SubSeq(s, k + 1, Len(s))]
    BY Zenon DEF run
  <1> DEFINE w == shown(v, SubSeq(s, 1, k))
             rest == SubSeq(s, k + 1, Len(s))
  <1>2. UNCHANGED <<good, peers, downloaded, started, listening, conns, running>>
    BY DEF run
  <1>3. /\ s \in Seq(Message) /\ v \in View /\ good \in SUBSET Piece
        /\ good \in SUBSET Int /\ started \in Nat /\ downloaded \in Nat
        /\ ToldAll(s, good, started, downloaded)
        /\ Within(v, good, started, downloaded)
    BY DEF CtlTypeOK, AllTold, AllWithin, Piece
  <1>4. /\ rest \in Seq(Message) /\ ToldAll(rest, good, started, downloaded)
        /\ w \in View /\ Within(w, good, started, downloaded)
    BY <1>1, <1>3, ReadTold, Zenon
  <1>5. Current(s, v, good) => Current(rest, w, good)
    BY <1>1, <1>3, ReadCurrent
  <1>6. view' = [view EXCEPT ![c] = w] /\ out' = [out EXCEPT ![c] = rest]
    BY <1>1
  <1> HIDE DEF w, rest
  <1>7. \A d \in Conn : /\ out'[d] = IF d = c THEN rest ELSE out[d]
                        /\ view'[d] = IF d = c THEN w ELSE view[d]
    BY <1>6 DEF CtlTypeOK
  <1>8. CtlTypeOK'
    BY <1>2, <1>4, <1>6 DEF CtlTypeOK
  <1>9. AllTold' /\ AllWithin'
    BY <1>2, <1>4, <1>7, Zenon DEF AllTold, AllWithin
  <1>10. AllCurrent'
    <2> SUFFICES ASSUME running, whole(good), NEW d \in conns
                 PROVE  Current(out'[d], view'[d], good)
      BY <1>2 DEF AllCurrent
    <2>1. d \in Conn /\ Current(out[d], view[d], good)
      BY DEF AllCurrent, CtlTypeOK
    <2> QED
      BY <1>5, <1>7, <2>1, Zenon
  <1> QED
    BY <1>8, <1>9, <1>10

\* Every step keeps the invariant.
LEMMA CtlNext == CInv /\ [Next]_vars => CInv'
  <1> SUFFICES ASSUME CInv, [Next]_vars PROVE CInv'
    OBVIOUS
  <1>1. ASSUME NEW p \in Peer, peer_comes(p) \/ peer_goes(p) PROVE CInv'
    BY <1>1 DEF CInv, CtlTypeOK, AllTold, AllWithin, AllCurrent, peer_comes, peer_goes
  <1>2. CASE UNCHANGED vars
    BY <1>2 DEF CInv, CtlTypeOK, AllTold, AllWithin, AllCurrent, vars
  <1>3. CASE accept_error
    BY <1>3 DEF CInv, CtlTypeOK, AllTold, AllWithin, AllCurrent, accept_error
  <1>4. CASE Next
    BY <1>1, <1>3, <1>4, ConnectStep, ErrorStep, RunStep, ReadPieceStep, VerifiedStep,
       PeerlistStep DEF Next
  <1> QED
    BY <1>2, <1>4

\* The invariant holds throughout.
LEMMA CtlInvariant == Spec => []CInv
  BY CtlInit, CtlNext, PTL DEF Spec

\* For any number of clients, of pieces and of peers, no client shows a piece
\* we do not have or counts more bytes than were received, although
\* ctl_server_conn_bootstrap() and ctl_server_notify_bytes() reach it at any
\* distance from the moment they were written.
THEOREM CtlNeverAhead == Spec => []NeverAhead
  <1>1. CInv => NeverAhead
    <2> SUFFICES ASSUME CInv, NEW c \in conns
                 PROVE  /\ view[c].pieces \cap Piece \subseteq good
                        /\ view[c].torrent_bytes + view[c].bytes <= started + downloaded
      BY DEF NeverAhead
    <2>1. c \in Conn
      BY DEF CInv, CtlTypeOK
    <2>2. /\ view[c].torrent_bytes \in Int /\ view[c].bytes \in Int
          /\ started \in Int /\ downloaded \in Int
      BY <2>1 DEF CInv, CtlTypeOK, View
    <2>3. Within(view[c], good, started, downloaded)
      BY <2>1 DEF CInv, AllWithin
    <2> QED
      BY <2>2, <2>3 DEF Within
  <1> QED
    BY <1>1, CtlInvariant, PTL

\* The session, the streams and what the clients show keep their types, whatever
\* lines CTLconnection.run() reads.
THEOREM CtlTypes == Spec => []CtlTypeOK
  <1>1. CInv => CtlTypeOK
    BY DEF CInv
  <1> QED
    BY <1>1, CtlInvariant, PTL

\* For any number of clients, of pieces and of peers, a client that has read
\* everything shows exactly the verified pieces, whatever open lines
\* ctl_server_pieces() and ctl_server_peers() have left in its stream.
THEOREM CtlPiecesShown == Spec => []PiecesShown
  <1>1. CInv => PiecesShown
    <2> SUFFICES ASSUME CInv, running, NEW c \in conns, out[c] = <<>>, whole(good)
                 PROVE  view[c].pieces = good
      BY DEF PiecesShown
    <2>1. Current(<<>>, view[c], good)
      BY DEF CInv, AllCurrent
    <2> QED
      BY <2>1 DEF Current
  <1> QED
    BY <1>1, CtlInvariant, PTL
==============================================================================
