----------------------------- MODULE CtlServer -----------------------------
(***************************************************************************)
(* The control server of ctl_server.c and the client of gui/conn.py: what  *)
(* the client shows of the pieces and bytes the session has, when it       *)
(* connects at any moment and reads as slowly as it likes.                 *)
(*                                                                         *)
(* A message is a chunk of the stream: its key, its comma-separated values *)
(* and whether it ends the line.  An empty list, and a last piece index    *)
(* too long for the array it is printed to, leave the line open, and the   *)
(* next message becomes part of it.                                        *)
(***************************************************************************)
EXTENDS Integers, FiniteSets, FiniteSetsExt, Functions, Sequences

CONSTANTS
    Conn,             \* clients of the control server
    Peer,             \* peers of the session (numbers)
    NumPieces,        \* num_pieces
    Seed,             \* the -s option: stay when the torrent is complete
    CTL_MESSAGE_LEN,  \* room for a message, 64
    ROOM,             \* more room for each good piece, 5
    PIECE_LEN,        \* sizeof(piece) in ctl_server_pieces(), 8
    Base,             \* piece numbers are printed in base 10
    MaxBytes,         \* bound: blocks received
    MaxOut            \* bound: unread messages when the peer list is updated

Piece == 0..NumPieces - 1

\* What a value is that was glued to the next message.
JUNK == -1

ASSUME CtlAssumption ==
    /\ Peer \subseteq Nat
    /\ NumPieces \in Nat \ {0}
    /\ Base \in Nat \ {0, 1}
    /\ Seed \in BOOLEAN

VARIABLES
    good,        \* the pieces with TORRENT_PIECE_CKSUMOK; good_pieces counts them
    peers,       \* the session's peer list
    downloaded,  \* tp->downloaded, in blocks
    started,     \* cs->started: what was there at the start, in blocks
    listening,   \* cs->bev waits for the next client
    conns,       \* cs->conns
    out,         \* what each client has not read yet
    view,        \* what each client shows
    running      \* FALSE once the program has exited

vars == <<good, peers, downloaded, started, listening, conns, out, view, running>>

\* CTLconnection.__init__().
fresh == [torrent_bytes |-> 0, bytes |-> 0, pieces |-> {}, peers |-> {}]

chunk(key, vals, nl) == [key |-> key, vals |-> vals, nl |-> nl]

\* The number of digits of n, at most NumPieces of them.
digits(n) == CHOOSE k \in 1..NumPieces : n < Base^k /\ (k > 1 => n >= Base^(k - 1))

\* The length of a piece number, with its comma or its end of line, once it is
\* printed to piece[].
printed(g, i) ==
    LET n == digits(i) + IF i = Max(g) THEN 2 ELSE 1
    IN  IF n < PIECE_LEN THEN n ELSE PIECE_LEN - 1

\* ctl_server_pieces(): strlcat() finds no room for the message.
truncated(g) ==
    7 + SumFunction([i \in g |-> printed(g, i)]) >= CTL_MESSAGE_LEN + ROOM * Cardinality(g)

\* The message ends the line: there is a last piece and its CR LF fits.
whole(g) == g # {} /\ digits(Max(g)) + 2 < PIECE_LEN

ctl_server_pieces(g) == chunk("pieces", g, whole(g))

ctl_server_peers(ps) == chunk("peers", ps, ps # {})

\* Mutation of ctl_server_conn_bootstrap: the bytes as they are now.
ctl_server_conn_bootstrap_now ==
    <<chunk("torrent_bytes", {started + downloaded}, TRUE), ctl_server_pieces(good), ctl_server_peers(peers)>>

\* The number of peers, which the client does not store, and the size of the
\* torrent, which never changes, come before these.
ctl_server_conn_bootstrap ==
    <<chunk("torrent_bytes", {started}, TRUE), ctl_server_pieces(good), ctl_server_peers(peers)>>

broadcast(msgs) == out' = [c \in Conn |-> IF c \in conns THEN out[c] \o msgs ELSE out[c]]

\* network_start_torrent() with whatever the initial hash check has found.
Init ==
    /\ good \in SUBSET Piece /\ (good = Piece => Seed)
    /\ peers = {} /\ downloaded = 0
    /\ started = Cardinality(good)
    /\ listening = TRUE
    /\ conns = {}
    /\ out = [c \in Conn |-> <<>>]
    /\ view = [c \in Conn |-> fresh]
    /\ running = TRUE

\* accept() failed: the bufferevent that called back is not enabled again, and no
\* client will be taken in from now on.
accept_error ==
    /\ listening
    /\ listening' = FALSE
    /\ UNCHANGED <<good, peers, downloaded, started, conns, out, view, running>>

\* A new client, or one whose run() calls itself after an error of its socket.
ctl_server_handle_connect(c) ==
    /\ listening /\ c \notin conns
    /\ IF truncated(good)
       THEN running' = FALSE /\ UNCHANGED <<conns, out, view>>
       ELSE /\ conns' = conns \cup {c}
            /\ out' = [out EXCEPT ![c] = ctl_server_conn_bootstrap]
            /\ \E v \in {fresh, view[c]} : view' = [view EXCEPT ![c] = v]
            /\ UNCHANGED running
    /\ UNCHANGED <<good, peers, downloaded, started, listening>>

\* The client has gone; what it has not read is lost with its socket.
ctl_server_handle_conn_error(c) ==
    /\ c \in conns
    /\ conns' = conns \ {c}
    /\ out' = [out EXCEPT ![c] = <<>>]
    /\ UNCHANGED <<good, peers, downloaded, started, listening, view, running>>

\* ctl_server_notify_bytes().
bytes_message(n) == chunk("bytes", {n}, TRUE)

\* A block that does not complete its piece, or completes it with a wrong hash.
network_peer_read_piece ==
    /\ peers # {} /\ good # Piece /\ downloaded < MaxBytes
    /\ downloaded' = downloaded + 1
    /\ broadcast(<<bytes_message(downloaded + 1)>>)
    /\ UNCHANGED <<good, peers, started, listening, conns, view, running>>

\* Mutation of piece_verified: the pieces are told before the bytes.
piece_verified_first(i) ==
    /\ peers # {} /\ i \notin good /\ downloaded < MaxBytes
    /\ downloaded' = downloaded + 1
    /\ good' = good \cup {i}
    /\ IF truncated(good') \/ (good' = Piece /\ ~ Seed)
       THEN /\ broadcast(<<bytes_message(downloaded + 1)>>)
            /\ running' = FALSE
       ELSE /\ broadcast(<<ctl_server_pieces(good'), bytes_message(downloaded + 1)>>)
            /\ UNCHANGED running
    /\ UNCHANGED <<peers, started, listening, conns, view>>

\* The last block of piece i, with the right hash.  The bytes are told on the
\* way; the program ends when the torrent is complete, or when the list of the
\* pieces does not fit.
piece_verified(i) ==
    /\ peers # {} /\ i \notin good /\ downloaded < MaxBytes
    /\ downloaded' = downloaded + 1
    /\ good' = good \cup {i}
    /\ IF truncated(good') \/ (good' = Piece /\ ~ Seed)
       THEN /\ broadcast(<<bytes_message(downloaded + 1)>>)
            /\ running' = FALSE
       ELSE /\ broadcast(<<bytes_message(downloaded + 1), ctl_server_pieces(good')>>)
            /\ UNCHANGED running
    /\ UNCHANGED <<peers, started, listening, conns, view>>

\* A peer connects to us, or is reaped: no client is told.
peer_comes(p) ==
    /\ peers' = peers \cup {p}
    /\ UNCHANGED <<good, downloaded, started, listening, conns, out, view, running>>

peer_goes(p) ==
    /\ peers' = peers \ {p}
    /\ UNCHANGED <<good, downloaded, started, listening, conns, out, view, running>>

\* The tracker's answer: some peers are connected to, and the list is told.
network_peerlist_update(new) ==
    /\ \A c \in conns : Len(out[c]) < MaxOut
    /\ peers' = peers \cup new
    /\ broadcast(<<ctl_server_peers(peers')>>)
    /\ UNCHANGED <<good, downloaded, started, listening, conns, view, running>>

\* CTLconnection.run(): one line, the first chunk that ends one and all before
\* it.  The last value of an open line runs into the message that follows; JUNK
\* stands for it and for what comes behind it.
line_vals(line) ==
    LET vals == Head(line).vals
    IN  IF Len(line) = 1 THEN vals
        ELSE {JUNK} \cup IF vals = {} THEN {} ELSE vals \ {Max(vals)}

\* The number a line with one value holds.
number(vals) == CHOOSE n \in vals : TRUE

\* One attribute of the client is set.
store(v, key, value) == [v EXCEPT ![key] = value]

shown(v, line) ==
    LET key == Head(line).key
        vals == line_vals(line)
    IN  IF key \in {"pieces", "peers"} THEN store(v, key, vals)
        ELSE store(v, key, number(vals))

run(c) ==
    /\ c \in conns
    /\ \E k \in 1..Len(out[c]) :
        /\ out[c][k].nl /\ \A j \in 1..k - 1 : ~ out[c][j].nl
        /\ view' = [view EXCEPT ![c] = shown(@, SubSeq(out[c], 1, k))]
        /\ out' = [out EXCEPT ![c] = SubSeq(@, k + 1, Len(@))]
    /\ UNCHANGED <<good, peers, downloaded, started, listening, conns, running>>

Next ==
    /\ running
    /\ \/ accept_error
       \/ \E c \in Conn : ctl_server_handle_connect(c)
       \/ \E c \in Conn : ctl_server_handle_conn_error(c)
       \/ \E c \in Conn : run(c)
       \/ network_peer_read_piece
       \/ \E i \in Piece : piece_verified(i)
       \/ \E p \in Peer : peer_comes(p)
       \/ \E p \in Peer : peer_goes(p)
       \/ \E new \in SUBSET Peer : network_peerlist_update(new)

Spec == Init /\ [][Next]_vars

-----------------------------------------------------------------------------
\* What may be written to a client, and what a client may show.
Message ==
    [key : {"torrent_bytes", "bytes", "pieces", "peers"}, vals : SUBSET Int, nl : BOOLEAN]

View == [torrent_bytes : Int, bytes : Int, pieces : SUBSET Int, peers : SUBSET Int]

\* The variables keep their types: all that is on its way to a client is one of the
\* messages it can tell apart.
CtlTypeOK ==
    /\ good \subseteq Piece /\ peers \subseteq Peer /\ conns \subseteq Conn
    /\ downloaded \in Nat /\ started \in Nat /\ listening \in BOOLEAN
    /\ out \in [Conn -> Seq(Message)]
    /\ view \in [Conn -> View]

\* A client that has read everything shows exactly the verified pieces, whenever
\* it connected: the open line an empty list leaves (ctl_server_pieces() before
\* the first piece) is always ended by the bytes of network_peer_read_piece()
\* before the pieces are told.
PiecesShown ==
    running =>
        \A c \in conns : out[c] = <<>> /\ whole(good) => view[c].pieces = good

\* A client never shows a piece we do not have, nor, in the sum status() prints,
\* more bytes than we have received, however late it connects or reads: the
\* bootstrap and the notifications of bytes count disjoint parts.
NeverAhead ==
    \A c \in conns :
        /\ view[c].pieces \cap Piece \subseteq good
        /\ view[c].torrent_bytes + view[c].bytes <= started + downloaded

\* Before the first piece a client's list of pieces stays empty, as the comment
\* in its handler for "pieces" ("no pieces yet") expects.
NoPiecesYet == \A c \in conns : good = {} => view[c].pieces = {}
=============================================================================
