------------------------------ MODULE Download ------------------------------
(***************************************************************************)
(* The download side of a session: what the peer message handler           *)
(* (network_peer_process_message) and the one-second scheduler do with the *)
(* peers, the block requests of module PieceDl and the torrent's pieces.   *)
(*                                                                         *)
(* The program is one thread running libevent callbacks, so a handler is   *)
(* never interrupted.  A handler with a loop is a chain of steps here: the *)
(* variable at says which loop is running, and only the running handler    *)
(* can take a step until at is "idle" again.                               *)
(*                                                                         *)
(* Peers are not trusted: any message may come from any connected peer at  *)
(* any time, until the connection is reaped.  Time is abstracted: a peer   *)
(* may exceed the communication threshold at any tick, a peer's rate may   *)
(* ask for any queue length, and the rarity array may be of any age.       *)
(***************************************************************************)
EXTENDS PieceDl, Integers, FiniteSets

CONSTANTS
    NumPieces,     \* tp->num_pieces
    NumBlocks,     \* NumBlocks[i] is the number of blocks of piece i
    MinQueue,      \* shortest request queue of an unchoked peer (2)
    MaxRequests,   \* MAX_REQUESTS, longest such queue (100)
    RandomPieces,  \* the first pieces are chosen at random (4)
    U32,           \* one more than the largest u_int32_t
    Seed           \* the -s option: stay and upload once complete

Piece == 0..(NumPieces - 1)

ASSUME PieceAssumption == NumPieces \in Nat \ {0} /\ NumBlocks \in [Piece -> Nat \ {0}]
ASSUME BlockAssumption == Block = UNION {{<<i, o>> : o \in 0..(NumBlocks[i] - 1)} : i \in Piece}
ASSUME QueueAssumption == /\ MinQueue \in Nat /\ MaxRequests \in Nat /\ RandomPieces \in Nat
                          /\ MinQueue <= MaxRequests
                          /\ U32 \in Nat /\ MaxRequests < U32
ASSUME SeedAssumption == Seed \in BOOLEAN

Flag == {"CHOKED", "HANDSHAKE", "BITFIELD", "ESTABLISHED", "AMINTERESTED", "FAST", "DEAD"}

VARIABLES
    peers,         \* sc->peers
    state,         \* p->state
    bitfield,      \* p->bitfield: NULL or the pieces whose bit is set
    dl_queue_len,  \* p->dl_queue_len
    cksumok,       \* the pieces flagged TORRENT_PIECE_CKSUMOK
    mapped,        \* the pieces flagged TORRENT_PIECE_MAPPED
    good_pieces,   \* tp->good_pieces
    data,          \* is the stored content of each block the torrent's?
    rarity_array,  \* sc->rarity_array: NULL or the piece at each position
    at,            \* the loop the running handler is in
    todo,          \* the peers scheduler() has still to visit
    cur,           \* the peer, piece and counter of the running loop
    piece,
    count

session == <<peers, state, bitfield, dl_queue_len>>
torrent == <<cksumok, mapped, good_pieces, data>>
control == <<at, todo, cur, piece, count>>
vars == <<pdvars, session, torrent, rarity_array, control>>

Least(S) == {x \in S : \A y \in S : x <= y}

blocks(i) == {b \in Block : b[1] = i}

\* Bit i of bitfield bf is there and set.
getbit(bf, i) == bf # NULL /\ i \in bf

connected(p) == p \in Range(peers) /\ "HANDSHAKE" \notin state[p]

------------------------------------------------------------------------------
(* Choosing what to ask for.                                                *)

\* Mutation of scheduler_piece_assigned: a complete orphan counts as unassigned.
scheduler_piece_assigned_owner_only(i) ==
    \A b \in blocks(i) : \E d \in find_any(b) : piece_dl[d].pc # NULL

\* Every block's first request is complete or a peer works on it.
scheduler_piece_assigned(i) ==
    \A b \in blocks(i) : \E d \in find_any(b) : complete(d) \/ piece_dl[d].pc # NULL

scheduler_is_endgame == \A i \in Piece \ cksumok : scheduler_piece_assigned(i)

wanted(i) == i \notin cksumok /\ ~ scheduler_piece_assigned(i)

\* How many established peers have piece i, for the peers' states st and
\* bitfields bf.
rarity(st, bf, i) == Cardinality({p \in Range(peers) : "ESTABLISHED" \in st[p] /\ getbit(bf[p], i)})

\* The arrays scheduler_piece_rarityarray() may build: qsort is not stable.
scheduler_piece_rarityarray(st, bf) ==
    {f \in Bijection(Piece, Piece) :
        \A i, j \in Piece : i < j => rarity(st, bf, f[i]) <= rarity(st, bf, f[j])}

\* The arrays scheduler_piece_find_rarest() may work with: the first use builds
\* one, a later use builds a new one if the old is more than RARITY_AGE old.
rarity_arrays(st, bf) == scheduler_piece_rarityarray(st, bf) \cup ({rarity_array} \ {NULL})

\* The piece at the first suitable position of array ra, for a peer with
\* bitfield bf.  The bit tested is the one numbered by the position, not by the
\* piece, and there is no test without a bitfield.
scheduler_piece_find_rarest(bf, ra) ==
    {ra[i] : i \in Least({k \in Piece : (bf = NULL \/ k \in bf) /\ wanted(ra[k])})}

\* scheduler_piece_gimme() as far as get_block, for a peer with bitfield bf: the
\* pieces it may choose (none where it returns NULL) and the rarity array it
\* leaves, one of arrays if it has to use one.
started(bf) == {i \in {b[1] : b \in tree} : wanted(i) /\ getbit(bf, i)}
useful(bf) == {i \in Piece : wanted(i) /\ getbit(bf, i)}
scheduler_piece_gimme(bf, arrays) ==
    IF started(bf) # {} THEN {[pieces |-> Least(started(bf)), array |-> rarity_array]}
    ELSE IF good_pieces < RandomPieces /\ NumPieces > RandomPieces
    THEN {[pieces |-> useful(bf), array |-> rarity_array]}
    ELSE {[pieces |-> scheduler_piece_find_rarest(bf, ra), array |-> ra] : ra \in arrays}

\* The block's first request is an incomplete one that no peer works on.
orphaned(b) == \E d \in find_any(b) : piece_dl[d].pc = NULL /\ ~ complete(d)

\* Where the search of get_block stops: it does not use
\* scheduler_piece_assigned(), whose test it repeats.
unassigned(b) == find_any(b) = {} \/ orphaned(b)

\* The rest of scheduler_piece_gimme(): a request for the first block of piece i
\* that is assigned to nobody (errx if there is none).
next_block(i) == Least({b[2] : b \in {c \in blocks(i) : unassigned(c)}})

\* Mutation of get_block: a recycled request is put in the peer's list only.
get_block_keeps_orphan(p, i) ==
    \E o \in next_block(i) :
        IF find_any(<<i, o>>) = {}
        THEN \E d \in Pd : network_piece_dl_create(p, <<i, o>>, d)
        ELSE /\ \E d \in find_any(<<i, o>>) :
                  peer_piece_dls' = [peer_piece_dls EXCEPT ![p] = TAILQ_INSERT_TAIL(@, d)]
             /\ UNCHANGED <<piece_dl, tree, idxnode_piece_dls>>

\* Mutation of get_block: the peer's own list is searched, as in the end game.
get_block_own_list(p, i) ==
    \E o \in Least({b[2] : b \in {c \in blocks(i) : FirstFor(peer_piece_dls[p], c) = {}}}), d \in Pd :
        network_piece_dl_create(p, <<i, o>>, d)

get_block(p, i) ==
    \E o \in next_block(i) :
        IF find_any(<<i, o>>) = {}
        THEN \E d \in Pd : network_piece_dl_create(p, <<i, o>>, d)
        ELSE \E d \in find_any(<<i, o>>) : recycle(p, d)

------------------------------------------------------------------------------
(* Peers come and go.                                                       *)

\* network_handle_peer_connect() or network_peerlist_connect().
connect(p) ==
    /\ at = "idle"
    /\ p \notin Range(peers)
    /\ peers' = Append(peers, p)
    /\ state' = [state EXCEPT ![p] = {"CHOKED", "HANDSHAKE"}]
    /\ UNCHANGED <<pdvars, bitfield, dl_queue_len, torrent, rarity_array, control>>

\* network_handle_peer_response() on the last byte of the handshake.
handshake_done(p, fast) ==
    /\ at = "idle"
    /\ p \in Range(peers) /\ "HANDSHAKE" \in state[p]
    /\ state' = [state EXCEPT ![p] = (@ \ {"HANDSHAKE"}) \cup {"BITFIELD"}
                                         \cup IF fast THEN {"FAST"} ELSE {}]
    /\ UNCHANGED <<pdvars, peers, bitfield, dl_queue_len, torrent, rarity_array, control>>

kill(p) == state' = [state EXCEPT ![p] = {"DEAD"}]

\* network_handle_peer_error(), and every message that makes the client give up
\* on the peer without touching anything else.
network_handle_peer_error(p) ==
    /\ at = "idle"
    /\ p \in Range(peers)
    /\ kill(p)
    /\ UNCHANGED <<pdvars, peers, bitfield, dl_queue_len, torrent, rarity_array, control>>

------------------------------------------------------------------------------
(* Messages: network_peer_process_message().                                *)

\* Mutation of subtract: the counter is signed.
subtract_signed(n, k) == n - k

subtract(n, k) == (n - k) % U32

MSG_CHOKE(p) ==
    /\ at = "idle" /\ connected(p)
    /\ state' = [state EXCEPT ![p] = @ \cup {"CHOKED"}]
    /\ IF "FAST" \in state[p]
       THEN UNCHANGED <<pdvars, dl_queue_len>>
       ELSE /\ orphan_all(p)
            /\ dl_queue_len' = [dl_queue_len EXCEPT ![p] = subtract(@, Len(peer_piece_dls[p]))]
    /\ UNCHANGED <<peers, bitfield, torrent, rarity_array, control>>

MSG_UNCHOKE(p) ==
    /\ at = "idle" /\ connected(p)
    /\ state' = [state EXCEPT ![p] = @ \ {"CHOKED"}]
    /\ UNCHANGED <<pdvars, peers, bitfield, dl_queue_len, torrent, rarity_array, control>>

\* The end of the HAVE, BITFIELD, HAVEALL and HAVENONE handlers, which give p
\* the flags fl and the bitfield bf: does this peer have anything we want?
interest(p, fl, bf) ==
    LET bfs == [bitfield EXCEPT ![p] = bf]
        sts == [state EXCEPT ![p] = fl]
    IN  \E g \in scheduler_piece_gimme(bf, rarity_arrays(sts, bfs)) :
            /\ bitfield' = bfs
            /\ state' = IF g.pieces = {} THEN sts ELSE [sts EXCEPT ![p] = @ \cup {"AMINTERESTED"}]
            /\ rarity_array' = g.array
            /\ UNCHANGED <<pdvars, peers, dl_queue_len, torrent, control>>

\* Mutation of established: the flags are assigned, not added.
established_assigns(p) == {"ESTABLISHED"}

established(p) == (state[p] \ {"BITFIELD"}) \cup {"ESTABLISHED"}

\* HAVE creates an empty bitfield if the peer sent none.
MSG_HAVE(p, i) ==
    /\ at = "idle" /\ connected(p)
    /\ IF bitfield[p] = NULL THEN interest(p, established(p), {i})
       ELSE interest(p, state[p], bitfield[p] \cup {i})

\* BITFIELD of the right length; HAVEALL and HAVENONE are BITFIELD with every
\* bit and with no bit set.
MSG_BITFIELD(p, bf) ==
    /\ at = "idle" /\ connected(p) /\ "BITFIELD" \in state[p]
    /\ interest(p, established(p), bf)

\* Mutation of MSG_PIECE: a piece that is already verified is written again.
MSG_PIECE_rewrites(p, b, ok) ==
    /\ at = "idle" /\ connected(p)
    /\ network_piece_dl_find(p, b) # {}
    /\ dl_queue_len' = [dl_queue_len EXCEPT ![p] = subtract(@, 1)]
    /\ mapped' = mapped \cup {b[1]}
    /\ data' = [data EXCEPT ![b] = ok]
    /\ \E d \in network_piece_dl_find(p, b) : count_bytes(d)
    /\ IF \A c \in blocks(b[1]) : \E d \in network_piece_dl_find(p, c) : piece_dl'[d].bytes = LEN
       THEN at' = "checkhash" /\ piece' = b[1]
       ELSE UNCHANGED <<at, piece>>
    /\ UNCHANGED <<state, cksumok, good_pieces, todo, cur, count, peers, bitfield, rarity_array>>

\* PIECE for block b, of the length requested.  Every block of the piece is then
\* looked for, the peer's own requests first.
MSG_PIECE(p, b, ok) ==
    /\ at = "idle" /\ connected(p)
    /\ IF network_piece_dl_find(p, b) = {}
       THEN kill(p) /\ UNCHANGED <<pdvars, dl_queue_len, torrent, control>>
       ELSE IF b[1] \in cksumok
       THEN UNCHANGED <<pdvars, state, dl_queue_len, torrent, control>>
       ELSE /\ dl_queue_len' = [dl_queue_len EXCEPT ![p] = subtract(@, 1)]
            /\ mapped' = mapped \cup {b[1]}
            /\ data' = [data EXCEPT ![b] = ok]
            /\ \E d \in network_piece_dl_find(p, b) : count_bytes(d)
            /\ IF \A c \in blocks(b[1]) :
                    \E d \in network_piece_dl_find(p, c) : piece_dl'[d].bytes = LEN
               THEN at' = "checkhash" /\ piece' = b[1]
               ELSE UNCHANGED <<at, piece>>
            /\ UNCHANGED <<state, cksumok, good_pieces, todo, cur, count>>
    /\ UNCHANGED <<peers, bitfield, rarity_array>>

\* Is the content of piece i, stored in its map, what the torrent says?
torrent_piece_checkhash(i) == \A b \in blocks(i) : data[b]

\* Mutation of checkhash: the piece is counted whatever the hash.
checkhash_counts_all ==
    /\ at = "checkhash"
    /\ mapped' = mapped \ {piece}
    /\ cksumok' = IF torrent_piece_checkhash(piece) THEN cksumok \cup {piece} ELSE cksumok
    /\ good_pieces' = good_pieces + 1
    /\ at' = IF good_pieces' = NumPieces /\ ~ Seed THEN "exit" ELSE "cleanup"
    /\ count' = 0
    /\ UNCHANGED <<pdvars, session, data, rarity_array, todo, cur, piece>>

\* The PIECE handler goes on when it found every block complete.  A download
\* that is complete ends the program unless it is to seed.
checkhash ==
    /\ at = "checkhash"
    /\ mapped' = mapped \ {piece}
    /\ IF piece \notin mapped THEN at' = "errx" /\ UNCHANGED <<cksumok, good_pieces>>
       ELSE IF torrent_piece_checkhash(piece)
       THEN /\ cksumok' = cksumok \cup {piece}
            /\ good_pieces' = good_pieces + 1
            /\ at' = IF good_pieces' = NumPieces /\ ~ Seed THEN "exit" ELSE "cleanup"
       ELSE at' = "cleanup" /\ UNCHANGED <<cksumok, good_pieces>>
    /\ count' = 0
    /\ UNCHANGED <<pdvars, session, data, rarity_array, todo, cur, piece>>

\* Mutation of cleanup: every request for the piece is freed.
cleanup_all ==
    /\ at = "cleanup"
    /\ IF find_any(<<piece, count>>) # {}
       THEN /\ \E d \in find_any(<<piece, count>>) : network_piece_dl_free(d)
            /\ UNCHANGED <<at, piece, count>>
       ELSE /\ UNCHANGED pdvars
            /\ IF count + 1 < NumBlocks[piece] THEN count' = count + 1 /\ UNCHANGED <<at, piece>>
               ELSE count' = 0 /\ at' = "idle" /\ piece' = NULL
    /\ UNCHANGED <<session, torrent, rarity_array, todo, cur>>

\* Whatever the hash, the first request of each block of the piece is freed.
cleanup ==
    /\ at = "cleanup"
    /\ IF find_any(<<piece, count>>) = {} THEN UNCHANGED pdvars
       ELSE \E d \in find_any(<<piece, count>>) : network_piece_dl_free(d)
    /\ IF count + 1 < NumBlocks[piece] THEN count' = count + 1 /\ UNCHANGED <<at, piece>>
       ELSE count' = 0 /\ at' = "idle" /\ piece' = NULL
    /\ UNCHANGED <<session, torrent, rarity_array, todo, cur>>

\* Mutation of MSG_REJECT: the request is freed but still counted.
MSG_REJECT_still_counted(p, b) ==
    /\ at = "idle" /\ connected(p)
    /\ "FAST" \in state[p] /\ network_piece_dl_find(p, b) # {}
    /\ \E d \in network_piece_dl_find(p, b) : network_piece_dl_free(d)
    /\ UNCHANGED <<session, torrent, rarity_array, control>>

\* Mutation of MSG_REJECT: the request is no longer counted but not freed.
MSG_REJECT_not_freed(p, b) ==
    /\ at = "idle" /\ connected(p)
    /\ "FAST" \in state[p] /\ network_piece_dl_find(p, b) # {}
    /\ dl_queue_len' = [dl_queue_len EXCEPT ![p] = subtract(@, 1)]
    /\ UNCHANGED <<pdvars, peers, state, bitfield, torrent, rarity_array, control>>

MSG_REJECT(p, b) ==
    /\ at = "idle" /\ connected(p)
    /\ IF "FAST" \notin state[p]
       THEN kill(p) /\ UNCHANGED <<pdvars, dl_queue_len>>
       ELSE IF network_piece_dl_find(p, b) = {}
       THEN UNCHANGED <<pdvars, state, dl_queue_len>>
       ELSE /\ \E d \in network_piece_dl_find(p, b) : network_piece_dl_free(d)
            /\ dl_queue_len' = [dl_queue_len EXCEPT ![p] = subtract(@, 1)]
            /\ UNCHANGED state
    /\ UNCHANGED <<peers, bitfield, torrent, rarity_array, control>>

------------------------------------------------------------------------------
(* scheduler(): a tick visits every peer, then runs the end game.           *)

\* Mutation of tick: the first peer of the list is skipped.
tick_skips_first ==
    /\ at = "idle"
    /\ at' = "peers" /\ todo' = IF peers = <<>> THEN <<>> ELSE Tail(peers)
    /\ UNCHANGED <<pdvars, session, torrent, rarity_array, cur, piece, count>>

tick ==
    /\ at = "idle"
    /\ at' = "peers" /\ todo' = peers
    /\ UNCHANGED <<pdvars, session, torrent, rarity_array, cur, piece, count>>

scheduler_reap_dead ==
    /\ at = "peers" /\ todo # <<>>
    /\ "DEAD" \in state[Head(todo)]
    /\ peers' = TAILQ_REMOVE(peers, Head(todo))
    /\ at' = "free" /\ cur' = Head(todo) /\ todo' = Tail(todo)
    /\ UNCHANGED <<pdvars, state, bitfield, dl_queue_len, torrent, rarity_array, piece, count>>

\* Mutation of network_peer_free: the peer's requests are left alone.
network_peer_free_peer_only ==
    /\ at \in {"free", "evict"}
    /\ state' = [state EXCEPT ![cur] = {}]
    /\ bitfield' = [bitfield EXCEPT ![cur] = NULL]
    /\ dl_queue_len' = [dl_queue_len EXCEPT ![cur] = 0]
    /\ at' = IF at = "free" THEN "peers" ELSE "idle"
    /\ cur' = NULL
    /\ UNCHANGED <<pdvars, peers, torrent, rarity_array, todo, piece, count>>

\* network_peer_free(): the peer's requests, then the peer itself.
network_peer_free ==
    /\ at \in {"free", "evict"}
    /\ IF peer_piece_dls[cur] = <<>> THEN UNCHANGED pdvars ELSE network_peer_free_dl(cur)
    /\ IF Len(peer_piece_dls[cur]) > 1 THEN UNCHANGED <<state, bitfield, dl_queue_len, at, cur>>
       ELSE /\ state' = [state EXCEPT ![cur] = {}]
            /\ bitfield' = [bitfield EXCEPT ![cur] = NULL]
            /\ dl_queue_len' = [dl_queue_len EXCEPT ![cur] = 0]
            /\ at' = IF at = "free" THEN "peers" ELSE "idle"
            /\ cur' = NULL
    /\ UNCHANGED <<peers, torrent, rarity_array, todo, piece, count>>

\* network_peerlist_connect() with too many peers: the first ones are freed,
\* whatever their state.
evict ==
    /\ at = "idle" /\ peers # <<>>
    /\ peers' = TAILQ_REMOVE(peers, Head(peers))
    /\ at' = "evict" /\ cur' = Head(peers)
    /\ UNCHANGED <<pdvars, state, bitfield, dl_queue_len, torrent, rarity_array, todo, piece, count>>

scheduler_threshold_kill ==
    /\ at = "peers" /\ todo # <<>>
    /\ "DEAD" \notin state[Head(todo)]
    /\ state[Head(todo)] \cap {"BITFIELD", "ESTABLISHED"} # {}
    /\ kill(Head(todo))
    /\ todo' = Tail(todo)
    /\ UNCHANGED <<pdvars, peers, bitfield, dl_queue_len, torrent, rarity_array, at, cur, piece, count>>

\* scheduler_fill_requests(): how many requests the peer's rate leaves room for.
fill_room(p, queue_len) ==
    IF queue_len < dl_queue_len[p] THEN 0 ELSE queue_len - dl_queue_len[p]

fill_loop(p, n) ==
    IF n = 0 THEN at' = "peers" /\ cur' = NULL /\ count' = 0
    ELSE at' = "fill" /\ cur' = p /\ count' = n

scheduler_fill_requests ==
    /\ at = "peers" /\ todo # <<>>
    /\ "DEAD" \notin state[Head(todo)]
    /\ todo' = Tail(todo)
    /\ IF "CHOKED" \in state[Head(todo)] \/ good_pieces = NumPieces
       THEN UNCHANGED <<at, cur, count>>
       ELSE \E queue_len \in MinQueue..MaxRequests :
                fill_loop(Head(todo), fill_room(Head(todo), queue_len))
    /\ UNCHANGED <<pdvars, session, torrent, rarity_array, piece>>

\* One turn of its loop.
fill_one ==
    /\ at = "fill"
    /\ \E g \in scheduler_piece_gimme(bitfield[cur], rarity_arrays(state, bitfield)) :
         /\ rarity_array' = g.array
         /\ IF g.pieces = {}
            THEN fill_loop(cur, count - 1) /\ UNCHANGED <<pdvars, dl_queue_len>>
            ELSE \E i \in g.pieces :
                 IF next_block(i) = {}
                 THEN at' = "errx" /\ UNCHANGED <<pdvars, dl_queue_len, cur, count>>
                 ELSE /\ get_block(cur, i)
                      /\ dl_queue_len' = [dl_queue_len EXCEPT ![cur] = (@ + 1) % U32]
                      /\ fill_loop(cur, count - 1)
    /\ UNCHANGED <<peers, state, bitfield, torrent, todo, piece>>

\* The (peer, block) pairs scheduler_endgame_algorithm() has still to request.
endgame_work ==
    {w \in Range(peers) \X Block :
        /\ w[2][1] \notin cksumok
        /\ bitfield[w[1]] # NULL /\ w[2][1] \notin bitfield[w[1]]
        /\ "CHOKED" \notin state[w[1]]
        /\ FirstFor(peer_piece_dls[w[1]], w[2]) = {}}

\* Pieces in order, for each one the peers in order, for each one its blocks.
position(p) == CHOOSE k \in 1..Len(peers) : peers[k] = p
before(v, w) ==
    \/ v[2][1] < w[2][1]
    \/ v[2][1] = w[2][1] /\ position(v[1]) < position(w[1])
    \/ v[2][1] = w[2][1] /\ v[1] = w[1] /\ v[2][2] < w[2][2]

\* After the last peer.
scheduler_end ==
    /\ at = "peers" /\ todo = <<>>
    /\ at' = IF scheduler_is_endgame /\ endgame_work # {} THEN "endgame" ELSE "idle"
    /\ UNCHANGED <<pdvars, session, torrent, rarity_array, todo, cur, piece, count>>

scheduler_endgame_algorithm ==
    /\ at = "endgame"
    /\ \E w \in endgame_work, d \in Pd :
         /\ \A v \in endgame_work : ~ before(v, w)
         /\ network_piece_dl_create(w[1], w[2], d)
         /\ dl_queue_len' = [dl_queue_len EXCEPT ![w[1]] = (@ + 1) % U32]
         /\ at' = IF endgame_work = {w} THEN "idle" ELSE "endgame"
    /\ UNCHANGED <<peers, state, bitfield, torrent, rarity_array, todo, cur, piece, count>>

\* exit(0) in the PIECE handler; errx().
exited == at \in {"exit", "errx"} /\ UNCHANGED vars

------------------------------------------------------------------------------
\* The pieces the fast resume file or the initial hash check found good; the
\* other blocks hold anything.  main() exits at once if there is nothing to do.
Init ==
    /\ PdInit
    /\ peers = <<>>
    /\ state = [p \in Peer |-> {}]
    /\ bitfield = [p \in Peer |-> NULL]
    /\ dl_queue_len = [p \in Peer |-> 0]
    /\ cksumok \in SUBSET Piece
    /\ good_pieces = Cardinality(cksumok)
    /\ good_pieces = NumPieces => Seed
    /\ mapped = {}
    /\ data \in [Block -> BOOLEAN]
    /\ \A b \in Block : b[1] \in cksumok => data[b]
    /\ rarity_array = NULL
    /\ at = "idle" /\ todo = <<>> /\ cur = NULL /\ piece = NULL /\ count = 0

message(p) ==
    \/ MSG_CHOKE(p)
    \/ MSG_UNCHOKE(p)
    \/ \E i \in Piece : MSG_HAVE(p, i)
    \/ \E bf \in SUBSET Piece : MSG_BITFIELD(p, bf)
    \/ \E b \in Block, ok \in BOOLEAN : MSG_PIECE(p, b, ok)
    \/ \E b \in Block : MSG_REJECT(p, b)

\* The steps of the handler that is running.
handler ==
    \/ checkhash
    \/ cleanup
    \/ scheduler_reap_dead
    \/ network_peer_free
    \/ scheduler_threshold_kill
    \/ scheduler_fill_requests
    \/ fill_one
    \/ scheduler_end
    \/ scheduler_endgame_algorithm

Next ==
    \/ \E p \in Peer : connect(p)
    \/ \E p \in Peer, fast \in BOOLEAN : handshake_done(p, fast)
    \/ \E p \in Peer : network_handle_peer_error(p)
    \/ \E p \in Peer : message(p)
    \/ tick
    \/ evict
    \/ handler
    \/ exited

Spec == Init /\ [][Next]_vars

------------------------------------------------------------------------------
\* The variables keep their types: dl_queue_len stays in its 32 bits although it
\* is decremented past zero, and rarity_array stays a permutation of the pieces.
TypeOK ==
    /\ peers \in Seq(Peer)
    /\ state \in [Peer -> SUBSET Flag]
    /\ bitfield \in [Peer -> (SUBSET Piece) \cup {NULL}]
    /\ dl_queue_len \in [Peer -> 0..(U32 - 1)]
    /\ cksumok \subseteq Piece
    /\ mapped \subseteq Piece
    /\ good_pieces \in Nat
    /\ data \in [Block -> BOOLEAN]
    /\ rarity_array \in Bijection(Piece, Piece) \cup {NULL}
    /\ at \in {"idle", "checkhash", "cleanup", "peers", "free", "evict",
               "fill", "endgame", "exit", "errx"}
    /\ todo \in Seq(Peer)
    /\ cur \in Peer \cup {NULL}
    /\ piece \in Piece \cup {NULL}
    /\ count \in Nat

\* A request is assigned to a connected peer or to none: reaping or evicting a
\* peer leaves no request pointing at the freed struct peer, except those its
\* running network_peer_free() has still to visit.
OwnersConnected ==
    \A d \in Live : piece_dl[d].pc # NULL =>
        \/ piece_dl[d].pc \in Range(peers)
        \/ at \in {"free", "evict"} /\ piece_dl[d].pc = cur

\* What is flagged TORRENT_PIECE_CKSUMOK is the torrent's data, for ever: no
\* late, duplicate or unrequested PIECE overwrites a verified piece.
VerifiedIntact == \A b \in Block : b[1] \in cksumok => data[b]

\* tp->good_pieces counts the verified pieces: no piece is counted twice, so
\* the program exits when, and only when, every piece is there.
GoodPiecesExact == good_pieces = Cardinality(cksumok)

\* errx() is never reached: a piece chosen by scheduler_piece_gimme() has a block
\* for get_block, and a piece that is hash checked is mapped.
NoErrx == at # "errx"

\* A peer marked dead stays marked until its memory is released, whatever it
\* sends in between: the scheduler is sure to reap it.
DeadUntilReaped ==
    [][\A p \in Peer : "DEAD" \in state[p] =>
         \/ "DEAD" \in state'[p]
         \/ at \in {"free", "evict"} /\ cur = p]_vars

\* Every dead peer is reaped, whatever the other peers send meanwhile, unless
\* the program ends first.  Module Swarm states the fairness.
DeadReaped ==
    \A p \in Peer : ("DEAD" \in state[p]) ~> (state[p] = {} \/ at \in {"exit", "errx"})

\* The end game asks for a missing piece the peers that have it.
EndgameAsksHolders ==
    [][at = "endgame" => \A d \in Pd :
         (piece_dl[d] = NULL /\ piece_dl'[d] # NULL) =>
             getbit(bitfield[piece_dl'[d].pc], piece_dl'[d].blk[1])]_vars
==============================================================================
