--------------------------- MODULE Download_proofs ---------------------------
(* The download side implements PieceDl, keeps its own state consistent and   *)
(* never overwrites verified data, for every number of peers, pieces, blocks  *)
(* and requests.                                                              *)
EXTENDS Download, PieceDl_proofs, FiniteSetTheorems, WellFoundedInduction

------------------------------------------------------------------------------
(* The inductive invariant.                                                   *)

\* What the running loop may rely on.
Control ==
    /\ IsInjective(peers) /\ IsInjective(todo) /\ Range(todo) \subseteq Range(peers)
    /\ at \in {"idle", "checkhash", "cleanup", "evict", "endgame"} => todo = <<>>
    /\ at \in {"free", "evict"} => cur \in Peer /\ cur \notin Range(peers)
    /\ at = "fill" => cur \in Range(peers) /\ count # 0
    /\ at = "checkhash" => piece \in mapped /\ piece \notin cksumok
    /\ at = "cleanup" => piece \in Piece /\ count < NumBlocks[piece]

\* Peer p is in the session's list, or is just being freed.
known(p) == p \in Range(peers) \/ (at \in {"free", "evict"} /\ p = cur)

\* Other peers have no requests and no flags.
Unknown == \A p \in Peer : ~ known(p) => peer_piece_dls[p] = <<>> /\ state[p] = {}

Sound == /\ TypeOK /\ Control /\ Unknown
         /\ VerifiedIntact /\ GoodPiecesExact /\ NoErrx

DInv == PdInv /\ Sound

------------------------------------------------------------------------------
(* Helpers.                                                                   *)

\* A set of naturals that is not empty has a least element.
LEMMA LeastExists ==
    ASSUME NEW S \in SUBSET Nat, S # {}
    PROVE  Least(S) # {}
<1> DEFINE R == {ss \in Nat \X Nat : ss[1] < ss[2]}
<1>1. IsWellFoundedOn(R, Nat)
  BY NatLessThanWellFounded, Zenon DEF OpToRel
<1> HIDE DEF R
<1>2. PICK x \in S : \A y \in S : ~ (<<y, x>> \in R)
  BY <1>1, WFMin, Zenon
<1>3. ASSUME NEW y \in S PROVE x <= y
  <2>1. ~ (<<y, x>> \in R) /\ x \in Nat /\ y \in Nat
    BY <1>2
  <2> QED
    BY <2>1 DEF R
<1> QED
  BY <1>3 DEF Least

\* The index and the number of a block.
LEMMA BlockParts ==
    ASSUME NEW b \in Block
    PROVE  /\ b[1] \in Piece /\ b[2] \in Nat /\ b = <<b[1], b[2]>>
           /\ \A i \in Piece, o \in Nat : o < NumBlocks[i] => <<i, o>> \in Block
<1>1. PICK i \in Piece : b \in {<<i, o>> : o \in 0..(NumBlocks[i] - 1)}
  BY BlockAssumption
<1>2. PICK o \in 0..(NumBlocks[i] - 1) : b = <<i, o>>
  BY <1>1
<1>3. \A j \in Piece, n \in Nat : n < NumBlocks[j] => n \in 0..(NumBlocks[j] - 1)
  BY PieceAssumption
<1> QED
  BY <1>2, <1>3, BlockAssumption, PieceAssumption

\* Unsigned arithmetic stays in range.
LEMMA Unsigned ==
    ASSUME NEW x \in Int
    PROVE  x % U32 \in 0..(U32 - 1)
  BY QueueAssumption

\* The rest of a list without duplicates.
LEMMA QueueTail ==
    ASSUME NEW S, NEW s \in Seq(S), s # <<>>, IsInjective(s)
    PROVE  /\ Tail(s) \in Seq(S) /\ IsInjective(Tail(s))
           /\ Range(Tail(s)) = Range(s) \ {Head(s)}
<1> DEFINE n == Len(s)
           t == Tail(s)
<1>1. /\ n \in Nat /\ n # 0 /\ DOMAIN s = 1..n /\ t \in Seq(S)
      /\ DOMAIN t = 1..(n - 1) /\ \A i \in 1..(n - 1) : t[i] = s[i + 1]
      /\ Head(s) = s[1]
  OBVIOUS
<1> HIDE DEF n, t
<1>2. IsInjective(t)
  <2> SUFFICES ASSUME NEW i \in 1..(n - 1), NEW j \in 1..(n - 1), t[i] = t[j] PROVE i = j
    BY <1>1 DEF IsInjective
  <2>1. i + 1 \in DOMAIN s /\ j + 1 \in DOMAIN s /\ s[i + 1] = s[j + 1]
    BY <1>1
  <2>2. i + 1 = j + 1
    BY <2>1 DEF IsInjective
  <2> QED
    BY <2>2
<1>3. ASSUME NEW x \in Range(t) PROVE x \in Range(s) /\ x # s[1]
  BY <1>1 DEF Range, IsInjective
<1>4. ASSUME NEW x \in Range(s), x # s[1] PROVE x \in Range(t)
  <2>1. PICK i \in 1..n : x = s[i]
    BY <1>1 DEF Range
  <2>2. i - 1 \in 1..(n - 1) /\ t[i - 1] = x
    BY <1>1, <1>4, <2>1
  <2> QED
    BY <1>1, <2>2 DEF Range
<1> QED
  BY <1>1, <1>2, <1>3, <1>4 DEF t

\* Searches return requests.
LEMMA FindType ==
    ASSUME PdInv, NEW b \in Block
    PROVE  /\ find_any(b) \subseteq Live
           /\ \A p \in Peer : FirstFor(peer_piece_dls[p], b) \subseteq Live
           /\ \A p \in Peer : network_piece_dl_find(p, b) \subseteq Live
           /\ Live \subseteq Pd
<1>1. find_any(b) \subseteq Live
  <2>1. idxnode_piece_dls[b] \in Seq(Pd)
    BY DEF PdInv, PdTypeOK
  <2>2. Range(idxnode_piece_dls[b]) \subseteq Live
    BY DEF PdInv, Linked
  <2> QED
    BY <2>1, <2>2, EmptyRange DEF find_any
<1>2. ASSUME NEW p \in Peer PROVE FirstFor(peer_piece_dls[p], b) \subseteq Live
  <2>1. peer_piece_dls[p] \in Seq(Pd) /\ Range(peer_piece_dls[p]) \subseteq Live
    BY DEF PdInv, PdTypeOK, Linked
  <2>2. \A k \in 1..Len(peer_piece_dls[p]) : peer_piece_dls[p][k] \in Range(peer_piece_dls[p])
    BY <2>1 DEF Range
  <2> QED
    BY <2>1, <2>2 DEF FirstFor
<1> QED
  BY <1>1, <1>2 DEF network_piece_dl_find, Live

\* Freeing a request puts nothing into a list.
LEMMA FreeEmpty ==
    ASSUME PdInv, NEW d \in Pd, network_piece_dl_free(d), NEW q \in Peer, peer_piece_dls[q] = <<>>
    PROVE  peer_piece_dls'[q] = <<>>
<1>1. Range(peer_piece_dls[q]) = {}
  BY DEF Range
<1>2. d \in Live => piece_dl[d].pc # q
  BY <1>1 DEF PdInv, Linked
<1>3. d \in Live
  BY DEF network_piece_dl_free, Live
<1> QED
  BY <1>2, <1>3 DEF network_piece_dl_free, PdInv, PdTypeOK

\* Members of the lists are peers.
LEMMA PeerTypes ==
    ASSUME Sound
    PROVE  /\ Range(peers) \subseteq Peer /\ Range(todo) \subseteq Peer
           /\ at \in {"free", "evict", "fill"} => cur \in Peer
           /\ todo # <<>> => Head(todo) \in Peer /\ Head(todo) \in Range(peers)
           /\ peers # <<>> => Head(peers) \in Range(peers)
<1>1. peers \in Seq(Peer) /\ todo \in Seq(Peer)
  BY DEF Sound, TypeOK
<1>2. Range(peers) \subseteq Peer /\ Range(todo) \subseteq Peer
  BY <1>1 DEF Range
<1> QED
  BY <1>1, <1>2, EmptyRange DEF Sound, Control

------------------------------------------------------------------------------
(* Every step of the download side is an operation of PieceDl or leaves the   *)
(* requests alone.                                                            *)

\* The message handlers call the operations of PieceDl with a request they found.
LEMMA MessageRefines ==
    ASSUME DInv, NEW p \in Peer, message(p)
    PROVE  [PdNext]_pdvars
<1> USE DEF DInv
<1>1. CASE MSG_CHOKE(p)
  BY <1>1 DEF MSG_CHOKE, PdNext
<1>2. CASE MSG_UNCHOKE(p)
  BY <1>2 DEF MSG_UNCHOKE
<1>3. CASE \E i \in Piece : MSG_HAVE(p, i)
  BY <1>3 DEF MSG_HAVE, interest
<1>4. CASE \E bf \in SUBSET Piece : MSG_BITFIELD(p, bf)
  BY <1>4 DEF MSG_BITFIELD, interest
<1>5. CASE \E b \in Block, ok \in BOOLEAN : MSG_PIECE(p, b, ok)
  <2>1. PICK b \in Block, ok \in BOOLEAN : MSG_PIECE(p, b, ok)
    BY <1>5
  <2>2. network_piece_dl_find(p, b) \subseteq Pd
    BY FindType
  <2>3. UNCHANGED pdvars \/ \E d \in network_piece_dl_find(p, b) : count_bytes(d)
    BY <2>1 DEF MSG_PIECE
  <2> QED
    BY <2>2, <2>3 DEF PdNext
<1>6. CASE \E b \in Block : MSG_REJECT(p, b)
  <2>1. PICK b \in Block : MSG_REJECT(p, b)
    BY <1>6
  <2>2. network_piece_dl_find(p, b) \subseteq Pd
    BY FindType
  <2>3. UNCHANGED pdvars \/ \E d \in network_piece_dl_find(p, b) : network_piece_dl_free(d)
    BY <2>1 DEF MSG_REJECT
  <2> QED
    BY <2>2, <2>3 DEF PdNext
<1> QED
  BY <1>1, <1>2, <1>3, <1>4, <1>5, <1>6 DEF message

\* get_block creates a request or recycles one.
LEMMA GetBlockRefines ==
    ASSUME DInv, NEW p \in Peer, NEW i \in Piece, get_block(p, i)
    PROVE  /\ \/ \E b \in Block, d \in Pd : network_piece_dl_create(p, b, d)
              \/ \E d \in Pd : recycle(p, d)
           /\ PdNext
<1>1. PICK o \in next_block(i) :
        IF find_any(<<i, o>>) = {}
        THEN \E d \in Pd : network_piece_dl_create(p, <<i, o>>, d)
        ELSE \E d \in find_any(<<i, o>>) : recycle(p, d)
  BY DEF get_block
<1>2. PICK c \in blocks(i) : o = c[2]
  BY DEF next_block, Least
<1>3. c \in Block /\ <<i, o>> = c
  BY <1>2, BlockParts DEF blocks
<1>4. find_any(<<i, o>>) \subseteq Pd
  BY <1>3, FindType DEF DInv
<1> QED
  BY <1>1, <1>3, <1>4 DEF PdNext

\* A piece chosen by scheduler_piece_gimme() is a piece with a block to ask for.
LEMMA GimmeWanted ==
    ASSUME DInv, NEW bf, NEW st, NEW bfs,
           NEW g \in scheduler_piece_gimme(bf, rarity_arrays(st, bfs))
    PROVE  /\ g.array \in Bijection(Piece, Piece) \cup {NULL}
           /\ \A i \in g.pieces : i \in Piece /\ wanted(i)
<1>1. rarity_array \in Bijection(Piece, Piece) \cup {NULL}
  BY DEF DInv, Sound, TypeOK
<1>2. rarity_arrays(st, bfs) \subseteq Bijection(Piece, Piece)
  BY <1>1 DEF rarity_arrays, scheduler_piece_rarityarray
<1>3. \A i \in started(bf) : i \in Piece /\ wanted(i)
  <2> SUFFICES ASSUME NEW i \in started(bf) PROVE i \in Piece /\ wanted(i)
    OBVIOUS
  <2>1. PICK b \in tree : i = b[1]
    BY DEF started
  <2>2. b \in Block
    BY DEF DInv, PdInv, PdTypeOK
  <2> QED
    BY <2>1, <2>2, BlockParts DEF started
<1>4. CASE g = [pieces |-> Least(started(bf)), array |-> rarity_array]
  BY <1>1, <1>3, <1>4 DEF Least
<1>5. CASE g = [pieces |-> useful(bf), array |-> rarity_array]
  BY <1>1, <1>5 DEF useful
<1>6. ASSUME NEW ra \in rarity_arrays(st, bfs),
             g = [pieces |-> scheduler_piece_find_rarest(bf, ra), array |-> ra]
      PROVE  /\ g.array \in Bijection(Piece, Piece) \cup {NULL}
             /\ \A i \in g.pieces : i \in Piece /\ wanted(i)
  <2>1. ra \in Bijection(Piece, Piece) /\ ra \in [Piece -> Piece]
    BY <1>2, <1>6 DEF Bijection, Injection
  <2>2. \A i \in scheduler_piece_find_rarest(bf, ra) : i \in Piece /\ wanted(i)
    BY <2>1 DEF scheduler_piece_find_rarest, Least
  <2> QED
    BY <1>6, <2>1, <2>2
<1> QED
  BY <1>4, <1>5, <1>6 DEF scheduler_piece_gimme

\* A piece that is wanted has a block that is assigned to nobody.
LEMMA WantedBlock ==
    ASSUME NEW i, wanted(i)
    PROVE  next_block(i) # {}
<1> DEFINE S == {b[2] : b \in {c \in blocks(i) : unassigned(c)}}
<1>1. PICK b \in blocks(i) : unassigned(b)
  BY DEF wanted, scheduler_piece_assigned, unassigned, orphaned
<1>2. S # {}
  BY <1>1
<1>3. S \in SUBSET Nat
  BY BlockParts DEF blocks
<1> HIDE DEF S
<1>4. Least(S) # {}
  BY <1>2, <1>3, LeastExists
<1> QED
  BY <1>4 DEF next_block, S

\* Every step is a step of PieceDl.
LEMMA NextRefines ==
    ASSUME DInv, [Next]_vars
    PROVE  [PdNext]_pdvars
<1> USE PeerTypes DEF DInv
<1>1. CASE \E p \in Peer : connect(p)
  BY <1>1 DEF connect
<1>2. CASE \E p \in Peer, fast \in BOOLEAN : handshake_done(p, fast)
  BY <1>2 DEF handshake_done
<1>3. CASE \E p \in Peer : network_handle_peer_error(p)
  BY <1>3 DEF network_handle_peer_error
<1>4. CASE \E p \in Peer : message(p)
  BY <1>4, MessageRefines
<1>5. CASE tick \/ evict
  BY <1>5 DEF tick, evict
<1>6. CASE checkhash
  BY <1>6 DEF checkhash
<1>7. CASE cleanup
  <2>1. <<piece, count>> \in Block
    <3>1. piece \in Piece /\ count \in Nat /\ count < NumBlocks[piece]
      BY <1>7 DEF cleanup, Sound, Control, TypeOK
    <3>2. count \in 0..(NumBlocks[piece] - 1)
      BY <3>1, PieceAssumption
    <3> QED
      BY <3>1, <3>2, BlockAssumption
  <2>2. find_any(<<piece, count>>) \subseteq Pd
    BY <2>1, FindType
  <2> QED
    BY <1>7, <2>2 DEF cleanup, PdNext
<1>8. CASE scheduler_reap_dead \/ scheduler_threshold_kill \/ scheduler_fill_requests \/ scheduler_end
  BY <1>8 DEF scheduler_reap_dead, scheduler_threshold_kill, scheduler_fill_requests, scheduler_end
<1>9. CASE network_peer_free
  BY <1>9 DEF network_peer_free, PdNext
<1>10. CASE fill_one
  <2>1. PICK g \in scheduler_piece_gimme(bitfield[cur], rarity_arrays(state, bitfield)) :
          \/ UNCHANGED pdvars
          \/ \E i \in g.pieces : get_block(cur, i)
    BY <1>10 DEF fill_one
  <2>2. \A i \in g.pieces : i \in Piece
    BY GimmeWanted
  <2>3. cur \in Peer
    BY <1>10 DEF fill_one
  <2> QED
    BY <2>1, <2>2, <2>3, GetBlockRefines
<1>11. CASE scheduler_endgame_algorithm
  <2>1. PICK w \in endgame_work, d \in Pd : network_piece_dl_create(w[1], w[2], d)
    BY <1>11 DEF scheduler_endgame_algorithm
  <2>2. w[1] \in Peer /\ w[2] \in Block
    BY DEF endgame_work
  <2> QED
    BY <2>1, <2>2 DEF PdNext
<1>12. CASE exited \/ UNCHANGED vars
  BY <1>12 DEF exited, vars
<1> QED
  BY <1>1, <1>2, <1>3, <1>4, <1>5, <1>6, <1>7, <1>8, <1>9, <1>10, <1>11, <1>12 DEF Next, handler

------------------------------------------------------------------------------
(* One lemma per action: it preserves the rest of the invariant.              *)

\* Steps of peers and messages that touch only flags and bitfields.
LEMMA FlagsSound ==
    ASSUME DInv, NEW p \in Range(peers), at = "idle",
           state' \in [Peer -> SUBSET Flag],
           \A q \in Peer : q # p => state'[q] = state[q],
           bitfield' \in [Peer -> (SUBSET Piece) \cup {NULL}],
           dl_queue_len' \in [Peer -> 0..(U32 - 1)],
           rarity_array' \in Bijection(Piece, Piece) \cup {NULL},
           \A q \in Peer : q # p => peer_piece_dls'[q] = peer_piece_dls[q],
           UNCHANGED <<peers, torrent, control>>
    PROVE  Sound'
<1> USE DEF DInv, Sound
<1>1. TypeOK'
  BY DEF TypeOK, torrent, control
<1>2. Control'
  BY DEF Control, torrent, control
<1>3. Unknown'
  BY Zenon DEF Unknown, known, control
<1>4. VerifiedIntact' /\ GoodPiecesExact' /\ NoErrx'
  BY DEF VerifiedIntact, GoodPiecesExact, NoErrx, torrent, control
<1> QED
  BY <1>1, <1>2, <1>3, <1>4

\* A new peer has no requests, and no flags from an earlier life.
LEMMA ConnectSound ==
    ASSUME DInv, NEW p \in Peer, connect(p)
    PROVE  Sound'
<1> USE DEF DInv, Sound
<1>1. peers \in Seq(Peer) /\ p \notin Range(peers) /\ IsInjective(peers)
  BY DEF TypeOK, Control, connect
<1>2. /\ peers' \in Seq(Peer) /\ IsInjective(peers')
      /\ Range(peers') = Range(peers) \cup {p}
  BY <1>1, QueueInsert DEF connect, TAILQ_INSERT_TAIL
<1>3. TypeOK'
  BY <1>2 DEF TypeOK, connect, torrent, control, Flag
<1>4. Control'
  BY <1>2 DEF Control, connect, torrent, control
<1>5. Unknown'
  <2>1. /\ \A q \in Peer : q # p => state'[q] = state[q]
        /\ peer_piece_dls' = peer_piece_dls /\ at' = "idle" /\ at = "idle"
    BY DEF connect, TypeOK, pdvars, control
  <2> QED
    BY <1>2, <2>1 DEF Unknown, known
<1>6. VerifiedIntact' /\ GoodPiecesExact' /\ NoErrx'
  BY Zenon DEF VerifiedIntact, GoodPiecesExact, NoErrx, torrent, control, connect
<1> QED
  BY <1>3, <1>4, <1>5, <1>6

\* The end of the handshake, and connection errors.
LEMMA PeerSound ==
    ASSUME DInv, NEW p \in Peer,
           (\E fast \in BOOLEAN : handshake_done(p, fast)) \/ network_handle_peer_error(p)
    PROVE  Sound'
<1>1. /\ p \in Range(peers) /\ at = "idle"
      /\ state' \in [Peer -> SUBSET Flag]
      /\ \A q \in Peer : q # p => state'[q] = state[q]
  <2>1. state \in [Peer -> SUBSET Flag]
    BY DEF DInv, Sound, TypeOK
  <2>2. CASE \E fast \in BOOLEAN : handshake_done(p, fast)
    <3>1. PICK fast \in BOOLEAN : handshake_done(p, fast)
      BY <2>2
    <3> DEFINE fl == (state[p] \ {"HANDSHAKE"}) \cup {"BITFIELD"} \cup IF fast THEN {"FAST"} ELSE {}
    <3>2. fl \in SUBSET Flag
      BY <2>1 DEF Flag
    <3>3. state' = [state EXCEPT ![p] = fl] /\ p \in Range(peers) /\ at = "idle"
      BY <3>1 DEF handshake_done
    <3> HIDE DEF fl
    <3> QED
      BY <2>1, <3>2, <3>3
  <2>3. CASE network_handle_peer_error(p)
    BY <2>1, <2>3 DEF network_handle_peer_error, kill, Flag
  <2> QED
    BY <2>2, <2>3
<1>2. UNCHANGED <<pdvars, peers, bitfield, dl_queue_len, torrent, rarity_array, control>>
  BY DEF handshake_done, network_handle_peer_error
<1>3. /\ bitfield' = bitfield /\ dl_queue_len' = dl_queue_len /\ rarity_array' = rarity_array
      /\ peer_piece_dls' = peer_piece_dls /\ UNCHANGED <<peers, torrent, control>>
  BY <1>2, Zenon DEF pdvars
<1> QED
  BY <1>1, <1>3, FlagsSound, Zenon DEF DInv, Sound, TypeOK

\* Choosing whether to be interested leaves everything but p's flags and
\* bitfield, and the rarity array, as it was.
LEMMA InterestSound ==
    ASSUME DInv, NEW p \in Range(peers), at = "idle",
           NEW fl \in SUBSET Flag, NEW bf \in SUBSET Piece, interest(p, fl, bf)
    PROVE  Sound'
<1> DEFINE bfs == [bitfield EXCEPT ![p] = bf]
           sts == [state EXCEPT ![p] = fl]
<1>1. PICK g \in scheduler_piece_gimme(bf, rarity_arrays(sts, bfs)) :
         /\ bitfield' = bfs
         /\ state' = IF g.pieces = {} THEN sts ELSE [sts EXCEPT ![p] = @ \cup {"AMINTERESTED"}]
         /\ rarity_array' = g.array
         /\ UNCHANGED <<pdvars, peers, dl_queue_len, torrent, control>>
  BY DEF interest
<1>2. rarity_array' \in Bijection(Piece, Piece) \cup {NULL}
  BY <1>1, GimmeWanted
<1>3. p \in Peer
  BY PeerTypes DEF DInv
<1>4. /\ state' \in [Peer -> SUBSET Flag]
      /\ \A q \in Peer : q # p => state'[q] = state[q]
      /\ bitfield' \in [Peer -> (SUBSET Piece) \cup {NULL}]
  BY <1>1, <1>3, Zenon DEF DInv, Sound, TypeOK, Flag
<1>5. /\ dl_queue_len' = dl_queue_len /\ peer_piece_dls' = peer_piece_dls
      /\ UNCHANGED <<peers, torrent, control>>
  BY <1>1, Zenon DEF pdvars
<1> QED
  BY <1>2, <1>4, <1>5, FlagsSound, Zenon DEF DInv, Sound, TypeOK

\* CHOKE empties p's list and subtracts its length from the counter.
LEMMA ChokeSound ==
    ASSUME DInv, NEW p \in Peer, MSG_CHOKE(p)
    PROVE  Sound'
<1> USE DEF DInv, Sound
<1>1. /\ p \in Range(peers) /\ at = "idle"
      /\ state' \in [Peer -> SUBSET Flag]
      /\ \A q \in Peer : q # p => state'[q] = state[q]
      /\ bitfield' = bitfield /\ rarity_array' = rarity_array
      /\ UNCHANGED <<peers, torrent, control>>
  BY DEF MSG_CHOKE, connected, TypeOK, Flag
<1>2. \A q \in Peer : q # p => peer_piece_dls'[q] = peer_piece_dls[q]
  BY DEF MSG_CHOKE, orphan_all, pdvars, PdInv, PdTypeOK
<1>3. dl_queue_len' \in [Peer -> 0..(U32 - 1)]
  <2>1. dl_queue_len[p] - Len(peer_piece_dls[p]) \in Int
    BY QueueAssumption DEF TypeOK, PdInv, PdTypeOK
  <2>2. subtract(dl_queue_len[p], Len(peer_piece_dls[p])) \in 0..(U32 - 1)
    BY <2>1, Unsigned DEF subtract
  <2> QED
    BY <2>2, Zenon DEF MSG_CHOKE, TypeOK
<1> QED
  BY <1>1, <1>2, <1>3, FlagsSound, Zenon DEF TypeOK

\* A REJECT frees a request, perhaps another peer's.
LEMMA RejectSound ==
    ASSUME DInv, NEW p \in Peer, NEW b \in Block, MSG_REJECT(p, b)
    PROVE  Sound'
<1> USE DEF DInv, Sound
<1>1. /\ p \in Range(peers) /\ at = "idle"
      /\ state' \in [Peer -> SUBSET Flag]
      /\ \A q \in Peer : q # p => state'[q] = state[q]
      /\ bitfield' = bitfield /\ rarity_array' = rarity_array
      /\ UNCHANGED <<peers, torrent, control>>
  <2>1. state' = state \/ state' = [state EXCEPT ![p] = {"DEAD"}]
    BY DEF MSG_REJECT, kill
  <2>2. /\ p \in Range(peers) /\ at = "idle"
        /\ bitfield' = bitfield /\ rarity_array' = rarity_array
        /\ UNCHANGED <<peers, torrent, control>>
    BY Zenon DEF MSG_REJECT, connected
  <2> QED
    BY <2>1, <2>2, Zenon DEF TypeOK, Flag
<1>2. dl_queue_len' \in [Peer -> 0..(U32 - 1)]
  <2>1. dl_queue_len[p] - 1 \in Int
    BY QueueAssumption DEF TypeOK
  <2>2. subtract(dl_queue_len[p], 1) \in 0..(U32 - 1)
    BY <2>1, Unsigned, Zenon DEF subtract
  <2> QED
    BY <2>2, Zenon DEF MSG_REJECT, TypeOK
<1>3. TypeOK'
  BY <1>1, <1>2, Zenon DEF TypeOK, torrent, control
<1>4. Control'
  BY <1>1 DEF Control, torrent, control
<1>5. VerifiedIntact' /\ GoodPiecesExact' /\ NoErrx'
  BY <1>1, Zenon DEF VerifiedIntact, GoodPiecesExact, NoErrx, torrent, control
<1>6. Unknown'
  <2>1. \A q \in Peer : peer_piece_dls[q] = <<>> => peer_piece_dls'[q] = <<>>
    <3>1. CASE UNCHANGED pdvars
      BY <3>1, Zenon DEF pdvars
    <3>2. CASE \E d \in network_piece_dl_find(p, b) : network_piece_dl_free(d)
      BY <3>2, FindType, FreeEmpty
    <3> QED
      BY <3>1, <3>2, Zenon DEF MSG_REJECT
  <2> QED
    BY <1>1, <2>1, Zenon DEF Unknown, known, control
<1> QED
  BY <1>3, <1>4, <1>5, <1>6

\* A PIECE is stored only in a piece that is not verified.
LEMMA PieceSound ==
    ASSUME DInv, NEW p \in Peer, NEW b \in Block, NEW ok \in BOOLEAN, MSG_PIECE(p, b, ok)
    PROVE  Sound'
<1> USE DEF DInv, Sound
<1>1. /\ p \in Range(peers) /\ at = "idle" /\ todo = <<>>
      /\ peers' = peers /\ bitfield' = bitfield /\ rarity_array' = rarity_array
  BY Zenon DEF MSG_PIECE, connected, Control
<1>2. CASE UNCHANGED <<pdvars, dl_queue_len, torrent, control>> /\ (kill(p) \/ state' = state)
  <2>1. /\ state' \in [Peer -> SUBSET Flag]
        /\ \A q \in Peer : q # p => state'[q] = state[q]
    BY <1>2, Zenon DEF kill, TypeOK, Flag
  <2>2. /\ dl_queue_len' = dl_queue_len /\ peer_piece_dls' = peer_piece_dls
        /\ UNCHANGED <<peers, torrent, control>>
    BY <1>1, <1>2 DEF pdvars
  <2> QED
    BY <1>1, <2>1, <2>2, FlagsSound, Zenon DEF TypeOK
<1>3. CASE /\ b[1] \notin cksumok
           /\ dl_queue_len' = [dl_queue_len EXCEPT ![p] = subtract(@, 1)]
           /\ mapped' = mapped \cup {b[1]}
           /\ data' = [data EXCEPT ![b] = ok]
           /\ \E d \in network_piece_dl_find(p, b) : count_bytes(d)
           /\ \/ at' = "checkhash" /\ piece' = b[1]
              \/ UNCHANGED <<at, piece>>
           /\ UNCHANGED <<state, cksumok, good_pieces, todo, cur, count>>
  <2>1. dl_queue_len[p] - 1 \in Int /\ b[1] \in Piece
    BY QueueAssumption, BlockParts DEF TypeOK
  <2>2. subtract(dl_queue_len[p], 1) \in 0..(U32 - 1)
    BY <2>1, Unsigned DEF subtract
  <2>3. TypeOK'
    BY <1>1, <1>3, <2>1, <2>2, Zenon DEF TypeOK
  <2>4. Control'
    BY <1>1, <1>3, Zenon DEF Control
  <2>5. peer_piece_dls' = peer_piece_dls
    BY <1>3 DEF count_bytes
  <2>6. Unknown'
    BY <1>1, <1>3, <2>5, Zenon DEF Unknown, known
  <2>7. VerifiedIntact' /\ GoodPiecesExact' /\ NoErrx'
    BY <1>1, <1>3 DEF VerifiedIntact, GoodPiecesExact, NoErrx, TypeOK
  <2> QED
    BY <2>3, <2>4, <2>6, <2>7
<1> QED
  BY <1>2, <1>3, Zenon DEF MSG_PIECE

\* Every message.
LEMMA MessageSound ==
    ASSUME DInv, NEW p \in Peer, message(p)
    PROVE  Sound'
<1> USE DEF DInv
<1>1. CASE MSG_UNCHOKE(p)
  <2>1. /\ p \in Range(peers) /\ at = "idle"
        /\ state' = [state EXCEPT ![p] = @ \ {"CHOKED"}]
        /\ bitfield' = bitfield /\ dl_queue_len' = dl_queue_len /\ rarity_array' = rarity_array
        /\ peer_piece_dls' = peer_piece_dls /\ UNCHANGED <<peers, torrent, control>>
    BY <1>1 DEF MSG_UNCHOKE, connected, pdvars
  <2>2. state' \in [Peer -> SUBSET Flag] /\ \A q \in Peer : q # p => state'[q] = state[q]
    BY <2>1, Zenon DEF Sound, TypeOK
  <2> QED
    BY <2>1, <2>2, FlagsSound, Zenon DEF Sound, TypeOK
<1>2. CASE \E i \in Piece : MSG_HAVE(p, i)
  <2>1. PICK i \in Piece : MSG_HAVE(p, i)
    BY <1>2
  <2>2. established(p) \in SUBSET Flag /\ state[p] \in SUBSET Flag
    BY DEF established, Sound, TypeOK, Flag
  <2>3. bitfield[p] # NULL => bitfield[p] \cup {i} \in SUBSET Piece
    BY Zenon DEF Sound, TypeOK
  <2>4. p \in Range(peers) /\ at = "idle"
    BY <2>1 DEF MSG_HAVE, connected
  <2> QED
    BY <2>1, <2>2, <2>3, <2>4, InterestSound DEF MSG_HAVE
<1>3. CASE \E bf \in SUBSET Piece : MSG_BITFIELD(p, bf)
  <2>1. established(p) \in SUBSET Flag
    BY DEF established, Sound, TypeOK, Flag
  <2> QED
    BY <1>3, <2>1, InterestSound DEF MSG_BITFIELD, connected
<1> QED
  BY <1>1, <1>2, <1>3, ChokeSound, PieceSound, RejectSound, Zenon DEF message

\* Only a piece whose content is right, and that was not counted, is counted.
LEMMA CheckhashSound ==
    ASSUME DInv, checkhash
    PROVE  Sound'
<1> USE DEF DInv, Sound
<1>1. piece \in mapped /\ piece \notin cksumok /\ piece \in Piece /\ todo = <<>>
  BY DEF checkhash, Control, TypeOK
<1>2. IsFiniteSet(cksumok)
  <2>1. IsFiniteSet(Piece)
    BY PieceAssumption, FS_Interval DEF Piece
  <2> QED
    BY <2>1, FS_Subset DEF TypeOK
<1>3. \/ /\ torrent_piece_checkhash(piece) /\ cksumok' = cksumok \cup {piece}
         /\ good_pieces' = good_pieces + 1
      \/ cksumok' = cksumok /\ good_pieces' = good_pieces
  BY <1>1 DEF checkhash
<1>4. at' \in {"exit", "cleanup"} /\ count' = 0 /\ mapped' = mapped \ {piece} /\ at = "checkhash"
  BY <1>1 DEF checkhash
<1>5. UNCHANGED <<pdvars, session, data, rarity_array, todo, cur, piece>>
  BY Zenon DEF checkhash
<1>6. TypeOK'
  BY <1>1, <1>3, <1>4, <1>5 DEF TypeOK, session
<1>7. Control'
  <2>1. 0 < NumBlocks[piece]
    BY <1>1, PieceAssumption
  <2> QED
    BY <1>1, <1>4, <1>5, <2>1 DEF Control, session
<1>8. Unknown'
  BY <1>4, <1>5, Zenon DEF Unknown, known, session, pdvars
<1>9. VerifiedIntact'
  BY <1>3, <1>5 DEF VerifiedIntact, torrent_piece_checkhash, blocks
<1>10. GoodPiecesExact'
  <2>1. Cardinality(cksumok \cup {piece}) = Cardinality(cksumok) + 1
    BY <1>1, <1>2, FS_AddElement
  <2> QED
    BY <1>3, <2>1 DEF GoodPiecesExact
<1> QED
  BY <1>4, <1>6, <1>7, <1>8, <1>9, <1>10 DEF NoErrx

\* Clean-up frees requests only.
LEMMA CleanupSound ==
    ASSUME DInv, cleanup
    PROVE  Sound'
<1> USE DEF DInv, Sound
<1>1. piece \in Piece /\ count \in Nat /\ count < NumBlocks[piece] /\ todo = <<>>
  BY DEF cleanup, Control, TypeOK
<1>2. <<piece, count>> \in Block
  <2>1. count \in 0..(NumBlocks[piece] - 1)
    BY <1>1, PieceAssumption
  <2> QED
    BY <1>1, <2>1, BlockAssumption
<1>3. \/ count' = count + 1 /\ count' < NumBlocks[piece] /\ at' = "cleanup" /\ piece' = piece
      \/ count' = 0 /\ at' = "idle" /\ piece' = NULL
  BY DEF cleanup
<1>4. at = "cleanup" /\ UNCHANGED <<session, torrent, rarity_array, todo, cur>>
  BY Zenon DEF cleanup
<1>5. TypeOK'
  BY <1>1, <1>3, <1>4 DEF TypeOK, session, torrent
<1>6. Control'
  BY <1>1, <1>3, <1>4 DEF Control, session, torrent
<1>7. \A q \in Peer : peer_piece_dls[q] = <<>> => peer_piece_dls'[q] = <<>>
  <2>1. CASE UNCHANGED pdvars
    BY <2>1 DEF pdvars
  <2>2. CASE \E d \in find_any(<<piece, count>>) : network_piece_dl_free(d)
    BY <1>2, <2>2, FindType, FreeEmpty, Zenon
  <2> QED
    BY <2>1, <2>2, Zenon DEF cleanup
<1>8. Unknown'
  BY <1>3, <1>4, <1>7 DEF Unknown, known, session
<1>9. VerifiedIntact' /\ GoodPiecesExact' /\ NoErrx'
  BY <1>3, <1>4 DEF VerifiedIntact, GoodPiecesExact, NoErrx, torrent
<1> QED
  BY <1>5, <1>6, <1>8, <1>9, Zenon

\* The scheduler's own control: a tick starts with every peer still to visit.
LEMMA TickSound ==
    ASSUME DInv, tick
    PROVE  Sound'
<1> USE DEF DInv, Sound
<1>1. /\ at = "idle" /\ at' = "peers" /\ todo' = peers
      /\ UNCHANGED <<pdvars, session, torrent, rarity_array, cur, piece, count>>
  BY Zenon DEF tick
<1>2. TypeOK' /\ Control'
  BY <1>1 DEF TypeOK, Control, session, torrent
<1>3. Unknown' /\ VerifiedIntact' /\ GoodPiecesExact' /\ NoErrx'
  BY <1>1, Zenon DEF Unknown, known, VerifiedIntact, GoodPiecesExact, NoErrx, session, torrent, pdvars
<1> QED
  BY <1>2, <1>3

\* A peer that is unlinked is the one being freed.
LEMMA UnlinkSound ==
    ASSUME DInv, scheduler_reap_dead \/ evict
    PROVE  Sound'
<1> USE DEF DInv, Sound
<1>1. PICK h : /\ h \in Range(peers) /\ h \in Peer
               /\ peers' = TAILQ_REMOVE(peers, h) /\ cur' = h
               /\ UNCHANGED <<pdvars, state, bitfield, dl_queue_len, torrent, rarity_array, piece, count>>
               /\ \/ at = "peers" /\ at' = "free" /\ todo # <<>> /\ h = Head(todo) /\ todo' = Tail(todo)
                  \/ at = "idle" /\ at' = "evict" /\ todo' = todo
  <2>1. CASE scheduler_reap_dead
    BY <2>1, PeerTypes DEF scheduler_reap_dead
  <2>2. CASE evict
    BY <2>2, PeerTypes, Zenon DEF evict
  <2> QED
    BY <2>1, <2>2
<1>2. /\ peers' \in Seq(Peer) /\ IsInjective(peers')
      /\ Range(peers') = Range(peers) \ {h}
  BY <1>1, QueueRemove DEF TypeOK, Control
<1>3. /\ todo' \in Seq(Peer) /\ IsInjective(todo') /\ Range(todo') \subseteq Range(peers')
      /\ at' = "evict" => todo' = <<>>
  <2>1. CASE at = "peers" /\ todo # <<>> /\ h = Head(todo) /\ todo' = Tail(todo) /\ at' = "free"
    BY <1>2, <2>1, QueueTail DEF TypeOK, Control
  <2>2. CASE at = "idle" /\ todo' = todo
    <3>1. todo' = <<>> /\ Range(<<>>) = {} /\ IsInjective(<<>>)
      BY <2>2, SMTT(30) DEF Control, Range, IsInjective
    <3> QED
      BY <3>1
  <2> QED
    BY <1>1, <2>1, <2>2
<1>4. TypeOK'
  BY <1>1, <1>2, <1>3 DEF TypeOK, torrent
<1>5. Control'
  BY <1>1, <1>2, <1>3 DEF Control
<1>6. Unknown'
  BY <1>1, <1>2, Zenon DEF Unknown, known, pdvars
<1>7. VerifiedIntact' /\ GoodPiecesExact' /\ NoErrx'
  BY <1>1, Zenon DEF VerifiedIntact, GoodPiecesExact, NoErrx, torrent
<1> QED
  BY <1>4, <1>5, <1>6, <1>7

\* One turn of network_peer_free(): a peer is forgotten with its last request.
LEMMA FreeSound ==
    ASSUME DInv, network_peer_free
    PROVE  Sound'
<1> USE DEF DInv, Sound
<1> DEFINE L == peer_piece_dls[cur]
<1>1. /\ at \in {"free", "evict"} /\ cur \in Peer /\ cur \notin Range(peers)
      /\ UNCHANGED <<peers, torrent, rarity_array, todo, piece, count>>
      /\ L \in Seq(Pd)
  BY DEF network_peer_free, Control, PdInv, PdTypeOK
<1>2. \A q \in Peer : q # cur => peer_piece_dls'[q] = peer_piece_dls[q]
  BY DEF network_peer_free, network_peer_free_dl, pdvars, PdInv, PdTypeOK
<1>3. CASE Len(L) > 1
  <2>1. UNCHANGED <<state, bitfield, dl_queue_len, at, cur>>
    BY <1>3, Zenon DEF network_peer_free
  <2>2. TypeOK' /\ Control'
    BY <1>1, <2>1, Zenon DEF TypeOK, Control, torrent
  <2>3. Unknown'
    BY <1>1, <1>2, <2>1 DEF Unknown, known
  <2>4. VerifiedIntact' /\ GoodPiecesExact' /\ NoErrx'
    BY <1>1, <2>1 DEF VerifiedIntact, GoodPiecesExact, NoErrx, torrent
  <2> QED
    BY <2>2, <2>3, <2>4
<1>4. CASE ~ (Len(L) > 1)
  <2>1. /\ state' = [state EXCEPT ![cur] = {}]
        /\ bitfield' = [bitfield EXCEPT ![cur] = NULL]
        /\ dl_queue_len' = [dl_queue_len EXCEPT ![cur] = 0]
        /\ at' = IF at = "free" THEN "peers" ELSE "idle"
        /\ cur' = NULL
    BY <1>4 DEF network_peer_free
  <2>2. peer_piece_dls'[cur] = <<>>
    <3>1. CASE L = <<>>
      BY <3>1 DEF network_peer_free, pdvars
    <3>2. CASE L # <<>>
      <4>1. Len(L) = 1
        <5>1. Len(L) \in Nat /\ Len(L) # 0
          BY <1>1, <3>2, EmptySeq
        <5>2. \A n \in Nat : n # 0 /\ ~ (n > 1) => n = 1
          OBVIOUS
        <5> QED
          BY <1>4, <5>1, <5>2, Zenon
      <4>2. peer_piece_dls' = [peer_piece_dls EXCEPT ![cur] = TAILQ_REMOVE(@, Head(L))]
        BY <3>2 DEF network_peer_free, network_peer_free_dl
      <4>3. peer_piece_dls'[cur] = TAILQ_REMOVE(L, Head(L))
        BY <1>1, <4>2 DEF PdInv, PdTypeOK
      <4>4. TAILQ_REMOVE(L, Head(L)) = <<>>
        <5>1. Range(L) = {Head(L)}
          <6>1. DOMAIN L = {1} /\ Head(L) = L[1]
            BY <1>1, <3>2, <4>1, SMTT(30)
          <6> QED
            BY <6>1 DEF Range
        <5>2. /\ TAILQ_REMOVE(L, Head(L)) \in Seq(Pd)
              /\ Range(TAILQ_REMOVE(L, Head(L))) = Range(L) \ {Head(L)}
          BY <1>1, <5>1, QueueRemove DEF PdInv, Linked
        <5> QED
          BY <5>1, <5>2, EmptyRange
      <4> QED
        BY <4>3, <4>4
    <3> QED
      BY <3>1, <3>2, Zenon
  <2>3. 0 \in 0..(U32 - 1)
    BY QueueAssumption, SMTT(30)
  <2>4. TypeOK'
    BY <1>1, <2>1, <2>3 DEF TypeOK, torrent
  <2>5. Control'
    BY <1>1, <2>1, Zenon DEF Control, torrent
  <2>6. Unknown'
    BY <1>1, <1>2, <2>1, <2>2, Zenon DEF Unknown, known, TypeOK
  <2>7. VerifiedIntact' /\ GoodPiecesExact' /\ NoErrx'
    BY <1>1, <2>1, Zenon DEF VerifiedIntact, GoodPiecesExact, NoErrx, torrent
  <2> QED
    BY <2>4, <2>5, <2>6, <2>7
<1> QED
  BY <1>3, <1>4

\* The next peer is killed by the threshold.
LEMMA ThresholdSound ==
    ASSUME DInv, scheduler_threshold_kill
    PROVE  Sound'
<1> USE DEF DInv, Sound
<1> DEFINE h == Head(todo)
<1>1. /\ at = "peers" /\ todo # <<>> /\ todo' = Tail(todo) /\ h \in Peer /\ h \in Range(peers)
      /\ state' = [state EXCEPT ![h] = {"DEAD"}]
      /\ UNCHANGED <<pdvars, peers, bitfield, dl_queue_len, torrent, rarity_array, at, cur, piece, count>>
  BY PeerTypes DEF scheduler_threshold_kill, kill
<1> HIDE DEF h
<1>2. todo' \in Seq(Peer) /\ IsInjective(todo') /\ Range(todo') \subseteq Range(todo)
  BY <1>1, QueueTail DEF TypeOK, Control
<1>3. TypeOK'
  BY <1>1, <1>2 DEF TypeOK, torrent, Flag
<1>4. Control'
  BY <1>1, <1>2 DEF Control, torrent
<1>5. Unknown'
  BY <1>1 DEF Unknown, known, pdvars, TypeOK
<1>6. VerifiedIntact' /\ GoodPiecesExact' /\ NoErrx'
  BY <1>1 DEF VerifiedIntact, GoodPiecesExact, NoErrx, torrent
<1> QED
  BY <1>3, <1>4, <1>5, <1>6

\* The next peer's queue is filled, or needs no filling.
LEMMA FillSound ==
    ASSUME DInv, scheduler_fill_requests
    PROVE  Sound'
<1> USE DEF DInv, Sound
<1> DEFINE h == Head(todo)
<1>1. /\ at = "peers" /\ todo # <<>> /\ todo' = Tail(todo) /\ h \in Peer /\ h \in Range(peers)
      /\ UNCHANGED <<pdvars, session, torrent, rarity_array, piece>>
  BY PeerTypes, Zenon DEF scheduler_fill_requests
<1>2. todo' \in Seq(Peer) /\ IsInjective(todo') /\ Range(todo') \subseteq Range(todo)
  BY <1>1, QueueTail, Zenon DEF TypeOK, Control
<1>3. \/ at' = "peers" /\ cur' \in Peer \cup {NULL} /\ count' \in Nat
      \/ at' = "fill" /\ cur' = h /\ count' \in Nat /\ count' # 0
  <2>1. CASE UNCHANGED <<at, cur, count>>
    BY <1>1, <2>1 DEF TypeOK
  <2>2. CASE \E queue_len \in MinQueue..MaxRequests : fill_loop(h, fill_room(h, queue_len))
    <3>1. PICK queue_len \in MinQueue..MaxRequests : fill_loop(h, fill_room(h, queue_len))
      BY <2>2, Zenon
    <3>2. dl_queue_len[h] \in 0..(U32 - 1) /\ queue_len \in Nat
      BY <1>1, QueueAssumption DEF TypeOK
    <3>3. fill_room(h, queue_len) \in Nat
      BY <3>2, QueueAssumption, SMTT(30) DEF fill_room
    <3> QED
      BY <3>1, <3>3 DEF fill_loop
  <2> QED
    BY <2>1, <2>2 DEF scheduler_fill_requests
<1> HIDE DEF h
<1>4. TypeOK'
  BY <1>1, <1>2, <1>3 DEF TypeOK, session, torrent
<1>5. Control'
  BY <1>1, <1>2, <1>3 DEF Control, session, torrent
<1>6. Unknown'
  BY <1>1, <1>3, Zenon DEF Unknown, known, pdvars, session
<1>7. VerifiedIntact' /\ GoodPiecesExact' /\ NoErrx'
  BY <1>1, <1>3 DEF VerifiedIntact, GoodPiecesExact, NoErrx, torrent
<1> QED
  BY <1>4, <1>5, <1>6, <1>7

\* A request is made for a peer of the list; get_block never finds itself
\* without a block.
LEMMA FillOneSound ==
    ASSUME DInv, fill_one
    PROVE  Sound'
<1> USE DEF DInv, Sound
<1>1. /\ at = "fill" /\ cur \in Peer /\ cur \in Range(peers) /\ count \in Nat /\ count # 0
      /\ UNCHANGED <<peers, state, bitfield, torrent, todo, piece>>
  BY PeerTypes, Zenon DEF fill_one, Control, TypeOK
<1>2. PICK g \in scheduler_piece_gimme(bitfield[cur], rarity_arrays(state, bitfield)) :
         /\ rarity_array' = g.array
         /\ IF g.pieces = {}
            THEN fill_loop(cur, count - 1) /\ UNCHANGED <<pdvars, dl_queue_len>>
            ELSE \E i \in g.pieces :
                 IF next_block(i) = {}
                 THEN at' = "errx" /\ UNCHANGED <<pdvars, dl_queue_len, cur, count>>
                 ELSE /\ get_block(cur, i)
                      /\ dl_queue_len' = [dl_queue_len EXCEPT ![cur] = (@ + 1) % U32]
                      /\ fill_loop(cur, count - 1)
  BY Zenon DEF fill_one
<1>3. rarity_array' \in Bijection(Piece, Piece) \cup {NULL} /\ \A i \in g.pieces : i \in Piece /\ wanted(i)
  BY <1>2, GimmeWanted, Zenon
<1>4. \A i \in g.pieces : next_block(i) # {}
  BY <1>3, WantedBlock, Zenon
<1>5. \/ fill_loop(cur, count - 1) /\ UNCHANGED <<pdvars, dl_queue_len>>
      \/ \E i \in g.pieces :
           /\ get_block(cur, i)
           /\ dl_queue_len' = [dl_queue_len EXCEPT ![cur] = (@ + 1) % U32]
           /\ fill_loop(cur, count - 1)
  BY <1>2, <1>4
<1>6. fill_loop(cur, count - 1) /\ count - 1 \in Nat
  BY <1>1, <1>5
<1>7. \/ at' = "peers" /\ cur' = NULL /\ count' = 0
      \/ at' = "fill" /\ cur' = cur /\ count' \in Nat /\ count' # 0
  BY <1>6, Zenon DEF fill_loop
<1>8. dl_queue_len' \in [Peer -> 0..(U32 - 1)]
  <2>1. dl_queue_len[cur] + 1 \in Int
    BY <1>1, QueueAssumption DEF TypeOK
  <2>2. (dl_queue_len[cur] + 1) % U32 \in 0..(U32 - 1)
    BY <2>1, Unsigned, Zenon
  <2> QED
    BY <1>1, <1>5, <2>2, Zenon DEF TypeOK
<1>9. \A q \in Peer : q # cur => peer_piece_dls'[q] = peer_piece_dls[q]
  <2>1. CASE UNCHANGED pdvars
    BY <2>1, Zenon DEF pdvars
  <2>2. CASE \E i \in g.pieces : get_block(cur, i)
    <3>1. \/ \E b \in Block, d \in Pd : network_piece_dl_create(cur, b, d)
          \/ \E d \in Pd : recycle(cur, d)
      BY <1>1, <1>3, <2>2, GetBlockRefines, Zenon
    <3> QED
      BY <1>1, <3>1, Zenon DEF network_piece_dl_create, recycle, PdInv, PdTypeOK
  <2> QED
    BY <1>5, <2>1, <2>2, Zenon
<1>10. TypeOK'
  <2>1. at' \in {"peers", "fill"} /\ cur' \in Peer \cup {NULL} /\ count' \in Nat
    BY <1>1, <1>7
  <2> QED
    BY <1>1, <1>3, <1>8, <2>1 DEF TypeOK, torrent
<1>11. Control'
  BY <1>1, <1>7 DEF Control, torrent
<1>12. Unknown'
  BY <1>1, <1>7, <1>9, Zenon DEF Unknown, known
<1>13. VerifiedIntact' /\ GoodPiecesExact' /\ NoErrx'
  BY <1>1, <1>7, Zenon DEF VerifiedIntact, GoodPiecesExact, NoErrx, torrent
<1> QED
  BY <1>10, <1>11, <1>12, <1>13

\* After the last peer the tick ends or goes on to the end game.
LEMMA EndSound ==
    ASSUME DInv, scheduler_end
    PROVE  Sound'
<1> USE DEF DInv, Sound
<1>1. /\ at = "peers" /\ todo = <<>> /\ at' \in {"endgame", "idle"}
      /\ UNCHANGED <<pdvars, session, torrent, rarity_array, todo, cur, piece, count>>
  BY Zenon DEF scheduler_end
<1>2. TypeOK' /\ Control'
  BY <1>1, Zenon DEF TypeOK, Control, session, torrent
<1>3. Unknown' /\ VerifiedIntact' /\ GoodPiecesExact' /\ NoErrx'
  BY <1>1, Zenon DEF Unknown, known, VerifiedIntact, GoodPiecesExact, NoErrx, session, torrent, pdvars
<1> QED
  BY <1>2, <1>3

\* The end game makes requests to peers of the list.
LEMMA EndgameSound ==
    ASSUME DInv, scheduler_endgame_algorithm
    PROVE  Sound'
<1> USE DEF DInv, Sound
<1>1. PICK w \in endgame_work, d \in Pd :
         /\ network_piece_dl_create(w[1], w[2], d)
         /\ dl_queue_len' = [dl_queue_len EXCEPT ![w[1]] = (@ + 1) % U32]
         /\ at' = IF endgame_work = {w} THEN "idle" ELSE "endgame"
  BY Zenon DEF scheduler_endgame_algorithm
<1>2. /\ at = "endgame" /\ at' \in {"idle", "endgame"}
      /\ UNCHANGED <<peers, state, bitfield, torrent, rarity_array, todo, cur, piece, count>>
  BY <1>1 DEF scheduler_endgame_algorithm
<1>3. w[1] \in Peer /\ w[1] \in Range(peers)
  BY PeerTypes, Zenon DEF endgame_work
<1>4. dl_queue_len' \in [Peer -> 0..(U32 - 1)]
  <2>1. dl_queue_len[w[1]] + 1 \in Int
    BY <1>3, QueueAssumption DEF TypeOK
  <2>2. (dl_queue_len[w[1]] + 1) % U32 \in 0..(U32 - 1)
    BY <2>1, Unsigned, Zenon
  <2> QED
    BY <1>1, <1>3, <2>2 DEF TypeOK
<1>5. \A q \in Peer : q # w[1] => peer_piece_dls'[q] = peer_piece_dls[q]
  BY <1>1, <1>3, Zenon DEF network_piece_dl_create, PdInv, PdTypeOK
<1>6. TypeOK' /\ Control'
  BY <1>2, <1>4, Zenon DEF TypeOK, Control, torrent
<1>7. Unknown'
  BY <1>2, <1>3, <1>5 DEF Unknown, known
<1>8. VerifiedIntact' /\ GoodPiecesExact' /\ NoErrx'
  BY <1>2 DEF VerifiedIntact, GoodPiecesExact, NoErrx, torrent
<1> QED
  BY <1>6, <1>7, <1>8

------------------------------------------------------------------------------
\* The program starts with no peers and no requests.
LEMMA InitInv == Init => DInv
<1> SUFFICES ASSUME Init PROVE DInv
  OBVIOUS
<1>1. PdInv
  BY PdInitInv DEF Init
<1>2. IsInjective(<<>>) /\ Range(<<>>) = {}
  BY DEF IsInjective, Range
<1>3. Cardinality(cksumok) \in Nat
  <2>1. IsFiniteSet(Piece)
    BY PieceAssumption, FS_Interval DEF Piece
  <2>2. IsFiniteSet(cksumok)
    BY <2>1, FS_Subset, Zenon DEF Init
  <2> QED
    BY <2>2, FS_CardinalityType
<1>4. TypeOK
  <2>1. 0 \in 0..(U32 - 1)
    BY QueueAssumption, SMTT(30)
  <2> QED
    BY <1>3, <2>1 DEF Init, TypeOK
<1>5. Control
  BY <1>2 DEF Init, Control
<1>6. Unknown
  BY DEF Init, PdInit, Unknown
<1>7. VerifiedIntact /\ GoodPiecesExact /\ NoErrx
  BY DEF Init, VerifiedIntact, GoodPiecesExact, NoErrx
<1> QED
  BY <1>1, <1>4, <1>5, <1>6, <1>7 DEF DInv, Sound

\* Every step preserves the invariant.
LEMMA NextInv == DInv /\ [Next]_vars => DInv'
<1> SUFFICES ASSUME DInv, [Next]_vars PROVE DInv'
  OBVIOUS
<1>1. PdInv'
  BY NextRefines, PdNextInv DEF DInv
<1> SUFFICES Sound'
  BY <1>1 DEF DInv
<1>2. CASE \E p \in Peer : connect(p)
  BY <1>2, ConnectSound
<1>3. CASE \E p \in Peer, fast \in BOOLEAN : handshake_done(p, fast)
  BY <1>3, PeerSound
<1>4. CASE \E p \in Peer : network_handle_peer_error(p)
  BY <1>4, PeerSound
<1>5. CASE \E p \in Peer : message(p)
  BY <1>5, MessageSound
<1>6. CASE tick
  BY <1>6, TickSound
<1>7. CASE evict
  BY <1>7, UnlinkSound
<1>8. CASE handler
  BY <1>8, CheckhashSound, CleanupSound, UnlinkSound, FreeSound, ThresholdSound, FillSound,
     FillOneSound, EndSound, EndgameSound DEF handler
<1>9. CASE exited \/ UNCHANGED vars
  <2>1. UNCHANGED <<pdvars, session, torrent, rarity_array, control>>
    BY <1>9 DEF exited, vars
  <2>2. TypeOK' /\ Control'
    BY <2>1, Zenon DEF DInv, Sound, TypeOK, Control, session, torrent, control
  <2>3. Unknown' /\ VerifiedIntact' /\ GoodPiecesExact' /\ NoErrx'
    BY <2>1, Zenon DEF DInv, Sound, Unknown, known, VerifiedIntact, GoodPiecesExact, NoErrx,
       session, torrent, control, pdvars
  <2> QED
    BY <2>2, <2>3 DEF Sound
<1> QED
  BY <1>2, <1>3, <1>4, <1>5, <1>6, <1>7, <1>8, <1>9 DEF Next

\* The inductive invariant holds in every state.
LEMMA Invariant == Spec => []DInv
<1>1. Init => DInv
  BY InitInv
<1>2. DInv /\ [Next]_vars => DInv'
  BY NextInv
<1> QED
  BY <1>1, <1>2, PTL DEF Spec

\* A request belongs to a peer of the list, to one that is being freed, or to none.
LEMMA InvOwners == DInv => OwnersConnected
<1> SUFFICES ASSUME DInv, NEW d \in Live, piece_dl[d].pc # NULL
             PROVE  known(piece_dl[d].pc)
  BY DEF OwnersConnected, known
<1>1. piece_dl[d] \in PieceDlRec /\ piece_dl[d].pc \in Peer
  BY DEF DInv, PdInv, PdTypeOK, Live, PieceDlRec
<1>2. d \in Range(peer_piece_dls[piece_dl[d].pc])
  BY <1>1 DEF DInv, PdInv, Linked
<1>3. peer_piece_dls[piece_dl[d].pc] # <<>>
  BY <1>2, SMTT(30) DEF Range
<1> QED
  BY <1>1, <1>3 DEF DInv, Sound, Unknown

\* No message takes the DEAD flag off a peer.
LEMMA MessageKeepsDead ==
    ASSUME state \in [Peer -> SUBSET Flag], NEW q \in Peer, message(q),
           NEW p \in Peer, "DEAD" \in state[p]
    PROVE  "DEAD" \in state'[p]
<1>1. CASE MSG_CHOKE(q) \/ MSG_UNCHOKE(q)
  BY <1>1, Zenon DEF MSG_CHOKE, MSG_UNCHOKE
<1>2. ASSUME NEW fl, NEW bf, interest(q, fl, bf), "DEAD" \in state[q] => "DEAD" \in fl
      PROVE  "DEAD" \in state'[p]
  BY <1>2, Zenon DEF interest
<1>3. CASE \E i \in Piece : MSG_HAVE(q, i)
  BY <1>2, <1>3 DEF MSG_HAVE, established
<1>4. CASE \E bf \in SUBSET Piece : MSG_BITFIELD(q, bf)
  BY <1>2, <1>4 DEF MSG_BITFIELD, established
<1>5. CASE \E b \in Block, ok \in BOOLEAN : MSG_PIECE(q, b, ok)
  BY <1>5 DEF MSG_PIECE, kill
<1>6. CASE \E b \in Block : MSG_REJECT(q, b)
  BY <1>6 DEF MSG_REJECT, kill
<1> QED
  BY <1>1, <1>3, <1>4, <1>5, <1>6 DEF message

------------------------------------------------------------------------------
\* The variables of the download side keep their types; dl_queue_len, which the
\* handlers decrement more often than they should, stays a u_int32_t.
THEOREM DownloadTypeOK == Spec => []TypeOK
  BY Invariant, PTL DEF DInv, Sound

\* No request outlives its peer: whatever the peers send, and whenever they are
\* reaped or evicted, no struct piece_dl points at a struct peer that is freed.
THEOREM DownloadOwners == Spec => []OwnersConnected
  BY Invariant, InvOwners, PTL

\* Verified data is never overwritten, however late, often and wrongly peers
\* answer.
THEOREM DownloadVerified == Spec => []VerifiedIntact
  BY Invariant, PTL DEF DInv, Sound

\* good_pieces counts the verified pieces exactly, so that the download ends
\* when, and only when, every piece is verified.
THEOREM DownloadGoodPieces == Spec => []GoodPiecesExact
  BY Invariant, PTL DEF DInv, Sound

\* The errx() calls of the hash check and of get_block are never reached.
THEOREM DownloadNoErrx == Spec => []NoErrx
  BY Invariant, PTL DEF DInv, Sound

\* The download side implements PieceDl: handlers and scheduler use the request
\* structures only through its operations.
THEOREM DownloadRefines == Spec => PdSpec
<1>1. Init => PdInit
  BY DEF Init
<1>2. DInv /\ [Next]_vars => [PdNext]_pdvars
  BY NextRefines
<1> QED
  BY <1>1, <1>2, Invariant, PTL DEF Spec, PdSpec

\* A peer marked dead stays marked until it is freed, whatever is still in its
\* input buffer.
THEOREM DownloadDead == Spec => DeadUntilReaped
<1> DEFINE Keeps == \A p \in Peer : "DEAD" \in state[p] =>
                      \/ "DEAD" \in state'[p]
                      \/ at \in {"free", "evict"} /\ cur = p
<1>1. DInv /\ [Next]_vars => [Keeps]_vars
  <2> SUFFICES ASSUME DInv, Next, NEW p \in Peer, "DEAD" \in state[p]
               PROVE  "DEAD" \in state'[p] \/ (at \in {"free", "evict"} /\ cur = p)
    OBVIOUS
  <2>1. state \in [Peer -> SUBSET Flag]
    BY DEF DInv, Sound, TypeOK
  <2>2. CASE \E q \in Peer : connect(q)
    <3>1. PICK q \in Peer : connect(q)
      BY <2>2
    <3>2. q # p
      BY <3>1 DEF connect, DInv, Sound, Unknown, known
    <3> QED
      BY <2>1, <3>1, <3>2 DEF connect
  <2>3. CASE \E q \in Peer, fast \in BOOLEAN : handshake_done(q, fast)
    BY <2>1, <2>3 DEF handshake_done
  <2>4. CASE \E q \in Peer : network_handle_peer_error(q)
    BY <2>1, <2>4 DEF network_handle_peer_error, kill
  <2>5. CASE \E q \in Peer : message(q)
    BY <2>1, <2>5, MessageKeepsDead DEF DInv
  <2>6. CASE tick \/ evict
    BY <2>6 DEF tick, evict, session
  <2>7. CASE handler
    <3>1. CASE network_peer_free
      BY <2>1, <3>1 DEF network_peer_free, DInv, Sound, Control
    <3>2. CASE scheduler_threshold_kill
      BY <2>1, <3>2 DEF scheduler_threshold_kill, kill
    <3>3. CASE ~ network_peer_free /\ ~ scheduler_threshold_kill
      BY <2>7, <3>3, Zenon DEF handler, checkhash, cleanup, scheduler_reap_dead, scheduler_fill_requests,
         fill_one, scheduler_end, scheduler_endgame_algorithm, session
    <3> QED
      BY <3>1, <3>2, <3>3, Zenon
  <2>8. CASE exited
    BY <2>8 DEF exited, vars, session
  <2> QED
    BY <2>2, <2>3, <2>4, <2>5, <2>6, <2>7, <2>8 DEF Next
<1> QED
  BY <1>1, Invariant, PTL DEF Spec, DeadUntilReaped
==============================================================================
