------------------------------- MODULE PieceDl -------------------------------
(***************************************************************************)
(* The block requests of a session (struct piece_dl) and the two ways the  *)
(* client reaches them: the list of each peer (peer->peer_piece_dls) and   *)
(* the red-black tree keyed by piece index and offset                      *)
(* (session->piece_dl_by_idxoff), each node of which holds the list of all *)
(* the requests for that block.  Every operation of network.c and          *)
(* scheduler.c that touches these structures is one action here; module    *)
(* Download says when each one is called.                                  *)
(***************************************************************************)
EXTENDS Naturals, Sequences, Functions

CONSTANTS
    Peer,       \* addresses of struct peer
    Pd,         \* addresses malloc may return for a struct piece_dl
    Block,      \* the (idx, off) pairs of the torrent's blocks
    NULL

\* A fresh allocation is told apart from the null pointer and from a peer.
ASSUME NullAssumption == NULL \notin Peer /\ NULL \notin Pd

\* pd->bytes in units of pd->len: a PIECE is accepted only when its length is
\* pd->len, so bytes is a multiple of it.  Two stands for every larger multiple.
Bytes == 0..2
LEN == 1

PieceDlRec == [pc : Peer \cup {NULL}, blk : Block, bytes : Bytes]

\* The null pointer is not a request either.
ASSUME NullRecAssumption == NULL \notin PieceDlRec

VARIABLES
    piece_dl,         \* the heap: piece_dl[d] is NULL where d is not allocated
    tree,             \* the blocks that have a piece_dl_idxnode in the tree
    idxnode_piece_dls,\* the list of each node; <<>> for a block with no node
    peer_piece_dls    \* the list of each peer

pdvars == <<piece_dl, tree, idxnode_piece_dls, peer_piece_dls>>

Live == {d \in Pd : piece_dl[d] # NULL}

complete(d) == piece_dl[d].bytes = LEN

------------------------------------------------------------------------------
(* The tail queues of sys/queue.h.  TAILQ_REMOVE is only meant for an       *)
(* element that is in the list.                                             *)

TAILQ_INSERT_TAIL(s, d) == Append(s, d)

TAILQ_REMOVE(s, d) ==
    [i \in 1..(Len(s) - 1) |-> IF \E j \in 1..i : s[j] = d THEN s[i + 1] ELSE s[i]]

------------------------------------------------------------------------------
(* network_piece_dl_find(): the set of the request found, empty for NULL.   *)

\* The first entry of s for block b.
FirstFor(s, b) ==
    {s[i] : i \in {k \in 1..Len(s) : /\ piece_dl[s[k]].blk = b
                                    /\ \A j \in 1..(k - 1) : piece_dl[s[j]].blk # b}}

\* find(sc, NULL, idx, off)
find_any(b) ==
    IF b \in tree /\ idxnode_piece_dls[b] # <<>> THEN {Head(idxnode_piece_dls[b])} ELSE {}

\* find(sc, p, idx, off): p's own list first, then the tree
network_piece_dl_find(p, b) ==
    IF FirstFor(peer_piece_dls[p], b) # {} THEN FirstFor(peer_piece_dls[p], b) ELSE find_any(b)

------------------------------------------------------------------------------
(* Operations.                                                              *)

network_piece_dl_create(p, b, d) ==
    /\ piece_dl[d] = NULL
    /\ piece_dl' = [piece_dl EXCEPT ![d] = [pc |-> p, blk |-> b, bytes |-> 0]]
    /\ tree' = tree \cup {b}
    /\ idxnode_piece_dls' = [idxnode_piece_dls EXCEPT ![b] = TAILQ_INSERT_TAIL(@, d)]
    /\ peer_piece_dls' = [peer_piece_dls EXCEPT ![p] = TAILQ_INSERT_TAIL(@, d)]

\* Mutation of IndexRemove: the node stays in the tree when its list is empty.
IndexRemove_keeps_node(d) ==
    /\ idxnode_piece_dls' = [idxnode_piece_dls EXCEPT ![piece_dl[d].blk] = TAILQ_REMOVE(@, d)]
    /\ UNCHANGED tree

\* Take d off its node's list, and the node off the tree if that was its last.
IndexRemove(d) ==
    LET b == piece_dl[d].blk
        rest == TAILQ_REMOVE(idxnode_piece_dls[b], d)
    IN  IF b \in tree
        THEN /\ idxnode_piece_dls' = [idxnode_piece_dls EXCEPT ![b] = rest]
             /\ tree' = IF rest = <<>> THEN tree \ {b} ELSE tree
        ELSE UNCHANGED <<tree, idxnode_piece_dls>>

network_piece_dl_free(d) ==
    /\ piece_dl[d] # NULL
    /\ IndexRemove(d)
    /\ peer_piece_dls' =
         IF piece_dl[d].pc # NULL
         THEN [peer_piece_dls EXCEPT ![piece_dl[d].pc] = TAILQ_REMOVE(@, d)]
         ELSE peer_piece_dls
    /\ piece_dl' = [piece_dl EXCEPT ![d] = NULL]

\* The loop of the CHOKE handler: every request in p's list is orphaned.
orphan_all(p) ==
    /\ piece_dl' = [d \in Pd |-> IF d \in Range(peer_piece_dls[p])
                                 THEN [piece_dl[d] EXCEPT !.pc = NULL]
                                 ELSE piece_dl[d]]
    /\ peer_piece_dls' = [peer_piece_dls EXCEPT ![p] = <<>>]
    /\ UNCHANGED <<tree, idxnode_piece_dls>>

\* Mutation of network_peer_free_dl: a complete request keeps its pc.
network_peer_free_dl_keeps_pc(p) ==
    /\ peer_piece_dls[p] # <<>>
    /\ LET d == Head(peer_piece_dls[p])
       IN  /\ peer_piece_dls' = [peer_piece_dls EXCEPT ![p] = TAILQ_REMOVE(@, d)]
           /\ IF complete(d) THEN UNCHANGED <<piece_dl, tree, idxnode_piece_dls>>
              ELSE piece_dl' = [piece_dl EXCEPT ![d] = NULL] /\ IndexRemove(d)

\* One turn of the loop of network_peer_free(): the first request in p's list
\* is orphaned when complete and freed otherwise.
network_peer_free_dl(p) ==
    /\ peer_piece_dls[p] # <<>>
    /\ LET d == Head(peer_piece_dls[p])
       IN  /\ peer_piece_dls' = [peer_piece_dls EXCEPT ![p] = TAILQ_REMOVE(@, d)]
           /\ IF complete(d)
              THEN /\ piece_dl' = [piece_dl EXCEPT ![d].pc = NULL]
                   /\ UNCHANGED <<tree, idxnode_piece_dls>>
              ELSE /\ piece_dl' = [piece_dl EXCEPT ![d] = NULL]
                   /\ IndexRemove(d)

\* scheduler_piece_gimme(): an orphan is given to another peer.
recycle(p, d) ==
    /\ piece_dl[d] # NULL
    /\ piece_dl[d].pc = NULL
    /\ ~ complete(d)
    /\ piece_dl' = [piece_dl EXCEPT ![d].pc = p]
    /\ peer_piece_dls' = [peer_piece_dls EXCEPT ![p] = TAILQ_INSERT_TAIL(@, d)]
    /\ UNCHANGED <<tree, idxnode_piece_dls>>

\* network_peer_read_piece(): the block's bytes are counted on the request.
count_bytes(d) ==
    /\ piece_dl[d] # NULL
    /\ piece_dl' = [piece_dl EXCEPT ![d].bytes = IF @ = 2 THEN 2 ELSE @ + 1]
    /\ UNCHANGED <<tree, idxnode_piece_dls, peer_piece_dls>>

------------------------------------------------------------------------------
PdInit ==
    /\ piece_dl = [d \in Pd |-> NULL]
    /\ tree = {}
    /\ idxnode_piece_dls = [b \in Block |-> <<>>]
    /\ peer_piece_dls = [p \in Peer |-> <<>>]

PdNext ==
    \/ \E p \in Peer, b \in Block, d \in Pd : network_piece_dl_create(p, b, d)
    \/ \E d \in Pd : network_piece_dl_free(d)
    \/ \E p \in Peer : orphan_all(p)
    \/ \E p \in Peer : network_peer_free_dl(p)
    \/ \E p \in Peer, d \in Pd : recycle(p, d)
    \/ \E d \in Pd : count_bytes(d)

PdSpec == PdInit /\ [][PdNext]_pdvars

------------------------------------------------------------------------------
\* The variables keep their types: every list is of requests, and no request has
\* received more bytes than its block can hold.
PdTypeOK ==
    /\ piece_dl \in [Pd -> PieceDlRec \cup {NULL}]
    /\ tree \subseteq Block
    /\ idxnode_piece_dls \in [Block -> Seq(Pd)]
    /\ peer_piece_dls \in [Peer -> Seq(Pd)]

\* The per-peer lists and the tree agree with the requests themselves, which is
\* what lets network_piece_dl_free() unlink a request without looking for it:
\* a request is in the list of its block's node exactly once, in the list of
\* the peer it is assigned to exactly once, in no other list, and no list
\* holds freed memory.
Linked ==
    /\ \A b \in Block :
         /\ IsInjective(idxnode_piece_dls[b])
         /\ Range(idxnode_piece_dls[b]) = {d \in Live : piece_dl[d].blk = b}
    /\ \A p \in Peer :
         /\ IsInjective(peer_piece_dls[p])
         /\ Range(peer_piece_dls[p]) = {d \in Live : piece_dl[d].pc = p}

\* A node is in the tree exactly while some request for its block exists: the
\* trace loop of scheduler() dereferences TAILQ_FIRST of every node of the tree
\* with no null check.
NoEmptyNode == \A b \in Block : b \in tree <=> idxnode_piece_dls[b] # <<>>

PdInv == PdTypeOK /\ Linked /\ NoEmptyNode
==============================================================================
