-------------------------------- MODULE Swarm --------------------------------
(***************************************************************************)
(* Module Download connected to peers that follow the protocol.  The peers *)
(* are not code of this repository: they are what the client talks to, and *)
(* do what the client's handlers expect of a peer.  A peer answers the     *)
(* client's REQUESTs in the order they were sent, with the right data; a   *)
(* peer that chokes the client forgets them if it is a plain peer, and     *)
(* rejects each of them if it has the fast extension.                      *)
(*                                                                         *)
(* What a peer does depends on whether it has the fast extension: the      *)
(* client's handshake always offers it.  What the client takes the peer    *)
(* for does not: network.c:452 tests a bit of the info hash, which is the  *)
(* same for every peer of the torrent (module PeerWire).                   *)
(*                                                                         *)
(* A message of a peer is handled as soon as it is sent; a REQUEST of the  *)
(* client waits in pipe[p] until the peer gets to it.                      *)
(***************************************************************************)
EXTENDS Download

VARIABLES
    pipe,          \* the REQUESTs a peer has not answered, oldest first
    share,         \* the pieces a peer has
    fast_peers,    \* the peers that have the fast extension
    fast_bit       \* the bit of the info hash that is taken for the fast extension

nature == <<fast_peers, fast_bit>>
svars == <<vars, pipe, share, nature>>

\* The requests that a step of the scheduler assigns to a peer: each is followed
\* by network_peer_request_block().
requested ==
    {d \in Pd : /\ piece_dl'[d] # NULL /\ piece_dl'[d].pc # NULL
                /\ piece_dl[d] = NULL \/ piece_dl[d].pc # piece_dl'[d].pc}

network_peer_request_block ==
    pipe' = [p \in Peer |->
                IF \E d \in requested : piece_dl'[d].pc = p
                THEN Append(pipe[p], (CHOOSE b \in Block : \E d \in requested : piece_dl'[d].blk = b))
                ELSE IF p \in Range(peers') THEN pipe[p] ELSE <<>>]

alive(p) == connected(p) /\ "DEAD" \notin state[p]
choking(p) == "CHOKED" \in state[p]

------------------------------------------------------------------------------
(* The client.                                                              *)

client ==
    /\ \/ tick
       \/ handler
    /\ network_peer_request_block
    /\ UNCHANGED <<share, nature>>

join(p) ==
    /\ \/ connect(p)
       \/ handshake_done(p, fast_bit)
    /\ UNCHANGED <<pipe, share, nature>>

------------------------------------------------------------------------------
(* The peers.                                                               *)

announce_pieces(p) ==
    /\ alive(p)
    /\ MSG_BITFIELD(p, share[p])
    /\ UNCHANGED <<pipe, share, nature>>

\* The peer gets a piece from somebody else.
acquire(p, i) ==
    /\ alive(p) /\ "ESTABLISHED" \in state[p] /\ i \notin share[p]
    /\ share' = [share EXCEPT ![p] = @ \cup {i}]
    /\ MSG_HAVE(p, i)
    /\ UNCHANGED <<pipe, nature>>

choke(p) ==
    /\ alive(p) /\ ~ choking(p)
    /\ MSG_CHOKE(p)
    /\ pipe' = IF p \in fast_peers THEN pipe ELSE [pipe EXCEPT ![p] = <<>>]
    /\ UNCHANGED <<share, nature>>

unchoke(p) ==
    /\ alive(p) /\ choking(p) /\ "AMINTERESTED" \in state[p]
    /\ MSG_UNCHOKE(p)
    /\ UNCHANGED <<pipe, share, nature>>

serve(p) ==
    /\ alive(p) /\ ~ choking(p) /\ pipe[p] # <<>>
    /\ Head(pipe[p])[1] \in share[p]
    /\ MSG_PIECE(p, Head(pipe[p]), TRUE)
    /\ pipe' = [pipe EXCEPT ![p] = Tail(@)]
    /\ UNCHANGED <<share, nature>>

\* A fast peer that is choking or does not have the piece says so; a plain one
\* that does not have it ignores the request.
refuse(p) ==
    /\ alive(p) /\ pipe[p] # <<>>
    /\ choking(p) \/ Head(pipe[p])[1] \notin share[p]
    /\ IF p \in fast_peers THEN MSG_REJECT(p, Head(pipe[p]))
       ELSE at = "idle" /\ UNCHANGED vars
    /\ pipe' = [pipe EXCEPT ![p] = Tail(@)]
    /\ UNCHANGED <<share, nature>>

\* The connection breaks.
hang_up(p) ==
    /\ alive(p)
    /\ network_handle_peer_error(p)
    /\ pipe' = [pipe EXCEPT ![p] = <<>>]
    /\ UNCHANGED <<share, nature>>

------------------------------------------------------------------------------
SwarmInit ==
    /\ Init
    /\ pipe = [p \in Peer |-> <<>>]
    /\ share \in [Peer -> SUBSET Piece]
    /\ fast_peers \in SUBSET Peer /\ fast_bit \in BOOLEAN

peer(p) ==
    \/ announce_pieces(p)
    \/ \E i \in Piece : acquire(p, i)
    \/ choke(p)
    \/ unchoke(p)
    \/ serve(p)
    \/ refuse(p)
    \/ hang_up(p)

SwarmNext ==
    \/ client
    \/ \E p \in Peer : join(p)
    \/ \E p \in Peer : peer(p)
    \/ exited /\ UNCHANGED <<pipe, share, nature>>

SwarmSpec == SwarmInit /\ [][SwarmNext]_svars

\* The scheduler's timer is rearmed by every tick and libevent looks at the timers
\* in every turn of its loop, and a handler runs to its end.  A peer answers its
\* requests sooner or later.
Fairness ==
    /\ SF_svars(tick /\ client)
    /\ WF_svars(handler /\ client)
    /\ \A p \in Peer : SF_svars(serve(p) \/ refuse(p))

------------------------------------------------------------------------------
\* The variables keep their types: what a peer has been asked for is blocks of the
\* torrent, and what it shares is pieces of it.
SwarmTypeOK ==
    /\ TypeOK
    /\ pipe \in [Peer -> Seq(Block)]
    /\ share \in [Peer -> SUBSET Piece]
    /\ fast_peers \subseteq Peer /\ fast_bit \in BOOLEAN

\* dl_queue_len is the block request queue length: between two handlers it is the
\* number of REQUESTs the peer has still to answer, so that filling the queue
\* neither starves nor floods the peer.
QueueLenExact ==
    at = "idle" => \A p \in Peer : alive(p) => dl_queue_len[p] = Len(pipe[p])

\* A peer that answers what it was asked, or refuses it as the protocol says, is
\* not killed for it, neither for sending "data we didn't request" nor for a
\* REJECT: when its answer comes, the request is still on record.
AnswersExpected ==
    [][\A p \in Peer : serve(p) \/ refuse(p) => "DEAD" \notin state'[p]]_svars

\* No block is asked for twice: of the peers' unanswered requests no two are for
\* the same block, and none is for a block that has arrived, whatever chokes,
\* refusals and broken connections lie between the ticks that filled the queues.
\* For peers that have every piece, which the end game leaves alone.
AskedOnce ==
    \A p, q \in Peer : alive(p) /\ alive(q) =>
        \A j \in DOMAIN pipe[p], k \in DOMAIN pipe[q] :
            /\ pipe[p][j] = pipe[q][k] => p = q /\ j = k
            /\ \A d \in find_any(pipe[p][j]) : ~ complete(d)

\* "If peer is not choked, make sure it has enough requests in its queue": a peer
\* that scheduler_fill_requests() finds no room for has the least number of
\* requests, or more, still to answer.
EnoughRequests ==
    [][scheduler_fill_requests /\ at' = "peers" =>
         LET p == Head(todo)
         IN  alive(p) /\ ~ choking(p) /\ good_pieces < NumPieces => Len(pipe[p]) >= MinQueue]_svars

\* A peer is only asked for pieces it has announced.
AsksHolders ==
    \A p \in Peer : alive(p) => \A b \in Range(pipe[p]) : getbit(bitfield[p], b[1])

\* No piece is forgotten: between two handlers a missing piece has a block that
\* the scheduler may still hand out, one that a peer is about to send, or one
\* assigned to a dead peer, which is handed out again when the peer is reaped.
NothingForgotten ==
    at = "idle" => \A i \in Piece \ cksumok : \E b \in blocks(i) :
        \/ unassigned(b)
        \/ \E p \in Peer : alive(p) /\ b \in Range(pipe[p])
        \/ \E d \in find_any(b), p \in Peer :
             piece_dl[d].pc = p /\ ~ complete(d) /\ "DEAD" \in state[p]

\* The download completes once every peer stays connected and unchokes us for
\* good.
Completes ==
    (\A p \in Peer : <>[](alive(p) /\ ~ choking(p))) => <>(at = "exit")
==============================================================================
