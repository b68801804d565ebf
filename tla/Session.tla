------------------------------ MODULE Session -------------------------------
(***************************************************************************)
(* One session with the tracker and the peers: announces, the answers,     *)
(* the peer list they feed, connections made and accepted, the timers that *)
(* keep all of it going, and the descriptors it takes.                     *)
(*                                                                         *)
(* An event handler is one step, except that network_peerlist_connect()    *)
(* takes a step for each peer; `at` keeps other handlers out meanwhile.    *)
(* The answer's bytes are counted.  Its text is only good or bad.          *)
(***************************************************************************)
EXTENDS Integers, Sequences, SequencesExt, FiniteSets

CONSTANTS
    Peer,              \* struct peers, numbered
    Addr,              \* addresses a tracker may list
    Incoming,          \* the address of whoever connects to us
    MaxFds,            \* sc->maxfds, also the limit the kernel enforces
    Other,             \* descriptors open besides the ones modelled
    Reserve,           \* 5
    PEERS_WANTED,
    RESBUFLEN,
    READ,              \* 256, what one call reads
    NumPieces,         \* num_pieces
    MaxAnswer,         \* bound: bytes in an answer
    MaxList,           \* bound: addresses in an answer
    NULL

ASSUME SessionConstants ==
    /\ {MaxFds, Other, Reserve, PEERS_WANTED, RESBUFLEN, READ, NumPieces, MaxAnswer, MaxList}
          \subseteq Nat
    /\ Reserve <= MaxFds /\ 0 < READ /\ READ <= RESBUFLEN
    /\ Peer = 1..(MaxFds + Cardinality(Addr)) /\ Incoming \notin Addr

VARIABLES
    seed,              \* the -s flag, fixed
    missing,           \* how many pieces are not good
    left,              \* tp->left, in pieces
    told,              \* the tracker was told that the download is complete
    peers,             \* sc->peers, the list
    num_peers,         \* sc->num_peers
    peer,              \* the allocated structs: NULL if free
    keepalive_event,   \* the peers whose keep-alive timer is set
    servfd,            \* the listening socket is open
    listening,         \* its bufferevent waits for connections
    fds,               \* descriptors open
    lost,              \* descriptors open that nothing refers to any more
    announce_underway,
    res,               \* sc->res, with what its bufferevent has not handed over
    announce_event,    \* the announce timer is set
    scheduler_event,   \* the scheduler's timer is set
    at,                \* "idle", "connect", "exit" or "crash"
    nxt                \* in network_peerlist_connect(): place of the next peer

tracker == <<announce_underway, res, told>>
list == <<peers, num_peers, peer, keepalive_event>>
pieces == <<seed, missing, left>>
server == <<servfd, listening, scheduler_event>>
vars == <<pieces, told, list, server, fds, lost, announce_underway, res, announce_event, at, nxt>>

idle == at = "idle"
connecting == at = "connect"

------------------------------------------------------------------------------
(* Peers.                                                                   *)

new_peer(a, fd) == [sa |-> a, connfd |-> fd, dead |-> FALSE]

network_peer_create(mem) == CHOOSE p \in Peer : mem[p] = NULL /\ \A q \in 1..(p - 1) : mem[q] # NULL

\* How many descriptors network_peer_free() closes for the peers ps.
closed(ps) == Cardinality({p \in ps : peer[p].connfd})

\* network_peer_free() of each of ps; their descriptors are counted by the caller.
network_peer_free(ps) ==
    /\ peer' = [p \in Peer |-> IF p \in ps THEN NULL ELSE peer[p]]
    /\ keepalive_event' = keepalive_event \ ps

\* Mutation of network_peerlist_add_peer: the whole list is taken as new.
network_peerlist_add_peer_blindly(l, a) ==
    LET p == network_peer_create(l.peer)
    IN  [peers |-> Append(l.peers, p), peer |-> [l.peer EXCEPT ![p] = new_peer(a, FALSE)]]

\* A peer is added unless one with its address is in the list.
network_peerlist_add_peer(l, a) ==
    LET p == network_peer_create(l.peer)
    IN  IF \E i \in DOMAIN l.peers : l.peer[l.peers[i]].sa = a THEN l
        ELSE [peers |-> Append(l.peers, p), peer |-> [l.peer EXCEPT ![p] = new_peer(a, FALSE)]]

\* The list with the addresses of an answer, in either format, added.
network_peerlist_update(addrs) ==
    FoldLeft(network_peerlist_add_peer, [peers |-> peers, peer |-> peer], addrs)

------------------------------------------------------------------------------
(* Announces.                                                               *)

\* Mutation of announce: what was left at the start is what is sent.
announce_stale(f, rest, event) ==
    \/ /\ at' = "exit" /\ fds' = f
       /\ UNCHANGED <<announce_underway, res, told>>
    \/ /\ f < MaxFds /\ fds' = f + 1
       /\ announce_underway' = TRUE
       /\ res' = [rxread |-> 0, rxmsglen |-> RESBUFLEN, unread |-> 0]
       /\ told' = (told \/ event = "completed")
       /\ at' = "idle"

\* announce(), when f descriptors are open and tp->left is rest.  The tracker sees
\* a complete download in the event or in left=0.  Without an address, a socket
\* or a connection announce() ends the program.
announce(f, rest, event) ==
    \/ /\ at' = "exit" /\ fds' = f
       /\ UNCHANGED <<announce_underway, res, told>>
    \/ /\ f < MaxFds /\ fds' = f + 1
       /\ announce_underway' = TRUE
       /\ res' = [rxread |-> 0, rxmsglen |-> RESBUFLEN, unread |-> 0]
       /\ told' = (told \/ rest = 0 \/ event = "completed")
       /\ at' = "idle"

\* Mutation of handle_response: the buffer grows when it is full.
handle_response_full(r) ==
    LET n == IF READ < r.unread THEN READ ELSE r.unread
    IN  [rxread |-> r.rxread + n, unread |-> r.unread - n,
         rxmsglen |-> IF r.rxmsglen <= r.rxread THEN r.rxmsglen + RESBUFLEN ELSE r.rxmsglen]

\* One call of handle_announce_response(): the buffer grows when it is nearly
\* full, and at most READ bytes are read.
handle_response(r) ==
    LET n == IF READ < r.unread THEN READ ELSE r.unread
    IN  [rxread |-> r.rxread + n, unread |-> r.unread - n,
         rxmsglen |-> IF r.rxmsglen <= r.rxread + READ
                      THEN r.rxmsglen + RESBUFLEN ELSE r.rxmsglen]

handle_announce_response(n) ==
    /\ idle /\ announce_underway
    /\ res.rxread + res.unread + n <= MaxAnswer
    /\ res' = handle_response([res EXCEPT !.unread = @ + n])
    /\ UNCHANGED <<pieces, told, list, server, fds, lost, announce_underway, announce_event, at, nxt>>

\* "Still could be data left for reading": calls until one reads nothing.
drained ==
    LET calls[k \in 0..(MaxAnswer + 1)] == IF k = 0 THEN res ELSE handle_response(calls[k - 1])
    IN  calls[CHOOSE k \in 1..(MaxAnswer + 1) :
                  /\ calls[k].rxread = calls[k - 1].rxread
                  /\ \A j \in 1..(k - 1) : calls[j].rxread # calls[j - 1].rxread]

\* Mutation of err: the socket is not closed.
err_open(opened) ==
    /\ fds' = fds + opened
    /\ res' = NULL
    /\ announce_underway' = FALSE

\* Label err: everything of the request is freed and closed; opened counts the
\* descriptors opened since it was answered.
err(opened) ==
    /\ fds' = fds + opened - 1
    /\ res' = NULL
    /\ announce_underway' = FALSE

\* handle_announce_error(): the tracker closed the connection.  Not a byte was
\* received: the request is over, its socket stays open.
no_answer ==
    /\ idle /\ announce_underway /\ drained.rxread = 0
    /\ announce_underway' = FALSE
    /\ res' = drained
    /\ lost' = lost + 1
    /\ UNCHANGED <<pieces, told, list, server, fds, announce_event, at, nxt>>

\* Not a good HTTP response, a failure reason, or no peers field.
bad_answer ==
    /\ idle /\ announce_underway /\ drained.rxread > 0
    /\ err(0)
    /\ UNCHANGED <<pieces, told, list, server, lost, announce_event, at, nxt>>

\* An answer that is not bencoded, or has a field of the wrong type.
fatal_answer ==
    /\ idle /\ announce_underway /\ drained.rxread > 0
    /\ at' = "exit"
    /\ UNCHANGED <<pieces, list, server, fds, lost, tracker, announce_event, nxt>>

\* The addresses are added to the list, and the list is to be connected.
good_answer(addrs) ==
    LET l == network_peerlist_update(addrs)
    IN  /\ idle /\ announce_underway /\ drained.rxread > 0
        /\ res' = drained
        /\ peers' = l.peers /\ peer' = l.peer
        /\ num_peers' = num_peers + (Len(l.peers) - Len(peers))
        /\ at' = "connect" /\ nxt' = 1
        /\ UNCHANGED <<pieces, told, keepalive_event, server, fds, lost, announce_underway,
                       announce_event>>

------------------------------------------------------------------------------
(* network_peerlist_connect(), a step for each peer.                        *)

\* Mutation of too_many: off by one.
too_many_later == num_peers > MaxFds - Reserve

too_many == num_peers >= MaxFds - Reserve

connect_frame == UNCHANGED <<pieces, tracker, server, announce_event>>

\* Mutation of evict: num_peers is not touched.
evict_uncounted ==
    /\ connecting /\ nxt <= Len(peers) /\ too_many
    /\ LET p == peers[nxt]
       IN  /\ network_peer_free({p})
           /\ fds' = fds - closed({p})
           /\ peers' = Remove(peers, p)
    /\ UNCHANGED <<num_peers, lost, nxt>>
    /\ \/ UNCHANGED at
       \/ at' = "crash"
    /\ connect_frame

\* A peer too many is freed, connected or not.  It is taken off the list after
\* that, through links that free() may have overwritten.
evict ==
    /\ connecting /\ nxt <= Len(peers) /\ too_many
    /\ LET p == peers[nxt]
       IN  /\ network_peer_free({p})
           /\ fds' = fds - closed({p})
           /\ peers' = Remove(peers, p)
    /\ num_peers' = num_peers - 1
    /\ UNCHANGED <<lost, nxt>>
    /\ \/ UNCHANGED at
       \/ at' = "crash"
    /\ connect_frame

connected_already ==
    /\ connecting /\ nxt <= Len(peers) /\ ~ too_many
    /\ peer[peers[nxt]].connfd
    /\ nxt' = nxt + 1
    /\ UNCHANGED <<list, fds, lost, at>> /\ connect_frame

connect ==
    /\ connecting /\ nxt <= Len(peers) /\ ~ too_many
    /\ ~ peer[peers[nxt]].connfd /\ fds < MaxFds
    /\ fds' = fds + 1
    /\ peer' = [peer EXCEPT ![peers[nxt]].connfd = TRUE]
    /\ keepalive_event' = keepalive_event \cup {peers[nxt]}
    /\ nxt' = nxt + 1
    /\ UNCHANGED <<peers, num_peers, lost, at>> /\ connect_frame

\* The peer is removed.  If it was connect() that failed, its socket stays open.
connect_fails ==
    /\ connecting /\ nxt <= Len(peers) /\ ~ too_many
    /\ ~ peer[peers[nxt]].connfd
    /\ \/ UNCHANGED <<fds, lost>>
       \/ fds < MaxFds /\ fds' = fds + 1 /\ lost' = lost + 1
    /\ network_peer_free({peers[nxt]})
    /\ peers' = Remove(peers, peers[nxt])
    /\ num_peers' = num_peers - 1
    /\ UNCHANGED <<at, nxt>> /\ connect_frame

\* The rest of handle_announce_error(): the timers, and after the first good
\* answer the server socket and the scheduler.
all_connected ==
    /\ connecting /\ nxt > Len(peers)
    /\ announce_event' = TRUE
    /\ \/ servfd /\ err(0) /\ at' = "idle" /\ UNCHANGED server
       \/ /\ ~ servfd /\ fds < MaxFds
          /\ servfd' = TRUE /\ listening' = TRUE /\ scheduler_event' = TRUE
          /\ err(1) /\ at' = "idle"
       \/ ~ servfd /\ at' = "exit" /\ UNCHANGED <<fds, res, announce_underway, server>>
    /\ nxt' = 1
    /\ UNCHANGED <<pieces, told, list, lost>>

------------------------------------------------------------------------------
(* Timers, connections and peers.                                           *)

\* Mutation of announce_update: a seed does not ask.
announce_update_seed ==
    /\ idle /\ announce_event
    /\ IF announce_underway \/ missing = 0 THEN UNCHANGED <<tracker, fds, at>>
       ELSE announce(fds, left, NULL)
    /\ UNCHANGED <<pieces, list, server, lost, announce_event, nxt>>

announce_update ==
    /\ idle /\ announce_event
    /\ IF announce_underway THEN UNCHANGED <<tracker, fds, at>> ELSE announce(fds, left, NULL)
    /\ UNCHANGED <<pieces, list, server, lost, announce_event, nxt>>

\* The list of a second's tick: the dead are reaped.  If there are too few
\* peers, and a minute went by since the last announce, the tracker is asked.
scheduler ==
    LET dead == {p \in Range(peers) : peer[p].dead}
        alive == SelectSeq(peers, LAMBDA p : p \notin dead)
    IN  /\ idle /\ scheduler_event
        /\ peers' = alive
        /\ num_peers' = num_peers - Cardinality(dead)
        /\ network_peer_free(dead)
        /\ \/ fds' = fds - closed(dead) /\ UNCHANGED <<tracker, at>>
           \/ /\ num_peers' < PEERS_WANTED /\ missing > 0 /\ ~ announce_underway
              /\ announce(fds - closed(dead), left, NULL)
        /\ UNCHANGED <<pieces, server, lost, announce_event, nxt>>

\* accept() failed, for want of descriptors or otherwise: the bufferevent is not
\* enabled again, and nobody will be taken in from now on.
accept_error ==
    /\ idle /\ listening
    /\ listening' = FALSE
    /\ UNCHANGED <<pieces, tracker, list, servfd, scheduler_event, fds, lost, announce_event, at, nxt>>

\* Whoever connects is taken in, however many peers there are.
network_handle_peer_connect ==
    LET p == network_peer_create(peer)
    IN  /\ idle /\ listening
        /\ fds < MaxFds /\ fds' = fds + 1
        /\ peer' = [peer EXCEPT ![p] = new_peer(Incoming, TRUE)]
        /\ keepalive_event' = keepalive_event \cup {p}
        /\ peers' = Append(peers, p) /\ num_peers' = num_peers + 1
        /\ UNCHANGED <<pieces, tracker, server, lost, announce_event, at, nxt>>

\* network_handle_peer_error(), a bad message, or too long a silence.
network_handle_peer_error(p) ==
    /\ idle /\ p \in Range(peers)
    /\ peer' = [peer EXCEPT ![p].dead = TRUE]
    /\ UNCHANGED <<pieces, tracker, peers, num_peers, keepalive_event, server, fds, lost,
                   announce_event, at, nxt>>

\* A peer's timer is set again each time it fires.
network_peer_keepalive(p) ==
    /\ idle /\ p \in keepalive_event
    /\ keepalive_event' = keepalive_event \cup {p}
    /\ UNCHANGED <<pieces, tracker, peers, num_peers, peer, server, fds, lost,
                   announce_event, at, nxt>>

\* A piece is verified.  The last one is all without -s; with it the tracker is
\* told, unless an announce is underway.
piece_verified ==
    /\ idle /\ missing > 0 /\ \E p \in Range(peers) : ~ peer[p].dead
    /\ missing' = missing - 1 /\ left' = left - 1
    /\ \/ missing' > 0 /\ UNCHANGED <<tracker, fds, at>>
       \/ missing' = 0 /\ ~ seed /\ at' = "exit" /\ UNCHANGED <<tracker, fds>>
       \/ missing' = 0 /\ seed /\ ~ announce_underway /\ announce(fds, left', "completed")
       \/ missing' = 0 /\ seed /\ announce_underway /\ UNCHANGED <<tracker, fds, at>>
    /\ UNCHANGED <<seed, list, server, lost, announce_event, nxt>>

\* network_start_torrent(): the first announce is made.  tp->left is all of the
\* torrent, however much of it was found, unless that is all.  What is complete is
\* only started to be seeded.
Init ==
    /\ seed \in BOOLEAN /\ missing \in 0..NumPieces /\ (missing > 0 \/ seed)
    /\ left = (IF missing = 0 THEN 0 ELSE NumPieces)
    /\ told = (missing = 0)
    /\ peers = <<>> /\ num_peers = 0
    /\ peer = [p \in Peer |-> NULL] /\ keepalive_event = {}
    /\ servfd = FALSE /\ listening = FALSE /\ fds = Other + 1 /\ lost = 0
    /\ announce_underway = TRUE
    /\ res = [rxread |-> 0, rxmsglen |-> RESBUFLEN, unread |-> 0]
    /\ announce_event = FALSE /\ scheduler_event = FALSE
    /\ at = "idle" /\ nxt = 1

Connect == evict \/ connected_already \/ connect \/ connect_fails \/ all_connected

Next ==
    \/ Connect
    \/ \E n \in 1..MaxAnswer : handle_announce_response(n)
    \/ no_answer
    \/ bad_answer
    \/ fatal_answer
    \/ \E n \in 0..MaxList : \E addrs \in [1..n -> Addr] : good_answer(addrs)
    \/ announce_update
    \/ scheduler
    \/ accept_error
    \/ network_handle_peer_connect
    \/ \E p \in Peer : network_handle_peer_error(p) \/ network_peer_keepalive(p)
    \/ piece_verified

\* A handler that runs runs on, and the announce timer fires.
Spec == Init /\ [][Next]_vars /\ WF_vars(Connect) /\ WF_vars(announce_update)

------------------------------------------------------------------------------
\* The variables keep their types: descriptors are never more than the limit, an
\* announce that is under way has its response buffer, and the walk over the
\* peer list of network_peerlist_connect() stays inside it.
SessionTypeOK ==
    /\ {seed, told, servfd, listening, announce_underway, announce_event, scheduler_event} \subseteq BOOLEAN
    /\ missing \in 0..NumPieces /\ left \in missing..NumPieces
    /\ peers \in Seq(Peer) /\ num_peers \in Nat /\ keepalive_event \subseteq Peer
    /\ \A p \in Peer : peer[p] = NULL \/ peer[p] \in
          [sa : Addr \cup {Incoming}, connfd : BOOLEAN, dead : BOOLEAN]
    /\ fds \in Other..MaxFds /\ lost \in Nat
    /\ announce_underway => res # NULL
    /\ at \in {"idle", "connect", "exit", "crash"} /\ nxt \in 1..(Cardinality(Peer) + 1)

\* The list and the structs agree, in the middle of a handler, too: the list holds
\* each allocated struct once, num_peers counts them (or the next ranking of peers
\* ends the program), and keep-alive timers are those of connected peers.
ListExact ==
    /\ num_peers = Len(peers)
    /\ \A i, j \in DOMAIN peers : peers[i] = peers[j] => i = j
    /\ Range(peers) = {p \in Peer : peer[p] # NULL}
    /\ keepalive_event = {p \in Range(peers) : peer[p].connfd}

\* The tracker's addresses are in the list once, however often it repeats them.
NoPeerTwice ==
    \A p, q \in Range(peers) :
        (peer[p].sa \in Addr /\ peer[p].sa = peer[q].sa) => p = q

\* Every descriptor is the listener's, a peer's or the current request's, but for
\* those of failed connects and of requests without an answer, which stay open.
FdsAccounted ==
    fds = Other + (IF servfd THEN 1 ELSE 0) + (IF announce_underway THEN 1 ELSE 0)
          + closed(Range(peers)) + lost

\* Bytes of an answer are never written behind the buffer, and an answer is parsed
\* only when all of it was read.
AnswerWhole ==
    announce_underway =>
        /\ res.rxread <= res.rxmsglen
        /\ connecting => res.unread = 0

\* When the peers of an answer are connected there are fewer than the limit, with
\* accepted connections counted.
LimitKept ==
    [][(connecting /\ at' = "idle") => num_peers' < MaxFds - Reserve]_vars

stopped == at \in {"exit", "crash"}

\* Once the first good answer has set the announce timer, the tracker is asked
\* again whenever no announce is underway, whatever became of the last one.  A
\* request that never ends, and a failed first one, which nobody repeats, are
\* outside what the code promises.
AsksAgain == (idle /\ servfd /\ ~ announce_underway) ~> (announce_underway \/ stopped)

\* The tracker learns that the download is complete, also when the completed event
\* was not sent because an announce was underway, if its requests end and what was
\* left at the start was counted right: tp->left is 0 then.
TrackerLearns ==
    []<>(~ announce_underway) => ((servfd /\ missing = 0 /\ left = 0) ~> (told \/ stopped))

\* When the last piece is verified under -s the tracker is told, as the comment
\* "tell tracker we're done" at the completed event has it, at once or later, if
\* its requests end.  It is not when a resumed download drops the event: tp->left
\* still counts the pieces found at the start.
ToldWhenDone ==
    []<>(~ announce_underway) => ((servfd /\ missing = 0) ~> (told \/ stopped))
==============================================================================
