------------------------------ MODULE Uploads -------------------------------
(***************************************************************************)
(* Uploading: the requests and cancels of peers, the queue of each peer,   *)
(* the scheduler's tick, which honours one request of every peer, and the  *)
(* choke algorithm, which is part of the tick every tenth second.  It runs *)
(* when a tick happens to fall on such a second, so that nothing is said   *)
(* about how often it does.                                                *)
(*                                                                         *)
(* Rates are not modelled: interested peers rank before the others, and in *)
(* any order among themselves.  A request is one for a block inside its    *)
(* piece; what the block holds is the subject of module Store.             *)
(***************************************************************************)
EXTENDS Integers, Sequences, SequencesExt, FiniteSets

CONSTANTS
    Peer,
    Block,             \* the blocks peers ask for, one of each piece
    Slots,             \* 3, the fastest peers to unchoke
    Asking,            \* bound: the peers that ask for blocks
    MaxQueue           \* bound: requests of one peer not honoured yet

ASSUME UploadConstants == Slots \in Nat \ {0} /\ MaxQueue \in Nat /\ Asking \subseteq Peer

VARIABLES
    fast,              \* the peers have the fast extension; of one torrent, all or none
    good,              \* blocks of pieces with TORRENT_PIECE_CKSUMOK
    peers,             \* sc->peers, the list
    interested,        \* peers with PEER_STATE_INTERESTED
    unchoked,          \* peers without PEER_STATE_AMCHOKING
    dead,              \* peers with PEER_STATE_DEAD
    uls,               \* the queue of each peer, peer_piece_uls
    waiting,           \* answers each peer still waits for, of each block
    now                \* the second on which the tick just fell, 0 after another event

flags == <<interested, unchoked, dead>>
vars == <<fast, good, peers, interested, unchoked, dead, uls, waiting, now>>

\* Only peers of the list have a bufferevent.
listed(p) == p \in Range(peers)

------------------------------------------------------------------------------
(* What peers do.                                                           *)

\* A new peer is choked and has asked for nothing.
network_peer_create(p) ==
    /\ ~ listed(p)
    /\ peers' = Append(peers, p)
    /\ now' = 0
    /\ UNCHANGED <<fast, good, flags, uls, waiting>>

\* The flags are all cleared, AMCHOKING too.
dies(p) ==
    /\ listed(p)
    /\ dead' = dead \cup {p} /\ interested' = interested \ {p} /\ unchoked' = unchoked \cup {p}
    /\ now' = 0
    /\ UNCHANGED <<fast, good, peers, uls, waiting>>

INTERESTED(p) ==
    /\ listed(p) /\ interested' = interested \cup {p}
    /\ now' = 0
    /\ UNCHANGED <<fast, good, peers, unchoked, dead, uls, waiting>>

NOTINTERESTED(p) ==
    /\ listed(p) /\ interested' = interested \ {p}
    /\ now' = 0
    /\ UNCHANGED <<fast, good, peers, unchoked, dead, uls, waiting>>

network_piece_ul_enqueue(p, b) == uls' = [uls EXCEPT ![p] = Append(@, b)]

\* A request for what we have is queued, also of a choked peer.  One for what we
\* do not have is rejected if the peer knows that message.
REQUEST(p, b) ==
    /\ listed(p) /\ Len(uls[p]) < MaxQueue
    /\ IF b \in good
       THEN network_piece_ul_enqueue(p, b) /\ waiting' = [waiting EXCEPT ![p][b] = @ + 1]
       ELSE /\ UNCHANGED uls
            /\ waiting' = [waiting EXCEPT ![p][b] = IF fast THEN @ ELSE 1]
    /\ now' = 0
    /\ UNCHANGED <<fast, good, peers, flags>>

\* Mutation of CANCEL: only the first match is removed.
CANCEL_first(p, b) ==
    /\ listed(p)
    /\ uls' = [uls EXCEPT ![p] = RemoveFirst(@, b)]
    /\ waiting' = [waiting EXCEPT ![p][b] = 0]
    /\ now' = 0
    /\ UNCHANGED <<fast, good, peers, flags>>

\* All requests for the block are removed.
CANCEL(p, b) ==
    /\ listed(p)
    /\ uls' = [uls EXCEPT ![p] = Remove(@, b)]
    /\ waiting' = [waiting EXCEPT ![p][b] = 0]
    /\ now' = 0
    /\ UNCHANGED <<fast, good, peers, flags>>

\* A piece is downloaded and verified.
piece_verified(b) ==
    /\ good' = good \cup {b}
    /\ now' = 0
    /\ UNCHANGED <<fast, peers, flags, uls, waiting>>

------------------------------------------------------------------------------
(* The choke algorithm.                                                     *)

\* Mutation of scheduler_peer_speedrank: interest is not asked for.
scheduler_peer_speedrank_any(list, int) == SetToSeqs(Range(list))

\* The orders that the peers of list can be sorted to: the interested come first.
scheduler_peer_speedrank(list, int) ==
    {a \o b : a \in SetToSeqs(Range(list) \cap int), b \in SetToSeqs(Range(list) \ int)}

\* The walk to the j-th interested peer looks at the first one of the ranking all
\* the way: it ends where it begins, at the head of the list.
opportunistic(list, rank, int, j) ==
    list[1 + (IF rank[1] \notin int THEN j ELSE 0)]

\* Mutation of choke_round: those who are not among the fastest are left alone.
choke_round_lazy(list, rank, int, unch, second) ==
    LET top == {rank[i] : i \in 1..(IF Slots < Len(rank) THEN Slots ELSE Len(rank))}
        n == Cardinality(Range(list) \cap int)
        p2s == IF second = 30 /\ n > 0
               THEN {{opportunistic(list, rank, int, j)} : j \in 0..(n - 1)} ELSE {{}}
    IN  {unch \cup (top \cap int) \cup p2 : p2 \in p2s}

\* The peers that may be unchoked after a round: the fastest, if interested or
\* unchoked before, and every third round the opportunistic one.
choke_round(list, rank, int, unch, second) ==
    LET top == {rank[i] : i \in 1..(IF Slots < Len(rank) THEN Slots ELSE Len(rank))}
        n == Cardinality(Range(list) \cap int)
        p2s == IF second = 30 /\ n > 0
               THEN {{opportunistic(list, rank, int, j)} : j \in 0..(n - 1)} ELSE {{}}
    IN  {(top \cap (int \cup unch)) \cup p2 : p2 \in p2s}

\* What the tick that falls on this second may leave unchoked.
scheduler_choke_algorithm(list, int, unch, second) ==
    IF second = 1 THEN {unch}
    ELSE UNION {choke_round(list, r, int, unch, second) : r \in scheduler_peer_speedrank(list, int)}

------------------------------------------------------------------------------
(* The tick.                                                                *)

\* Mutation of scheduler_dequeue_uploads: a choked peer is not served.
scheduler_dequeue_uploads_unchoked(p) == IF p \in unchoked /\ uls[p] # <<>> THEN Tail(uls[p]) ELSE uls[p]

\* The queue of p after one request was honoured.
scheduler_dequeue_uploads(p) == IF uls[p] = <<>> THEN <<>> ELSE Tail(uls[p])

\* network_peer_write_piece(): the head of the queue is sent to each of ps.
network_peer_write_piece(ps) ==
    waiting' = [p \in Peer |->
        IF p \notin Range(peers) \ dead THEN [b \in Block |-> 0]
        ELSE IF p \in ps /\ scheduler_dequeue_uploads(p) # uls[p]
        THEN [waiting[p] EXCEPT ![Head(uls[p])] = @ - 1]
        ELSE waiting[p]]

\* The dead are reaped, the silent are killed, all others are served, and the
\* choke algorithm sees those that are left.
scheduler(silent, second) ==
    LET list == SelectSeq(peers, LAMBDA p : p \notin dead)
        served == Range(list) \ silent
        int == interested \cap served
        unch == (unchoked \cap Range(list)) \cup silent
    IN  /\ silent \subseteq Range(list)
        /\ peers' = list
        /\ dead' = silent
        /\ interested' = int
        /\ uls' = [p \in Peer |->
                     IF p \in served THEN scheduler_dequeue_uploads(p)
                     ELSE IF p \in silent THEN uls[p] ELSE <<>>]
        /\ network_peer_write_piece(served)
        /\ unchoked' \in scheduler_choke_algorithm(list, int, unch, second)
        /\ now' = second
        /\ UNCHANGED <<fast, good>>

tick == \E silent \in SUBSET Peer, second \in {1, 10, 30} : scheduler(silent, second)

Init ==
    /\ fast \in BOOLEAN /\ good \in SUBSET Block
    /\ peers = <<>>
    /\ interested = {} /\ unchoked = {} /\ dead = {}
    /\ uls = [p \in Peer |-> <<>>]
    /\ waiting = [p \in Peer |-> [b \in Block |-> 0]]
    /\ now = 0

Next ==
    \/ \E p \in Peer :
          \/ network_peer_create(p) \/ dies(p) \/ INTERESTED(p) \/ NOTINTERESTED(p)
    \/ \E p \in Asking, b \in Block : REQUEST(p, b) \/ CANCEL(p, b)
    \/ \E b \in Block : piece_verified(b)
    \/ tick

\* The scheduler's timer fires every second.
Spec == Init /\ [][Next]_vars /\ WF_vars(tick)

------------------------------------------------------------------------------
\* The variables keep their types: no peer is in the list twice, every flag is of
\* a listed peer, and a peer that is freed leaves no queued block behind.
UploadTypeOK ==
    /\ fast \in BOOLEAN /\ good \subseteq Block
    /\ peers \in Seq(Peer) /\ Len(peers) = Cardinality(Range(peers))
    /\ interested \subseteq Range(peers) /\ unchoked \subseteq Range(peers) /\ dead \subseteq Range(peers)
    /\ \A p \in Peer : uls[p] \in Seq(Block) /\ Len(uls[p]) <= MaxQueue /\ (listed(p) \/ uls[p] = <<>>)
    /\ waiting \in [Peer -> [Block -> Nat]] /\ now \in {0, 1, 10, 30}

count(p, b) == Cardinality({i \in DOMAIN uls[p] : uls[p][i] = b})

\* A peer gets each block it asked for and did not cancel, as often as it asked:
\* nothing is sent unasked, after a cancel or twice, whatever chokes, rejects and
\* restarts of the peer come in between, and nothing is left of a peer that is
\* gone.  Only a plain peer is left waiting.
UploadsExact ==
    \A p \in Peer, b \in Block :
        /\ count(p, b) <= waiting[p][b]
        /\ fast => count(p, b) = waiting[p][b]

\* However peers come, go, die and change their interest, no more are unchoked
\* than the fastest and one.
SlotsKept == Cardinality(unchoked \ dead) <= Slots + 1

atLeast(n, m) == n >= m \/ n >= Slots

\* A round leaves as many interested peers unchoked as there are slots for, if
\* there are so many: uninterested and dying peers take none from them.
SlotsUsed ==
    now \in {10, 30} => atLeast(Cardinality(unchoked \cap interested), Cardinality(interested))

\* As long as a peer lives its requests are honoured one by one, also while it
\* is choked.
QueuesMove ==
    \A p \in Asking : []<>(uls[p] = <<>> \/ p \in dead) \/ []<><<Len(uls'[p]) < Len(uls[p])>>_vars

\* "Don't unchoke peers who have not expressed interest."
UnchokesInterested ==
    [][\A p \in Range(peers) \ dead : (p \in unchoked' /\ p \notin unchoked) => p \in interested \cup dead']_vars
==============================================================================
