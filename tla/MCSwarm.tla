------------------------------- MODULE MCSwarm -------------------------------
(* Instances of Swarm for TLC. *)
EXTENDS Swarm, TLC

CONSTANTS p1, p2, d1, d2, d3, d4

\* Two pieces, the first one of two blocks.
Blocks21 == 0 :> 2 @@ 1 :> 1
BlockSet21 == {<<0, 0>>, <<0, 1>>, <<1, 0>>}

\* One piece of two blocks.
Blocks2 == 0 :> 2
BlockSet2 == {<<0, 0>>, <<0, 1>>}

Blocks11 == 0 :> 1 @@ 1 :> 1
BlockSet11 == {<<0, 0>>, <<1, 0>>}

\* There is always memory for one more request.
HeapBound == \E d \in Pd : piece_dl[d] = NULL

\* A new torrent: nothing on disk.
FreshInit == SwarmInit /\ cksumok = {} /\ \A b \in Block : ~ data[b]
FreshSpec == FreshInit /\ [][SwarmNext]_svars

\* No peer that has the fast extension is taken for a plain one.
MixedInit == FreshInit /\ (fast_peers = {} \/ fast_bit)
MixedSpec == MixedInit /\ [][SwarmNext]_svars

\* Every peer has the fast extension and is taken for what it is.
FastInit == FreshInit /\ fast_peers = Peer /\ fast_bit
FastSpec == FastInit /\ [][SwarmNext]_svars

\* Every peer has every piece as well.
FastSeedsInit == FastInit /\ share = [p \in Peer |-> Piece]
FairFastSeedsSpec == FastSeedsInit /\ [][SwarmNext]_svars /\ Fairness

\* Plain peers that are taken for what they are and have every piece.
PlainSeedsInit ==
    FreshInit /\ fast_peers = {} /\ ~ fast_bit /\ share = [p \in Peer |-> Piece]
PlainSeedsSpec == PlainSeedsInit /\ [][SwarmNext]_svars

Sym == Permutations(Peer) \cup Permutations(Pd)
==============================================================================
