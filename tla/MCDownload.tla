----------------------------- MODULE MCDownload -----------------------------
(* Instances of Download for TLC. *)
EXTENDS Download, TLC

CONSTANTS p1, p2, d1, d2, d3, d4

\* One piece of two blocks.
Blocks2 == 0 :> 2
BlockSet2 == {<<0, 0>>, <<0, 1>>}

\* One piece of one block.
Blocks1 == 0 :> 1
BlockSet1 == {<<0, 0>>}

Blocks11 == 0 :> 1 @@ 1 :> 1
BlockSet11 == {<<0, 0>>, <<1, 0>>}

\* There is always memory for one more request.
HeapBound == \E d \in Pd : piece_dl[d] = NULL

\* A dead peer changes no flag of its own any more.
DeadSilent == \A p \in Peer : "DEAD" \in state[p] => state[p] = {"DEAD"}

Sym == Permutations(Peer) \cup Permutations(Pd)
==============================================================================
