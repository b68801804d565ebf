------------------------------ MODULE MCStore -------------------------------
(***************************************************************************)
(* Small torrents of every shape.                                          *)
(***************************************************************************)
EXTENDS Store

Lengths(n, max) == [1..n -> 1..max]

\* Up to four files, and pieces that files are shorter and longer than.
SmallTorrents ==
    {[type |-> "MULTIFILE", files |-> f, piece_length |-> n] :
        f \in Lengths(1, 4) \cup Lengths(2, 4) \cup Lengths(3, 3) \cup Lengths(4, 2), n \in 2..4}
    \cup {[type |-> "SINGLEFILE", files |-> <<n>>, piece_length |-> 2] : n \in 1..9}
==============================================================================
