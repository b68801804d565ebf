---------------------------- MODULE MCFastResume ----------------------------
(* Instances of FastResume for TLC. *)
EXTENDS FastResume, TLC

\* Two pieces of two pages each.
Off02 == 0 :> 0 @@ 1 :> 2
Size22 == 0 :> 2 @@ 1 :> 2

\* The second file of a torrent: it begins with the last byte of the first piece.
Off01 == 0 :> 0 @@ 1 :> 1
Size12 == 0 :> 1 @@ 1 :> 2
==============================================================================
