----------------------------- MODULE MCUploads ------------------------------
(***************************************************************************)
(* Three peers and one slot: the opportunistic peer is a second one.       *)
(***************************************************************************)
EXTENDS Uploads
==============================================================================
