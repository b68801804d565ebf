----------------------------- MODULE MCSession ------------------------------
(***************************************************************************)
(* A session of at most two peers beside what is accepted.                 *)
(***************************************************************************)
EXTENDS Session

\* One struct for each descriptor and each address of an answer.
Peers6 == 1..6
==============================================================================
