---------------------------- MODULE MCCtlServer ----------------------------
(* An instance of CtlServer for TLC. *)
EXTENDS CtlServer

CONSTANT c1

Peers1 == 1..1
=============================================================================
