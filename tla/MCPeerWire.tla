----------------------------- MODULE MCPeerWire -----------------------------
(* An instance of PeerWire for TLC: one bit per byte, a length of two bits. *)
EXTENDS PeerWire, TLC

Pstr1 == 0 :> 1
Number2(f) == 2 * f[0] + f[1]
==============================================================================
