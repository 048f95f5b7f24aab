----------------------------- MODULE MCPairing -----------------------------
(* Two offices: the desktop moves from one to the other. *)
EXTENDS Pairing
=============================================================================
