--------------------------- MODULE MCEventSpool ---------------------------
(* Three hooks are enough for two rotations and for two rivals and a dead holder. *)
EXTENDS EventSpool
=============================================================================
