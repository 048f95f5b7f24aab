---------------------------- MODULE MCApproval ----------------------------
(* Two tool calls at once: one bubble on screen, one queued behind it. *)
EXTENDS Approval
===========================================================================
