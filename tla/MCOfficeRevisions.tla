------------------------- MODULE MCOfficeRevisions -------------------------
(* A small instance of OfficeRevisions for TLC: the office without streams. *)
EXTENDS OfficeRevisions
============================================================================
