-------------------------- MODULE MCOfficeVisit --------------------------
(* One visitor; two pairings, so that an answer of the first can be late. *)
EXTENDS OfficeVisit
==========================================================================
