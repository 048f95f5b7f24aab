---------------------------- MODULE MCOfficeStream ----------------------------
(* Small instances of OfficeStream for TLC. *)
EXTENDS OfficeStream
=============================================================================
