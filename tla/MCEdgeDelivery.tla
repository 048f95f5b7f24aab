--------------------------- MODULE MCEdgeDelivery ---------------------------
(* Small instances of EdgeDelivery for TLC. *)
EXTENDS EdgeDelivery

CONSTANTS Shown     \* the states the desktop shows

\* The contract admits two of the three display states; the third stands for
\* "thinking" and "review".
MCContractState == {"idle", "working"} \cap Shown
MCActivityOf ==
    [s \in Shown |-> IF s = "idle" THEN "eligible_idle" ELSE "active"]

\* Reports come from the reporter only.
NoRequests == {}
=============================================================================
