-------------------------- MODULE ExactlyOnceFeed --------------------------
(***************************************************************************)
(* What the delivery of Edge events promises, seen from both ends: every   *)
(* event the Edge commits to report is applied by the Control Plane once,  *)
(* in the order it was issued, and before the next one is issued.          *)
(***************************************************************************)
EXTENDS Naturals, Sequences

CONSTANT Item

VARIABLES issued, applied

Init == issued = <<>> /\ applied = <<>>

Issue(item) ==
    /\ applied = issued
    /\ issued' = Append(issued, item)
    /\ UNCHANGED applied

Apply ==
    /\ applied # issued
    /\ applied' = issued
    /\ UNCHANGED issued

Next == Apply \/ \E item \in Item : Issue(item)

vars == <<issued, applied>>

Spec == Init /\ [][Next]_vars

FairSpec == Spec /\ WF_vars(Apply)
=============================================================================
