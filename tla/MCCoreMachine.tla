--------------------------- MODULE MCCoreMachine ---------------------------
(* Two sessions; Failed outlives everything else, one ladder step per unit. *)
EXTENDS CoreMachine, TLC

MCTTL == [Thinking |-> 1, Working |-> 2, Review |-> 2, Waiting |-> 1, Done |-> 1, Failed |-> 3]

MCLadder == <<1, 2, 3, 4>>

Sessions == Permutations(Session)
=============================================================================
