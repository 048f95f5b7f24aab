----------------------------- MODULE OfficeFeed -----------------------------
(***************************************************************************)
(* What the stream of an office promises, without locks, pages, wake-ups   *)
(* or connections: a log of revisions with a moving start, and readers     *)
(* that are told one revision after the other.  A reader whose position    *)
(* has fallen behind the start is told nothing any more.                   *)
(***************************************************************************)
EXTENDS Integers

CONSTANT Reader

VARIABLES
    head,    \* the last revision
    start,   \* the revisions after this one can still be told
    pos      \* the last revision each reader was told or joined with, or Away

feedVars == <<head, start, pos>>

Away == -1

Init ==
    /\ head \in {1}
    /\ start \in {0}
    /\ pos = [s \in Reader |-> Away]

\* A revision is published; everything before it may be withdrawn with it.
Publish ==
    /\ head' = head + 1
    /\ start' \in {start, head}
    /\ UNCHANGED pos

\* Old revisions are withdrawn.
Trim ==
    /\ start' \in start + 1 .. head - 1
    /\ UNCHANGED <<head, pos>>

\* A reader joins with any position that has been published.
Join(s) ==
    /\ pos[s] = Away
    /\ \E p \in 0 .. head : pos' = [pos EXCEPT ![s] = p]
    /\ UNCHANGED <<head, start>>

Leave(s) ==
    /\ pos[s] # Away
    /\ pos' = [pos EXCEPT ![s] = Away]
    /\ UNCHANGED <<head, start>>

\* A reader is told the next revisions, none of which has been withdrawn.
Tell(s) ==
    /\ pos[s] # Away
    /\ pos[s] >= start
    /\ \E p \in pos[s] + 1 .. head : pos' = [pos EXCEPT ![s] = p]
    /\ UNCHANGED <<head, start>>

Next ==
    \/ Publish
    \/ Trim
    \/ \E s \in Reader : Join(s) \/ Leave(s) \/ Tell(s)

Spec == Init /\ [][Next]_feedVars
=============================================================================
