---------------------------- MODULE MCEdgeIngest ----------------------------
(* Small instances of EdgeIngest for TLC. *)
EXTENDS EdgeIngest

CONSTANTS
    Offered,       \* the snapshots that occur in reports
    MaxFirst,      \* the largest first_sequence of a report
    AnyPrevious    \* whether a report may name any boot as its predecessor

\* Four snapshots: two of one activity, one of another, and one that the
\* report schema does not admit.
MCState == {"idle", "done", "working", "thinking"}
MCContractState == MCState \ {"thinking"}
MCActivityOf == [s \in MCState |->
                   IF s \in {"idle", "done"} THEN "eligible_idle" ELSE "active"]

\* A batch of two changes the activity and changes it back, or the reverse.
Batches == [1..1 -> Offered \cup {Heartbeat}] \cup {<<"idle", "working">>, <<"working", "idle">>}

\* Every report over the boots, from clients that lose, repeat, reorder and
\* invent reports; batches begin a boot.  Without AnyPrevious a boot names
\* only its one predecessor in the order the boots are drawn, as the official client does.
MCRequests ==
    LET first == CHOOSE b \in Boot : TRUE
        Prev(b) == IF AnyPrevious THEN BootOrNone \ {b}
                   ELSE IF b = first THEN {None} ELSE {first}
    IN  {e \in [boot : Boot, prev : BootOrNone, first : 1..MaxFirst,
                events : Batches] : e.prev \in Prev(e.boot)
               /\ (Len(e.events) = 2 => e.first = 1)}
=============================================================================
