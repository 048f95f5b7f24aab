----------------------------- MODULE EdgeIngest -----------------------------
(***************************************************************************)
(* The Control Plane's ingestion of Edge reports for one Agent instance,   *)
(* and the lease sweep that runs beside it.                                *)
(*                                                                         *)
(* Every ingest transaction and every sweep transaction of an instance     *)
(* starts by locking the instance's row, so at most one of them is open at *)
(* a time: `tx' is the open ingest transaction, None when there is none.   *)
(* What the transaction has written so far lives in `tx' and reaches the   *)
(* tables when it commits; a crash, a dropped connection or an error       *)
(* discards it.                                                            *)
(***************************************************************************)
EXTENDS Integers, Sequences

CONSTANTS
    Boot,              \* boot identifiers an Edge process may draw
    State,             \* complete state snapshots (display, activity, pet)
    ContractState,     \* the snapshots the report schema admits
    ActivityOf,        \* the activity classification of a snapshot
    Heartbeat,         \* the event that only renews the lease
    None,              \* SQL NULL, and the absence of a row
    Requests,          \* the verified reports that may reach the server
    LeaseTtl,          \* lease length, in clock units
    MaxClock,          \* bound on the database clock
    ClockMayStepBack   \* whether the database clock may be set back

Activity == {"unknown", "active", "eligible_idle", "waiting", "failed"}
Event == State \cup {Heartbeat}
BootOrNone == Boot \cup {None}

Envelope == [boot : Boot, prev : BootOrNone,
             first : Nat \ {0}, events : Seq(Event) \ {<<>>}]

BootRow == [gen : Nat, prev : BootOrNone, next : Nat \ {0}, fenced : BOOLEAN]
Snapshot == [lastSeq : Nat, state : State, eligibleSince : Nat \cup {None}]
Presence == [snap : Snapshot, lease : Nat, closed : BOOLEAN]
OpenInterval == [gen : Nat, activity : Activity, start : Nat, startSeq : Nat]
ClosedInterval == [gen : Nat, activity : Activity, start : Nat, startSeq : Nat,
                   end : Nat, endSeq : Nat]
Receipt == [gen : Nat, env : Envelope, at : Nat, lease : Nat]
Ack == [env : Envelope, at : Nat, lease : Nat]
Transaction == [env : Envelope, at : Nat, gen : Nat, isNew : BOOLEAN,
                broken : BOOLEAN, reopen : BOOLEAN, done : Nat,
                snap : Snapshot \cup {None},
                open : OpenInterval \cup {None}, closed : SUBSET ClosedInterval]

ASSUME SnapshotAssumption ==
    /\ ContractState \subseteq State
    /\ ActivityOf \in [State -> Activity]
    /\ Heartbeat \notin State

ASSUME RequestAssumption == Requests \subseteq Envelope

ASSUME NoneAssumption ==
    /\ None \notin Boot
    /\ None \notin Nat
    /\ None \notin Presence
    /\ None \notin Snapshot
    /\ None \notin OpenInterval
    /\ None \notin Transaction

ASSUME ClockAssumption ==
    /\ LeaseTtl \in Nat \ {0}
    /\ MaxClock \in Nat
    /\ ClockMayStepBack \in BOOLEAN

VARIABLES
    now,        \* clock_timestamp() of the database
    head,       \* the instance's row of edge_instance_heads
    boots,      \* agent_instance_boots; generation 0 stands for no row
    receipts,   \* edge_report_receipts, with their event fingerprints
    presence,   \* the instance's row of current_presence
    open,       \* the derived activity interval with no end, if any
    closed,     \* the derived activity intervals that have ended
    tx,         \* the ingest transaction that holds the instance lock
    candidate,  \* whether the sweep has read the instance as due
    acks,       \* every acknowledgement a client may still receive
    fault       \* whether an internal consistency error was ever raised

tables == <<head, boots, receipts, presence, open, closed>>
vars == <<now, head, boots, receipts, presence, open, closed, tx, candidate,
          acks, fault>>

Max2(a, b) == IF a >= b THEN a ELSE b
LastSequence(env) == env.first + Len(env.events) - 1

(***************************************************************************)
(* Validation: which reports pass, and which of those repeat or extend     *)
(* what the instance has already accepted.  A report that is none of       *)
(* Replays, Opens and Continues is refused with a problem response and     *)
(* changes nothing.                                                        *)
(***************************************************************************)
Valid(env) == \A k \in 1..Len(env.events) :
                  env.events[k] \in ContractState \cup {Heartbeat}

\* Seeded defect: only the current boot is looked up.
KnownIfCurrent(b) == b = head.boot

Known(b) == boots[b].gen # 0

Established(env) == /\ env.boot = head.boot
                    /\ env.prev = boots[env.boot].prev

Opens(env) == /\ env.boot # head.boot
              /\ ~Known(env.boot)
              /\ env.prev = head.boot
              /\ env.first = 1
              /\ env.events[1] # Heartbeat

\* Seeded defect: an accepted sequence may be accepted again.
ContinuesLoosely(env) == /\ Established(env)
                         /\ env.first <= boots[env.boot].next

Continues(env) == /\ Established(env)
                  /\ env.first = boots[env.boot].next

ReceiptsOf(env) == {r \in receipts : /\ r.gen = boots[env.boot].gen
                                     /\ r.env.first = env.first
                                     /\ LastSequence(r.env) = LastSequence(env)}

Replays(env) == /\ Established(env)
                /\ env.first < boots[env.boot].next
                /\ \E r \in ReceiptsOf(env) : r.env = env

(***************************************************************************)
(* The interval statements.  Closing updates the row without an end and    *)
(* demands exactly one; the CHECK constraints demand an end not before the *)
(* start.  Opening inserts a row and runs into the unique index on open    *)
(* intervals or the exclusion constraint on overlapping ones.              *)
(***************************************************************************)
CanClose(o, end, seq) == o # None /\ o.start <= end /\ o.startSeq <= seq

Closed(o, end, seq) ==
    [gen |-> o.gen, activity |-> o.activity, start |-> o.start,
     startSeq |-> o.startSeq, end |-> end, endSeq |-> seq]

CanOpen(o, done, start) ==
    o = None /\ \A c \in done : c.end <= start \/ c.start = c.end

Opened(gen, activity, start, seq) ==
    [gen |-> gen, activity |-> activity, start |-> start, startSeq |-> seq]

\* The open interval as it is handed to a successor boot.
Moved(o, gen) == [o EXCEPT !.gen = gen, !.startSeq = 1]

(***************************************************************************)
(* Beginning a transaction: the server time is drawn after the locks, and  *)
(* the consequences of a new boot or of a lost lease are written before    *)
(* any event is applied.                                                   *)
(***************************************************************************)
\* Seeded defect: the raw clock, without GREATEST.
ReceivedAtClock == now

ReceivedAt == Max2(now, head.last)

\* Seeded defect: a lease that ran out can still be rolled over.
SeamlessIfOpen(env, at) ==
    /\ presence # None
    /\ ~presence.closed
    /\ env.events[1] # Heartbeat
    /\ ActivityOf[env.events[1]] = ActivityOf[presence.snap.state]

Seamless(env, at) ==
    /\ presence # None
    /\ ~presence.closed
    /\ presence.lease > at
    /\ env.events[1] # Heartbeat
    /\ ActivityOf[env.events[1]] = ActivityOf[presence.snap.state]

Expired(at) == presence # None /\ presence.lease <= at

\* Seeded defect: the sweep's close is forgotten and repeated.
MustCloseAgain(env, at) ==
    /\ presence # None
    /\ IF Opens(env) THEN ~Seamless(env, at) ELSE Expired(at)

MustClose(env, at) ==
    /\ presence # None
    /\ IF Opens(env)
       THEN ~Seamless(env, at) /\ (~Expired(at) \/ ~presence.closed)
       ELSE Expired(at) /\ ~presence.closed

\* Seeded defect: a lost lease is closed when its successor arrives.
BoundaryAtReport(at) == at

BoundaryAt(at) == IF Expired(at) THEN presence.lease ELSE at

Prepared(env) ==
    LET at == ReceivedAt
        isNew == Opens(env)
        rolls == isNew /\ Seamless(env, at)
        closes == MustClose(env, at)
        gen == IF isNew THEN head.gen + 1 ELSE head.gen
        broken == (isNew /\ ~rolls) \/ (~isNew /\ Expired(at))
    IN  [env |-> env, at |-> at, gen |-> gen, isNew |-> isNew,
         broken |-> broken, reopen |-> broken, done |-> 0,
         snap |-> IF presence = None \/ (isNew /\ ~rolls) THEN None
                  ELSE presence.snap,
         open |-> IF closes THEN None
                  ELSE IF rolls /\ open # None
                  THEN Moved(open, gen)
                  ELSE open,
         closed |-> IF closes /\ open # None
                    THEN closed \cup {Closed(open, BoundaryAt(at), presence.snap.lastSeq)}
                    ELSE closed]

Preparable(env) ==
    LET at == ReceivedAt
    IN  /\ MustClose(env, at) =>
              CanClose(open, BoundaryAt(at), presence.snap.lastSeq)
        /\ Opens(env) /\ Seamless(env, at) => open # None

Accepts(env) == Valid(env) /\ (Opens(env) \/ Continues(env))

\* BEGIN .. the last statement before the events are applied.
Begin(env) ==
    /\ tx = None
    /\ Accepts(env)
    /\ Preparable(env)
    /\ tx' = Prepared(env)
    /\ UNCHANGED <<now, tables, candidate, acks, fault>>

\* A statement of the preparation finds the ledger inconsistent: rollback.
BeginFails(env) ==
    /\ tx = None
    /\ Accepts(env)
    /\ ~Preparable(env)
    /\ fault' = TRUE
    /\ UNCHANGED <<now, tables, tx, candidate, acks>>

(***************************************************************************)
(* Applying one event of the batch to the working copy.                    *)
(***************************************************************************)
EventSequence == tx.env.first + tx.done
EventNow == tx.env.events[tx.done + 1]

Effective == ActivityOf[tx.snap.state]
ActivityChanges == tx.snap = None \/ Effective # ActivityOf[EventNow]

\* Whether this event ends the open interval, and whether it starts one.
ClosesInterval ==
    EventNow # Heartbeat /\ ActivityChanges /\ ~tx.reopen /\ tx.snap # None
OpensInterval ==
    tx.reopen \/ (EventNow # Heartbeat /\ ActivityChanges)

OpenAfterClose == IF ClosesInterval THEN None ELSE tx.open
ClosedAfter ==
    IF ClosesInterval
    THEN tx.closed \cup {Closed(tx.open, tx.at, EventSequence)}
    ELSE tx.closed

\* What the statements of this event need to succeed.
EventApplies ==
    /\ EventNow = Heartbeat => tx.snap # None
    /\ ClosesInterval => CanClose(tx.open, tx.at, EventSequence)
    /\ OpensInterval => CanOpen(OpenAfterClose, ClosedAfter, tx.at)

HeartbeatSnapshot ==
    [tx.snap EXCEPT
       !.lastSeq = EventSequence,
       !.eligibleSince = IF tx.reopen /\ Effective = "eligible_idle"
                         THEN tx.at ELSE @]

\* Seeded defect: eligible_since survives a broken lease.
StateSnapshotThroughGap ==
    [lastSeq |-> EventSequence,
     state |-> EventNow,
     eligibleSince |->
        IF ActivityOf[EventNow] # "eligible_idle" THEN None
        ELSE IF ~ActivityChanges /\ tx.snap.eligibleSince # None
        THEN tx.snap.eligibleSince
        ELSE tx.at]

StateSnapshot ==
    [lastSeq |-> EventSequence,
     state |-> EventNow,
     eligibleSince |->
        IF ActivityOf[EventNow] # "eligible_idle" THEN None
        ELSE IF ~tx.broken /\ ~ActivityChanges /\ tx.snap.eligibleSince # None
        THEN tx.snap.eligibleSince
        ELSE tx.at]

SnapshotAfter ==
    IF EventNow = Heartbeat THEN HeartbeatSnapshot ELSE StateSnapshot

ActivityAfter ==
    IF EventNow = Heartbeat THEN Effective ELSE ActivityOf[EventNow]

Applying == tx # None /\ tx.done < Len(tx.env.events)

ApplyEvent ==
    /\ Applying
    /\ EventApplies
    /\ tx' = [tx EXCEPT
         !.done = @ + 1,
         !.reopen = FALSE,
         !.snap = SnapshotAfter,
         !.closed = ClosedAfter,
         !.open = IF OpensInterval
                  THEN Opened(tx.gen, ActivityAfter, tx.at, EventSequence)
                  ELSE @]
    /\ UNCHANGED <<now, tables, candidate, acks, fault>>

\* A statement of applyEvents finds the ledger inconsistent: rollback.
ApplyFails ==
    /\ Applying
    /\ ~EventApplies
    /\ tx' = None
    /\ fault' = TRUE
    /\ UNCHANGED <<now, tables, candidate, acks>>

(***************************************************************************)
(* The end of a transaction.  A new boot fences its predecessor and        *)
(* deletes the receipts that could replay it.                              *)
(***************************************************************************)
\* Seeded defect: lease_expires_at is left NULL.
LeaseUnset(at) == None

Lease(at) == at + LeaseTtl

BootsAfter ==
    [b \in Boot |->
       IF b = tx.env.boot
       THEN [gen |-> tx.gen, prev |-> tx.env.prev,
             next |-> LastSequence(tx.env) + 1, fenced |-> FALSE]
       ELSE IF tx.isNew /\ b = head.boot
       THEN [boots[b] EXCEPT !.fenced = TRUE]
       ELSE boots[b]]

\* Seeded defect: the receipts of a fenced boot are not scrubbed.
KeptForever == receipts

Kept == IF tx.isNew THEN {r \in receipts : r.gen # head.gen} ELSE receipts

Commit ==
    /\ tx # None
    /\ tx.done = Len(tx.env.events)
    /\ head' = [boot |-> tx.env.boot, gen |-> tx.gen, last |-> tx.at]
    /\ boots' = BootsAfter
    /\ receipts' = Kept \cup {[gen |-> tx.gen, env |-> tx.env, at |-> tx.at,
                               lease |-> Lease(tx.at)]}
    /\ presence' = [snap |-> tx.snap, lease |-> Lease(tx.at), closed |-> FALSE]
    /\ open' = tx.open
    /\ closed' = tx.closed
    /\ acks' = acks \cup {[env |-> tx.env, at |-> tx.at, lease |-> Lease(tx.at)]}
    /\ tx' = None
    /\ UNCHANGED <<now, candidate, fault>>

\* A server crash, a lost connection or a deadlock victim: ROLLBACK.
Abort ==
    /\ tx # None
    /\ tx' = None
    /\ UNCHANGED <<now, tables, candidate, acks, fault>>

\* An exact repeat is answered with the acknowledgement it was given.
Replay(env) ==
    /\ tx = None
    /\ Valid(env)
    /\ Replays(env)
    /\ \E r \in ReceiptsOf(env) :
          acks' = acks \cup {[env |-> env, at |-> r.at, lease |-> r.lease]}
    /\ UNCHANGED <<now, tables, tx, candidate, fault>>

(***************************************************************************)
(* The lease sweep reads its candidates without a lock and re-checks each  *)
(* of them in a transaction of its own.                                    *)
(***************************************************************************)
Due == presence # None /\ ~presence.closed /\ presence.lease <= now

SweepSelect ==
    /\ ~candidate
    /\ Due
    /\ candidate' = TRUE
    /\ UNCHANGED <<now, tables, tx, acks, fault>>

\* Seeded defect: the sweep ends the interval without its last sequence.
SweepClosesUnsequenced == CanClose(open, presence.lease, 0)

SweepCloses == CanClose(open, presence.lease, presence.snap.lastSeq)

SweepClose ==
    /\ candidate /\ tx = None
    /\ Due
    /\ SweepCloses
    /\ candidate' = FALSE
    /\ closed' = closed \cup {Closed(open, presence.lease, presence.snap.lastSeq)}
    /\ open' = None
    /\ presence' = [presence EXCEPT !.closed = TRUE]
    /\ UNCHANGED <<now, head, boots, receipts, tx, acks, fault>>

SweepSkip ==
    /\ candidate /\ tx = None
    /\ ~Due
    /\ candidate' = FALSE
    /\ UNCHANGED <<now, tables, tx, acks, fault>>

SweepFails ==
    /\ candidate /\ tx = None
    /\ Due
    /\ ~SweepCloses
    /\ candidate' = FALSE
    /\ fault' = TRUE
    /\ UNCHANGED <<now, tables, tx, acks>>

(***************************************************************************)
(* The database clock.                                                     *)
(***************************************************************************)
Tick ==
    /\ now < MaxClock
    /\ now' = now + 1
    /\ UNCHANGED <<tables, tx, candidate, acks, fault>>

StepBack ==
    /\ ClockMayStepBack
    /\ now' \in 0..(now - 1)
    /\ UNCHANGED <<tables, tx, candidate, acks, fault>>

Init ==
    /\ now = 0
    /\ head = [boot |-> None, gen |-> 0, last |-> 0]
    /\ boots = [b \in Boot |-> [gen |-> 0, prev |-> None, next |-> 1,
                                fenced |-> FALSE]]
    /\ receipts = {}
    /\ presence = None
    /\ open = None
    /\ closed = {}
    /\ tx = None
    /\ candidate = FALSE
    /\ acks = {}
    /\ fault = FALSE

\* What the server does of itself, short of committing a report.
Internal ==
    \/ ApplyEvent \/ ApplyFails \/ Abort
    \/ SweepSelect \/ SweepClose \/ SweepSkip \/ SweepFails
    \/ Tick \/ StepBack

Receive(env) == Begin(env) \/ BeginFails(env) \/ Replay(env)

Next == Internal \/ Commit \/ \E env \in Requests : Receive(env)

Spec == Init /\ [][Next]_vars

-----------------------------------------------------------------------------
(***************************************************************************)
(* Properties                                                              *)
(***************************************************************************)

\* Every variable holds a value of the shape its table or object has
\* (the row interfaces of ingest-edge-report.ts and the column types).
TypeOK ==
    /\ now \in Nat
    /\ head \in [boot : BootOrNone, gen : Nat, last : Nat]
    /\ boots \in [Boot -> BootRow]
    /\ receipts \subseteq Receipt
    /\ presence \in Presence \cup {None}
    /\ open \in OpenInterval \cup {None}
    /\ closed \subseteq ClosedInterval
    /\ tx \in Transaction \cup {None}
    /\ candidate \in BOOLEAN
    /\ acks \subseteq Ack
    /\ fault \in BOOLEAN

\* The two records of an idle stretch agree: a live presence has exactly one
\* open interval, of its own activity and boot, and the instant idle stages
\* are counted from (eligible_since) is the instant that interval started, so
\* what the office shows and what the leaderboard scores cannot drift apart.
PresenceMatchesInterval ==
    /\ open # None <=> presence # None /\ ~presence.closed
    /\ open # None =>
         /\ open.gen = head.gen
         /\ open.activity = ActivityOf[presence.snap.state]
         /\ presence.snap.eligibleSince =
              IF open.activity = "eligible_idle" THEN open.start ELSE None

\* No instant counts towards an interval unless an accepted report's lease
\* covered it: time spent offline is never scored, whoever closes the interval
\* (a later report, a successor boot or the sweep).
Covered(t) == \E a \in acks : a.at <= t /\ t < a.lease
NoOfflineTime == \A c \in closed : \A t \in c.start..(c.end - 1) : Covered(t)

\* The receipts are exactly those of the current boot and tile its accepted
\* sequences, so the lookup of an accepted sequence is never empty and a
\* fenced boot leaves nothing that could answer a replay.
ReceiptsTileAccepted ==
    /\ \A r \in receipts : r.gen = head.gen /\ r.env.boot = head.boot
    /\ \A r, q \in receipts : \/ r = q
                              \/ LastSequence(r.env) < q.env.first
                              \/ LastSequence(q.env) < r.env.first
    /\ head.boot # None =>
         \A n \in 1..(boots[head.boot].next - 1) :
             \E r \in receipts : r.env.first <= n /\ n <= LastSequence(r.env)

\* A report is acknowledged in one way only, and as long as its boot is
\* current a repeat of it is recognised as a replay: retrying after a lost
\* acknowledgement neither renews the lease nor is refused.
AcksAreFinal ==
    /\ \A a, b \in acks : a.env = b.env => a = b
    /\ \A a \in acks : a.env.boot = head.boot => Replays(a.env)

\* No statement of an ingest or sweep transaction ever meets a ledger it did
\* not expect ("Expected exactly one open activity interval", a constraint).
NoIntegrityFault == ~fault

\* A fenced boot stays fenced and frozen, and never becomes current again,
\* however late its reports arrive.
FencedForGood ==
    [][\A b \in Boot : boots[b].fenced => boots'[b] = boots[b] /\ head'.boot # b]_vars

\* Scored history is immutable and server time never runs backwards: no
\* interval that has ended is altered, and each acceptance is stamped no
\* earlier than the one before it.
HistoryIsImmutable ==
    [][closed \subseteq closed' /\ head.last <= head'.last]_vars

\* An accepted report continues the open interval exactly when the lease had
\* not run out and none of its events changes the activity, also when it
\* comes from a successor boot; otherwise the interval starts afresh at the
\* report's server time and earns a new grace period.
Unbroken(env, at) ==
    /\ presence # None
    /\ ~presence.closed
    /\ at < presence.lease
    /\ \A k \in 1..Len(env.events) :
          env.events[k] = Heartbeat \/ ActivityOf[env.events[k]] = open.activity
IdleContinuity ==
    [][\A r \in receipts' \ receipts :
          open'.start = IF Unbroken(r.env, r.at) THEN open.start ELSE r.at]_vars

(***************************************************************************)
(* Fairness: the sweep timer keeps firing, row locks are granted in the    *)
(* order they are asked for, and an open transaction ends.                 *)
(***************************************************************************)
Fairness ==
    /\ WF_vars(SweepSelect)
    /\ SF_vars(SweepClose \/ SweepSkip \/ SweepFails)
    /\ WF_vars(ApplyEvent \/ ApplyFails \/ Commit \/ Abort)

FairSpec == Spec /\ Fairness

\* A lease that has run out does not stay live: a report renews it or the
\* sweep closes it, even when the sweep loses the race for the row lock.
DueLeaseIsSettled == Due ~> ~Due
=============================================================================
