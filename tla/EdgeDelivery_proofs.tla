------------------------ MODULE EdgeDelivery_proofs ------------------------
(***************************************************************************)
(* Proofs about EdgeIngest and EdgeDelivery, for any boots, snapshots,     *)
(* reports, lease length and clock bound.                                  *)
(*                                                                         *)
(* Ingestion comes first, by itself: type correctness; for a database      *)
(* clock that is never set back, that the ledger stays consistent with     *)
(* itself, so that no ingest or sweep transaction runs into an internal    *)
(* error, no instant without a lease is ever scored, and idle time goes on *)
(* exactly while the leases do; and, however the clock moves, that a       *)
(* fenced boot stays fenced and an acknowledged report is acknowledged     *)
(* once.                                                                   *)
(*                                                                         *)
(* Then the reporter that delivers to it, for any length of a boot, number *)
(* of events and crashes, and a disk that may fail: what it has durably    *)
(* written is acceptable to the server, and reporter, network and server   *)
(* together implement ExactlyOnceFeed.                                     *)
(***************************************************************************)
EXTENDS EdgeDelivery, TLAPS

-----------------------------------------------------------------------------
(***************************************************************************)
(* The inductive invariant.                                                *)
(***************************************************************************)

\* The instant idle stages are counted from, given the interval's start.
Eligibility(snap, start) ==
    snap.eligibleSince = IF ActivityOf[snap.state] = "eligible_idle"
                         THEN start ELSE None

\* A snapshot outside an idle activity counts from nowhere.
NotIdle(snap) ==
    ActivityOf[snap.state] # "eligible_idle" => snap.eligibleSince = None

CoveredUntil(start, end) ==
    \A t \in Nat : start <= t /\ t < end => Covered(t)

\* The tables agree with each other between transactions.
LedgerInv ==
    /\ head.last <= now
    /\ presence = None <=> head.boot = None
    /\ presence # None =>
         /\ presence.lease = head.last + LeaseTtl
         /\ presence.snap.lastSeq = boots[head.boot].next - 1
         /\ presence.closed => presence.lease <= now
         /\ NotIdle(presence.snap)
    /\ open # None <=> presence # None /\ ~presence.closed
    /\ open # None =>
         /\ open.gen = head.gen
         /\ open.activity = ActivityOf[presence.snap.state]
         /\ open.start <= head.last
         /\ open.startSeq <= presence.snap.lastSeq
         /\ Eligibility(presence.snap, open.start)
         /\ CoveredUntil(open.start, presence.lease)

\* The history that has ended lies in the past and under accepted leases.
Past(c, at) == c.end <= at /\ CoveredUntil(c.start, c.end)
HistoryInv == \A c \in closed : Past(c, now)

\* What the open transaction has written so far: before an interval broken by
\* the lease or by a new boot is reopened there is none, and from then on the
\* working snapshot and the working interval belong together.
WorkingInterval(t) ==
    /\ t.open # None
    /\ t.open.gen = t.gen
    /\ t.open.activity = ActivityOf[t.snap.state]
    /\ t.open.start <= t.at
    /\ t.open.startSeq <= t.env.first
       \/ (t.done > 0 /\ t.open.startSeq <= t.env.first + t.done - 1)
    /\ Eligibility(t.snap, t.open.start)
    /\ CoveredUntil(t.open.start, t.at)
    /\ t.broken => t.open.start = t.at

TransactionOK(t) ==
    /\ head.last <= t.at /\ t.at <= now
    /\ t.done <= Len(t.env.events)
    /\ t.snap = None => t.reopen /\ t.env.events[1] # Heartbeat
    /\ t.snap # None => NotIdle(t.snap)
    /\ t.done > 0 => t.snap # None /\ t.snap.lastSeq = t.env.first + t.done - 1
    /\ t.reopen => t.broken /\ t.done = 0 /\ t.open = None
    /\ ~t.reopen => WorkingInterval(t)
    /\ \A c \in t.closed : Past(c, t.at)

TransactionInv == tx # None => TransactionOK(tx)

IInv == TypeOK /\ ~fault /\ LedgerInv /\ HistoryInv /\ TransactionInv

-----------------------------------------------------------------------------
(***************************************************************************)
(* Type correctness.                                                       *)
(***************************************************************************)

\* An event of a well-formed report is a snapshot or a heartbeat.
LEMMA EventType ==
    ASSUME NEW env \in Envelope
    PROVE  /\ Len(env.events) \in Nat \ {0}
           /\ \A k \in 1..Len(env.events) :
                  env.events[k] \in Event
                  /\ (env.events[k] # Heartbeat => env.events[k] \in State)
           /\ LastSequence(env) \in Nat \ {0}
<1>1. env.events \in Seq(Event) /\ env.events # <<>> /\ env.first \in Nat \ {0}
  BY DEF Envelope
<1>2. Len(env.events) \in Nat \ {0}
  BY <1>1
<1>3. \A k \in 1..Len(env.events) :
         env.events[k] \in Event
         /\ (env.events[k] # Heartbeat => env.events[k] \in State)
  BY <1>1 DEF Event
<1> QED
  BY <1>1, <1>2, <1>3 DEF LastSequence

LEMMA ClosedType ==
    ASSUME NEW o \in OpenInterval, NEW end \in Nat, NEW seq \in Nat
    PROVE  Closed(o, end, seq) \in ClosedInterval
BY DEF Closed, OpenInterval, ClosedInterval

LEMMA OpenedType ==
    ASSUME NEW gen \in Nat, NEW activity \in Activity, NEW start \in Nat, NEW seq \in Nat
    PROVE  Opened(gen, activity, start, seq) \in OpenInterval
BY DEF Opened, OpenInterval

\* An interval handed to a successor boot keeps its activity and its start.
LEMMA MovedInterval ==
    ASSUME NEW o \in OpenInterval, NEW gen \in Nat
    PROVE  /\ Moved(o, gen) \in OpenInterval
           /\ Moved(o, gen).gen = gen /\ Moved(o, gen).startSeq = 1
           /\ Moved(o, gen).start = o.start /\ Moved(o, gen).activity = o.activity
BY DEF OpenInterval, Moved

LEMMA ReceivedAtType == TypeOK => ReceivedAt \in Nat
BY DEF TypeOK, ReceivedAt, Max2

\* The working copy a transaction starts from is well-formed.
LEMMA PreparedType ==
    ASSUME TypeOK, NEW env \in Envelope
    PROVE  Prepared(env) \in Transaction
<1> DEFINE at == ReceivedAt
           isNew == Opens(env)
           rolls == isNew /\ Seamless(env, at)
           closes == MustClose(env, at)
           gen == IF isNew THEN head.gen + 1 ELSE head.gen
           broken == (isNew /\ ~rolls) \/ (~isNew /\ Expired(at))
           snap == IF presence = None \/ (isNew /\ ~rolls) THEN None ELSE presence.snap
           opened == IF closes THEN None
                     ELSE IF rolls /\ open # None
                     THEN Moved(open, gen)
                     ELSE open
           ended == IF closes /\ open # None
                    THEN closed \cup {Closed(open, BoundaryAt(at), presence.snap.lastSeq)}
                    ELSE closed
<1>1. at \in Nat /\ gen \in Nat /\ isNew \in BOOLEAN /\ broken \in BOOLEAN
  BY ReceivedAtType DEF TypeOK, Opens, Known, Expired
<1>2. snap \in Snapshot \cup {None}
  BY DEF TypeOK, Presence
<1>3. opened \in OpenInterval \cup {None}
  BY <1>1, MovedInterval DEF TypeOK
<1>4. ended \subseteq ClosedInterval
  <2>1. CASE closes /\ open # None
    <3>1. presence \in Presence /\ open \in OpenInterval
      BY <2>1 DEF MustClose, TypeOK
    <3>2. BoundaryAt(at) \in Nat /\ presence.snap.lastSeq \in Nat
      BY <1>1, <3>1 DEF BoundaryAt, Presence, Snapshot
    <3> QED
      BY <2>1, <3>1, <3>2, ClosedType DEF TypeOK
  <2>2. CASE ~(closes /\ open # None)
    BY <2>2 DEF TypeOK
  <2> QED
    BY <2>1, <2>2
<1>5. Prepared(env) = [env |-> env, at |-> at, gen |-> gen, isNew |-> isNew,
                       broken |-> broken, reopen |-> broken, done |-> 0,
                       snap |-> snap, open |-> opened, closed |-> ended]
  BY DEF Prepared
<1> HIDE DEF at, isNew, rolls, closes, gen, broken, snap, opened, ended
<1> QED
  BY <1>1, <1>2, <1>3, <1>4, <1>5 DEF Transaction

\* What the event being applied looks at is well-formed.
LEMMA ApplyingType ==
    ASSUME TypeOK, Applying
    PROVE  /\ tx \in Transaction
           /\ EventNow \in Event
           /\ EventNow # Heartbeat => EventNow \in State
           /\ EventSequence \in Nat \ {0}
           /\ tx.snap # None => tx.snap \in Snapshot /\ Effective \in Activity
           /\ EventNow # Heartbeat => ActivityOf[EventNow] \in Activity
           /\ tx.done + 1 \in 1..Len(tx.env.events)
<1>1. tx \in Transaction /\ tx # None
  BY DEF TypeOK, Applying
<1>2. /\ tx.env \in Envelope /\ tx.done \in Nat
      /\ tx.snap \in Snapshot \cup {None}
  BY <1>1 DEF Transaction
<1>3. tx.env.first \in Nat \ {0} /\ Len(tx.env.events) \in Nat \ {0}
  BY <1>2, EventType DEF Envelope
<1>4. tx.done + 1 \in 1..Len(tx.env.events)
  BY <1>2, <1>3 DEF Applying
<1>5. EventNow \in Event /\ (EventNow # Heartbeat => EventNow \in State)
  BY <1>2, <1>4, EventType DEF EventNow
<1>6. EventSequence \in Nat \ {0}
  BY <1>2, <1>3 DEF EventSequence
<1>7. tx.snap # None => tx.snap \in Snapshot /\ Effective \in Activity
  BY <1>2, SnapshotAssumption DEF Snapshot, Effective
<1>8. EventNow # Heartbeat => ActivityOf[EventNow] \in Activity
  BY <1>5, SnapshotAssumption
<1> QED
  BY <1>1, <1>4, <1>5, <1>6, <1>7, <1>8

\* The snapshot an event leads to is well-formed.
LEMMA SnapshotAfterType ==
    ASSUME TypeOK, Applying, EventApplies
    PROVE  SnapshotAfter \in Snapshot
<1>1. /\ tx \in Transaction
      /\ EventNow # Heartbeat => EventNow \in State /\ ActivityOf[EventNow] \in Activity
      /\ EventSequence \in Nat
      /\ tx.snap # None => tx.snap \in Snapshot /\ Effective \in Activity
  BY ApplyingType
<1>2. tx.at \in Nat
  BY <1>1 DEF Transaction
<1>3. CASE EventNow = Heartbeat
  <2>1. tx.snap \in Snapshot
    BY <1>1, <1>3 DEF EventApplies
  <2> QED
    BY <1>1, <1>2, <1>3, <2>1 DEF SnapshotAfter, HeartbeatSnapshot, Snapshot
<1>4. CASE EventNow # Heartbeat
  <2>1. ~ActivityChanges => tx.snap \in Snapshot
    BY <1>1 DEF ActivityChanges
  <2> QED
    BY <1>1, <1>2, <1>4, <2>1 DEF SnapshotAfter, StateSnapshot, Snapshot
<1> QED
  BY <1>3, <1>4

LEMMA TransactionUpdate ==
    ASSUME NEW t \in Transaction, NEW snap \in Snapshot,
           NEW ended \in SUBSET ClosedInterval, NEW opened \in OpenInterval \cup {None}
    PROVE  [t EXCEPT !.done = @ + 1, !.reopen = FALSE, !.snap = snap,
                     !.closed = ended, !.open = opened] \in Transaction
<1> DEFINE t1 == [t EXCEPT !.done = @ + 1]
           t2 == [t1 EXCEPT !.reopen = FALSE]
           t3 == [t2 EXCEPT !.snap = snap]
           t4 == [t3 EXCEPT !.closed = ended]
           t5 == [t4 EXCEPT !.open = opened]
<1>1. t1 \in Transaction
  BY DEF Transaction
<1> HIDE DEF t1
<1>2. t2 \in Transaction
  BY <1>1 DEF Transaction
<1> HIDE DEF t2
<1>3. t3 \in Transaction
  BY <1>2 DEF Transaction
<1> HIDE DEF t3
<1>4. t4 \in Transaction
  BY <1>3 DEF Transaction
<1> HIDE DEF t4
<1>5. t5 \in Transaction
  BY <1>4 DEF Transaction
<1>6. t5 = [t EXCEPT !.done = @ + 1, !.reopen = FALSE, !.snap = snap,
                     !.closed = ended, !.open = opened]
  BY DEF t5, t4, t3, t2, t1
<1> QED
  BY <1>5, <1>6

\* Applying an event keeps the working copy well-formed.
LEMMA ApplyEventType ==
    ASSUME TypeOK, ApplyEvent
    PROVE  tx' \in Transaction
<1>1. /\ Applying /\ EventApplies
      /\ tx' = [tx EXCEPT !.done = @ + 1, !.reopen = FALSE, !.snap = SnapshotAfter,
                          !.closed = ClosedAfter,
                          !.open = IF OpensInterval
                                   THEN Opened(tx.gen, ActivityAfter, tx.at, EventSequence)
                                   ELSE @]
  BY DEF ApplyEvent
<1>2. /\ tx \in Transaction
      /\ EventNow # Heartbeat => EventNow \in State /\ ActivityOf[EventNow] \in Activity
      /\ EventSequence \in Nat
      /\ tx.snap # None => tx.snap \in Snapshot /\ Effective \in Activity
  BY <1>1, ApplyingType
<1>3. tx.at \in Nat /\ tx.gen \in Nat /\ tx.done \in Nat /\ tx.env \in Envelope
  BY <1>2 DEF Transaction
<1>4. EventNow = Heartbeat => tx.snap # None
  BY <1>1 DEF EventApplies
<1>5. SnapshotAfter \in Snapshot
  BY <1>1, SnapshotAfterType
<1>6. ClosedAfter \in SUBSET ClosedInterval
  <2>1. tx.closed \in SUBSET ClosedInterval
    BY <1>2 DEF Transaction
  <2>2. CASE ClosesInterval
    <3>1. tx.open # None
      BY <1>1, <2>2 DEF EventApplies, CanClose
    <3>2. tx.open \in OpenInterval
      BY <3>1, <1>2 DEF Transaction
    <3>3. Closed(tx.open, tx.at, EventSequence) \in ClosedInterval
      BY <3>2, <1>2, <1>3, ClosedType
    <3> QED
      BY <2>1, <2>2, <3>3 DEF ClosedAfter
  <2>3. CASE ~ClosesInterval
    BY <2>1, <2>3 DEF ClosedAfter
  <2> QED
    BY <2>2, <2>3
<1>7. ActivityAfter \in Activity
  BY <1>2, <1>4 DEF ActivityAfter
<1>8. Opened(tx.gen, ActivityAfter, tx.at, EventSequence) \in OpenInterval
  BY <1>2, <1>3, <1>7, OpenedType
<1>9. (IF OpensInterval THEN Opened(tx.gen, ActivityAfter, tx.at, EventSequence)
       ELSE tx.open) \in OpenInterval \cup {None}
  BY <1>2, <1>8 DEF Transaction
<1> QED
  BY <1>1, <1>2, <1>5, <1>6, <1>9, TransactionUpdate

\* Committing writes well-formed rows.
LEMMA CommitType ==
    ASSUME TypeOK, Commit, tx.snap # None
    PROVE  TypeOK'
<1>1. /\ tx \in Transaction
      /\ tx.env \in Envelope /\ tx.at \in Nat /\ tx.gen \in Nat
      /\ tx.snap \in Snapshot
      /\ tx.open \in OpenInterval \cup {None}
      /\ tx.closed \subseteq ClosedInterval
  BY DEF TypeOK, Commit, Transaction
<1>2. tx.env.boot \in Boot /\ tx.env.prev \in BootOrNone
  BY <1>1 DEF Envelope
<1>3. LastSequence(tx.env) + 1 \in Nat \ {0} /\ Lease(tx.at) \in Nat
  BY <1>1, EventType, ClockAssumption DEF Lease
<1>4. boots' \in [Boot -> BootRow]
  <2> SUFFICES ASSUME NEW b \in Boot
               PROVE  BootsAfter[b] \in BootRow
    BY DEF Commit, BootsAfter
  <2>1. boots[b] \in BootRow
    BY DEF TypeOK
  <2> QED
    BY <1>1, <1>2, <1>3, <2>1 DEF BootsAfter, BootRow
<1>5. receipts' \subseteq Receipt
  <2>1. [gen |-> tx.gen, env |-> tx.env, at |-> tx.at, lease |-> Lease(tx.at)] \in Receipt
    BY <1>1, <1>3 DEF Receipt
  <2> QED
    BY <2>1 DEF TypeOK, Commit, Kept
<1>6. acks' \subseteq Ack
  <2>1. [env |-> tx.env, at |-> tx.at, lease |-> Lease(tx.at)] \in Ack
    BY <1>1, <1>3 DEF Ack
  <2> QED
    BY <2>1 DEF TypeOK, Commit
<1>7. presence' \in Presence
  BY <1>1, <1>3 DEF Commit, Presence
<1>8. head' \in [boot : BootOrNone, gen : Nat, last : Nat]
  BY <1>1, <1>2 DEF Commit, BootOrNone
<1>9. /\ now' \in Nat /\ candidate' \in BOOLEAN /\ fault' \in BOOLEAN
      /\ open' \in OpenInterval \cup {None} /\ closed' \subseteq ClosedInterval
      /\ tx' \in Transaction \cup {None}
  BY <1>1 DEF Commit, TypeOK
<1> QED
  BY <1>4, <1>5, <1>6, <1>7, <1>8, <1>9 DEF TypeOK

\* Once an event has been applied there is a snapshot to save.
Started == tx # None /\ tx.done > 0 => tx.snap # None

TypeInv == TypeOK /\ Started

LEMMA TypeInit == Init => TypeInv
<1> SUFFICES ASSUME Init
             PROVE  TypeInv
  OBVIOUS
<1>1. boots \in [Boot -> BootRow]
  BY DEF Init, BootRow, BootOrNone
<1>2. head \in [boot : BootOrNone, gen : Nat, last : Nat]
  BY DEF Init, BootOrNone
<1> QED
  BY <1>1, <1>2 DEF Init, TypeInv, TypeOK, Started

\* The steps of a server that any well-formed report may reach, whoever sends it.
AnyReport == Internal \/ Commit \/ \E env \in Envelope : Receive(env)

LEMMA RequestsAreReports == [Next]_vars => [AnyReport]_vars
BY RequestAssumption DEF Next, AnyReport

LEMMA TypeStep == TypeInv /\ [AnyReport]_vars => TypeInv'
<1> SUFFICES ASSUME TypeInv, [AnyReport]_vars
             PROVE  TypeInv'
  OBVIOUS
<1> USE DEF TypeInv
<1>1. ASSUME NEW env \in Envelope, Begin(env)
      PROVE  TypeInv'
  <2>1. Prepared(env) \in Transaction
    BY PreparedType
  <2>2. tx'.done = 0
    BY <1>1 DEF Begin, Prepared
  <2> QED
    BY <1>1, <2>1, <2>2 DEF Begin, TypeOK, Started, tables
<1>2. ASSUME NEW env \in Envelope, BeginFails(env)
      PROVE  TypeInv'
  BY <1>2 DEF BeginFails, TypeOK, Started, tables
<1>3. ASSUME NEW env \in Envelope, Replay(env)
      PROVE  TypeInv'
  <2>1. PICK r \in ReceiptsOf(env) :
          acks' = acks \cup {[env |-> env, at |-> r.at, lease |-> r.lease]}
    BY <1>3 DEF Replay
  <2>2. r \in Receipt
    BY DEF ReceiptsOf, TypeOK
  <2>3. [env |-> env, at |-> r.at, lease |-> r.lease] \in Ack
    BY <2>2 DEF Receipt, Ack
  <2> QED
    BY <1>3, <2>1, <2>3 DEF Replay, TypeOK, Started, tables
<1>4. CASE ApplyEvent
  <2>1. tx' \in Transaction
    BY <1>4, ApplyEventType
  <2>2. SnapshotAfter # None
    <3>1. tx \in Transaction /\ tx'.snap = SnapshotAfter
      BY <1>4, ApplyingType DEF ApplyEvent, Transaction
    <3>2. tx'.snap \in Snapshot
      BY <1>4, <3>1, SnapshotAfterType DEF ApplyEvent
    <3> QED
      BY <3>1, <3>2, NoneAssumption
  <2> QED
    BY <1>4, <2>1, <2>2 DEF ApplyEvent, TypeOK, Started, tables
<1>5. CASE ApplyFails
  BY <1>5 DEF ApplyFails, TypeOK, Started, tables
<1>6. CASE Commit
  <2>1. tx # None /\ tx.done > 0
    <3>1. tx.env \in Envelope /\ tx # None /\ tx.done = Len(tx.env.events)
      BY <1>6 DEF Commit, TypeOK, Transaction
    <3> QED
      BY <3>1, EventType
  <2>2. TypeOK'
    BY <1>6, <2>1, CommitType DEF Started
  <2> QED
    BY <1>6, <2>2 DEF Commit, Started
<1>7. CASE Abort
  BY <1>7 DEF Abort, TypeOK, Started, tables
<1>8. CASE SweepSelect
  BY <1>8 DEF SweepSelect, TypeOK, Started, tables
<1>9. CASE SweepClose
  <2>1. presence \in Presence /\ open \in OpenInterval
    BY <1>9 DEF SweepClose, SweepCloses, CanClose, Due, TypeOK
  <2>2. presence' \in Presence
    BY <1>9, <2>1 DEF SweepClose, Presence
  <2>3. closed' \subseteq ClosedInterval
    <3>1. presence.lease \in Nat /\ presence.snap.lastSeq \in Nat
      BY <2>1 DEF Presence, Snapshot
    <3>2. Closed(open, presence.lease, presence.snap.lastSeq) \in ClosedInterval
      BY <2>1, <3>1, ClosedType
    <3> QED
      BY <1>9, <3>2 DEF SweepClose, TypeOK
  <2> QED
    BY <1>9, <2>2, <2>3 DEF SweepClose, TypeOK, Started
<1>10. CASE SweepSkip
  BY <1>10 DEF SweepSkip, TypeOK, Started, tables
<1>11. CASE SweepFails
  BY <1>11 DEF SweepFails, TypeOK, Started, tables
<1>12. CASE Tick
  BY <1>12 DEF Tick, TypeOK, Started, tables
<1>13. CASE StepBack
  BY <1>13 DEF StepBack, TypeOK, Started, tables
<1>14. CASE UNCHANGED vars
  BY <1>14 DEF vars, TypeOK, Started
<1> QED
  BY <1>1, <1>2, <1>3, <1>4, <1>5, <1>6, <1>7, <1>8, <1>9, <1>10, <1>11, <1>12,
     <1>13, <1>14 DEF AnyReport, Internal, Receive

\* Every variable keeps the shape of its table or object, whatever reports
\* arrive and wherever transactions are interrupted.
THEOREM TypeCorrect == Spec => []TypeOK
<1>1. TypeInv => TypeOK
  BY DEF TypeInv
<1> QED
  BY TypeInit, TypeStep, RequestsAreReports, <1>1, PTL DEF Spec

-----------------------------------------------------------------------------
(***************************************************************************)
(* A clock that is never set back: the ledger is consistent.               *)
(***************************************************************************)

\* What the tables say of a report that is taken.
LEMMA AcceptedReport ==
    ASSUME IInv, NEW env \in Envelope, Accepts(env)
    PROVE  /\ ReceivedAt = now /\ now \in Nat /\ head.last \in Nat
           /\ presence # None =>
                /\ presence \in Presence
                /\ presence.lease \in Nat /\ presence.snap \in Snapshot
                /\ presence.snap.lastSeq \in Nat
                /\ head.last < presence.lease
                /\ presence.closed => Expired(now)
           /\ open # None => open \in OpenInterval
           /\ ~Opens(env) => /\ presence # None
                             /\ env.first = presence.snap.lastSeq + 1
<1>1. now \in Nat /\ head.last \in Nat /\ head.last <= now
  BY DEF IInv, TypeOK, LedgerInv
<1>2. ReceivedAt = now
  BY <1>1 DEF ReceivedAt, Max2
<1>3. ASSUME presence # None
      PROVE  /\ presence \in Presence
             /\ presence.lease \in Nat /\ presence.snap \in Snapshot
             /\ presence.snap.lastSeq \in Nat
             /\ head.last < presence.lease
             /\ presence.closed => Expired(now)
  <2>1. /\ presence \in Presence
        /\ presence.lease = head.last + LeaseTtl
        /\ presence.closed => presence.lease <= now
    BY <1>3 DEF IInv, TypeOK, LedgerInv
  <2> QED
    BY <1>1, <1>3, <2>1, ClockAssumption DEF Presence, Snapshot, Expired
<1>4. open # None => open \in OpenInterval
  BY DEF IInv, TypeOK
<1>5. ASSUME ~Opens(env)
      PROVE  presence # None /\ env.first = presence.snap.lastSeq + 1
  <2>1. env.boot = head.boot /\ env.first = boots[head.boot].next
    BY <1>5 DEF Accepts, Continues, Established
  <2>2. presence # None
    BY <2>1, NoneAssumption DEF Envelope, IInv, LedgerInv
  <2>3. boots[head.boot].next \in Nat
    BY <2>1 DEF Envelope, IInv, TypeOK, BootRow
  <2>4. presence.snap.lastSeq = boots[head.boot].next - 1
    BY <2>2 DEF IInv, LedgerInv
  <2> QED
    BY <2>1, <2>2, <2>3, <2>4
<1> QED
  BY <1>1, <1>2, <1>3, <1>4, <1>5

\* The preparation never meets a ledger it did not expect.
LEMMA AlwaysPreparable ==
    ASSUME IInv, NEW env \in Envelope, Accepts(env)
    PROVE  Preparable(env)
<1>1. ReceivedAt = now
  BY AcceptedReport
<1>2. ASSUME MustClose(env, now)
      PROVE  CanClose(open, BoundaryAt(now), presence.snap.lastSeq)
  <2>1. presence # None /\ ~presence.closed
    BY <1>2, AcceptedReport DEF MustClose
  <2>2. /\ open # None /\ open \in OpenInterval
        /\ open.start <= head.last /\ open.startSeq <= presence.snap.lastSeq
    BY <2>1 DEF IInv, LedgerInv, TypeOK
  <2>3. open.start <= BoundaryAt(now)
    <3>1. head.last <= now /\ head.last < presence.lease
      BY <2>1, AcceptedReport DEF IInv, LedgerInv
    <3> QED
      BY <2>1, <2>2, <3>1, AcceptedReport DEF BoundaryAt, OpenInterval
  <2> QED
    BY <2>2, <2>3 DEF CanClose
<1>3. ASSUME Seamless(env, now)
      PROVE  open # None
  BY <1>3 DEF Seamless, IInv, LedgerInv
<1> QED
  BY <1>1, <1>2, <1>3 DEF Preparable

\* A prefix of a covered stretch is covered.
LEMMA CoveredPrefix ==
    ASSUME NEW start \in Nat, NEW end \in Nat, NEW sooner \in Nat,
           CoveredUntil(start, end), sooner <= end
    PROVE  CoveredUntil(start, sooner)
BY DEF CoveredUntil

\* The working copy a transaction starts from is consistent.
LEMMA PreparedOK ==
    ASSUME IInv, NEW env \in Envelope, Accepts(env)
    PROVE  TransactionOK(Prepared(env))
<1> DEFINE t == Prepared(env)
           rolls == Opens(env) /\ Seamless(env, now)
           gen == IF Opens(env) THEN head.gen + 1 ELSE head.gen
           broken == (Opens(env) /\ ~rolls) \/ (~Opens(env) /\ Expired(now))
           closes == MustClose(env, now)
<1>0. ReceivedAt = now
  BY AcceptedReport
<1>1. /\ t.env = env /\ t.at = now /\ t.gen = gen /\ t.done = 0
      /\ t.broken = broken /\ t.reopen = broken
      /\ t.snap = IF presence = None \/ (Opens(env) /\ ~rolls) THEN None ELSE presence.snap
      /\ t.open = IF closes THEN None
                  ELSE IF rolls /\ open # None
                  THEN Moved(open, gen)
                  ELSE open
      /\ t.closed = IF closes /\ open # None
                    THEN closed \cup {Closed(open, BoundaryAt(now), presence.snap.lastSeq)}
                    ELSE closed
  BY <1>0 DEF Prepared
<1> HIDE DEF t
<1>2. head.last <= t.at /\ t.at <= now /\ t.done <= Len(t.env.events)
  BY <1>1, EventType DEF IInv, LedgerInv, TypeOK
<1>3. t.snap = None => t.reopen /\ t.env.events[1] # Heartbeat
  <2>1. ASSUME t.snap = None
        PROVE  t.reopen /\ t.env.events[1] # Heartbeat
    <3>1. presence = None \/ (Opens(env) /\ ~rolls)
      <4>1. presence # None => presence.snap \in Snapshot
        BY AcceptedReport
      <4> QED
        BY <1>1, <2>1, <4>1, NoneAssumption
    <3>2. Opens(env)
      BY <3>1, AcceptedReport
    <3>3. ~rolls
      BY <3>1, <3>2 DEF Seamless
    <3> QED
      BY <1>1, <3>2, <3>3 DEF Opens
  <2> QED
    BY <2>1
<1>4. t.snap # None => NotIdle(t.snap)
  BY <1>1 DEF IInv, LedgerInv
<1>5. t.done > 0 => t.snap # None /\ t.snap.lastSeq = t.env.first + t.done - 1
  BY <1>1
<1>6. ASSUME broken
      PROVE  t.open = None
  <2>1. CASE closes
    BY <1>1, <2>1
  <2>2. CASE ~closes
    <3>1. ~rolls
      BY <1>6
    <3>2. presence = None \/ presence.closed
      BY <1>6, <2>2 DEF MustClose
    <3>3. open = None
      BY <3>2 DEF IInv, LedgerInv
    <3> QED
      BY <1>1, <2>2, <3>3
  <2> QED
    BY <2>1, <2>2
<1>7. ASSUME ~broken
      PROVE  /\ t.open # None
             /\ t.open.gen = t.gen
             /\ t.open.activity = ActivityOf[t.snap.state]
             /\ t.open.start <= t.at
             /\ t.open.startSeq <= t.env.first
             /\ Eligibility(t.snap, t.open.start)
             /\ CoveredUntil(t.open.start, t.at)
  <2>1. /\ presence # None /\ ~presence.closed /\ ~Expired(now)
        /\ rolls \/ ~Opens(env)
    BY <1>7, AcceptedReport DEF Seamless, Expired
  <2>2. ~closes
    BY <2>1 DEF MustClose
  <2>3. /\ open # None /\ open \in OpenInterval
        /\ open.gen = head.gen
        /\ open.activity = ActivityOf[presence.snap.state]
        /\ open.start <= head.last
        /\ open.startSeq <= presence.snap.lastSeq
        /\ Eligibility(presence.snap, open.start)
        /\ CoveredUntil(open.start, presence.lease)
    BY <2>1 DEF IInv, LedgerInv, TypeOK
  <2>4. t.snap = presence.snap
    BY <1>1, <2>1
  <2>5. open.start <= now /\ open.start \in Nat /\ now \in Nat
    BY <2>3, AcceptedReport DEF IInv, LedgerInv, OpenInterval
  <2>6. CoveredUntil(open.start, now)
    <3>1. now < presence.lease /\ presence.lease \in Nat
      BY <2>1, <2>5, AcceptedReport DEF Expired
    <3> QED
      BY <2>3, <2>5, <3>1, CoveredPrefix
  <2>7. CASE rolls
    <3>1. t.open = Moved(open, gen)
      BY <1>1, <2>2, <2>3, <2>7
    <3>2. t.open # None /\ t.open.gen = gen /\ t.open.startSeq = 1
          /\ t.open.start = open.start /\ t.open.activity = open.activity
      <4>1. gen \in Nat
        BY DEF IInv, TypeOK
      <4> HIDE DEF gen
      <4> QED
        BY <2>3, <3>1, <4>1, MovedInterval, NoneAssumption
    <3>3. env.first = 1
      BY <2>7 DEF Opens
    <3> QED
      BY <1>1, <2>3, <2>4, <2>5, <2>6, <3>2, <3>3
  <2>8. CASE ~Opens(env)
    <3>1. t.open = open /\ t.gen = head.gen
      BY <1>1, <2>2, <2>8
    <3>2. open.startSeq <= env.first
      BY <2>3, <2>8, AcceptedReport DEF OpenInterval
    <3> QED
      BY <1>1, <2>3, <2>4, <2>5, <2>6, <3>1, <3>2
  <2> QED
    BY <2>1, <2>7, <2>8
<1>8. \A c \in t.closed : Past(c, t.at)
  <2>1. \A c \in closed : Past(c, now)
    BY DEF IInv, HistoryInv
  <2>2. ASSUME closes, open # None
        PROVE  Past(Closed(open, BoundaryAt(now), presence.snap.lastSeq), now)
    <3>1. /\ presence # None /\ open \in OpenInterval /\ now \in Nat
          /\ presence.lease \in Nat
      BY <2>2, AcceptedReport DEF MustClose
    <3>2. CoveredUntil(open.start, presence.lease)
      BY <2>2 DEF IInv, LedgerInv
    <3>3. /\ BoundaryAt(now) \in Nat /\ BoundaryAt(now) <= now
          /\ BoundaryAt(now) <= presence.lease
      BY <3>1 DEF BoundaryAt, Expired
    <3>4. CoveredUntil(open.start, BoundaryAt(now))
      BY <3>1, <3>2, <3>3, CoveredPrefix DEF OpenInterval
    <3> QED
      BY <3>3, <3>4 DEF Past, Closed
  <2> QED
    BY <1>1, <2>1, <2>2
<1>9. t.reopen = broken /\ t.broken = broken /\ t.done = 0
  BY <1>1
<1> HIDE DEF broken
<1> QED
  BY <1>2, <1>3, <1>4, <1>5, <1>6, <1>7, <1>8, <1>9 DEF TransactionOK, WorkingInterval, t

\* What the working copy says of the event about to be applied.
LEMMA ApplyingFacts ==
    ASSUME IInv, Applying
    PROVE  /\ tx \in Transaction /\ TransactionOK(tx)
           /\ tx.at \in Nat /\ tx.gen \in Nat /\ tx.done \in Nat
           /\ tx.env.first \in Nat
           /\ EventSequence \in Nat /\ EventSequence = tx.env.first + tx.done
           /\ tx.open # None => tx.open \in OpenInterval
           /\ tx.snap # None => tx.snap \in Snapshot
           /\ tx.open # None => tx.open.startSeq <= EventSequence
           /\ EventNow = Heartbeat => tx.snap # None
<1>1. tx \in Transaction /\ TransactionOK(tx) /\ EventSequence \in Nat
  BY ApplyingType DEF IInv, Applying, TransactionInv
<1>2. /\ tx.at \in Nat /\ tx.gen \in Nat /\ tx.done \in Nat /\ tx.env.first \in Nat
      /\ tx.open # None => tx.open \in OpenInterval
      /\ tx.snap # None => tx.snap \in Snapshot
  BY <1>1 DEF Transaction, Envelope
<1>3. EventSequence = tx.env.first + tx.done
  BY DEF EventSequence
<1>4. ASSUME tx.open # None
      PROVE  tx.open.startSeq <= EventSequence
  <2>1. tx.open.startSeq \in Nat
    BY <1>2, <1>4 DEF OpenInterval
  <2>2. \/ tx.open.startSeq <= tx.env.first
        \/ tx.done > 0 /\ tx.open.startSeq <= tx.env.first + tx.done - 1
    BY <1>1, <1>4 DEF TransactionOK, WorkingInterval
  <2> QED
    BY <1>2, <1>3, <2>1, <2>2
<1>5. EventNow = Heartbeat => tx.snap # None
  BY <1>1 DEF TransactionOK, WorkingInterval, EventNow
<1> QED
  BY <1>1, <1>2, <1>3, <1>4, <1>5

\* An interval that ends now has ended in the past, under its leases.
LEMMA ClosedAfterPast ==
    ASSUME IInv, Applying
    PROVE  \A c \in ClosedAfter : Past(c, tx.at)
<1>1. \A c \in tx.closed : Past(c, tx.at)
  BY ApplyingFacts DEF TransactionOK, WorkingInterval
<1>2. ASSUME ClosesInterval
      PROVE  Past(Closed(tx.open, tx.at, EventSequence), tx.at)
  <2>1. CoveredUntil(tx.open.start, tx.at) /\ tx.at \in Nat
    BY <1>2, ApplyingFacts DEF TransactionOK, WorkingInterval, ClosesInterval
  <2> QED
    BY <2>1 DEF Past, Closed
<1> QED
  BY <1>1, <1>2 DEF ClosedAfter

\* No statement of an event meets a ledger it did not expect.
LEMMA AlwaysApplies ==
    ASSUME IInv, Applying
    PROVE  EventApplies
<1>1. EventNow = Heartbeat => tx.snap # None
  BY ApplyingFacts
<1>2. ASSUME ClosesInterval
      PROVE  CanClose(tx.open, tx.at, EventSequence)
  BY <1>2, ApplyingFacts DEF CanClose, ClosesInterval, TransactionOK, WorkingInterval
<1>3. ASSUME OpensInterval
      PROVE  CanOpen(OpenAfterClose, ClosedAfter, tx.at)
  <2>1. OpenAfterClose = None
    BY <1>3, ApplyingFacts
       DEF OpenAfterClose, OpensInterval, ClosesInterval, TransactionOK, WorkingInterval
  <2>2. \A c \in ClosedAfter : c.end <= tx.at
    BY ClosedAfterPast DEF Past
  <2> QED
    BY <2>1, <2>2 DEF CanOpen
<1> QED
  BY <1>1, <1>2, <1>3 DEF EventApplies

\* The fields of the working copy after an event.
LEMMA ApplyEventFields ==
    ASSUME IInv, ApplyEvent
    PROVE  /\ tx'.env = tx.env /\ tx'.at = tx.at /\ tx'.gen = tx.gen
           /\ tx'.broken = tx.broken /\ tx'.done = tx.done + 1 /\ tx'.reopen = FALSE
           /\ tx'.snap = SnapshotAfter /\ tx'.closed = ClosedAfter
           /\ tx'.open = IF OpensInterval
                        THEN Opened(tx.gen, ActivityAfter, tx.at, EventSequence)
                        ELSE tx.open
<1>1. tx \in Transaction
  BY ApplyingFacts DEF ApplyEvent
<1> QED
  BY <1>1 DEF ApplyEvent, Transaction

\* The snapshot an event leads to, seen from the one before it.
LEMMA SnapshotAfterFacts ==
    ASSUME IInv, Applying
    PROVE  /\ SnapshotAfter \in Snapshot
           /\ SnapshotAfter.lastSeq = EventSequence
           /\ ActivityOf[SnapshotAfter.state] = ActivityAfter
           /\ NotIdle(SnapshotAfter)
           /\ OpensInterval => Eligibility(SnapshotAfter, tx.at)
           /\ ~OpensInterval =>
                /\ tx.snap # None /\ ActivityAfter = Effective
                /\ tx.open # None
                /\ Eligibility(SnapshotAfter, tx.open.start)
<1>1. SnapshotAfter \in Snapshot
  BY AlwaysApplies, SnapshotAfterType DEF IInv
<1>2. /\ TransactionOK(tx)
      /\ tx.at \in Nat
      /\ tx.open # None => tx.open \in OpenInterval
      /\ tx.snap # None => tx.snap \in Snapshot /\ NotIdle(tx.snap)
      /\ EventNow = Heartbeat => tx.snap # None
      /\ EventSequence \in Nat
  BY ApplyingFacts DEF TransactionOK, WorkingInterval
<1>3. CASE EventNow = Heartbeat
  <2>1. tx.snap \in Snapshot /\ NotIdle(tx.snap)
    BY <1>2, <1>3
  <2>2. /\ SnapshotAfter.lastSeq = EventSequence
        /\ SnapshotAfter.state = tx.snap.state
        /\ SnapshotAfter.eligibleSince =
             IF tx.reopen /\ Effective = "eligible_idle" THEN tx.at
             ELSE tx.snap.eligibleSince
    BY <1>3, <2>1 DEF SnapshotAfter, HeartbeatSnapshot, Snapshot
  <2>3. ActivityAfter = Effective /\ Effective = ActivityOf[tx.snap.state]
    BY <1>3 DEF ActivityAfter, Effective
  <2>4. OpensInterval <=> tx.reopen
    BY <1>3 DEF OpensInterval
  <2>5. ~tx.reopen => tx.open # None /\ Eligibility(tx.snap, tx.open.start)
    BY <1>2 DEF TransactionOK, WorkingInterval
  <2> QED
    BY <1>1, <1>2, <1>3, <2>1, <2>2, <2>3, <2>4, <2>5 DEF NotIdle, Eligibility
<1>4. CASE EventNow # Heartbeat
  <2>1. /\ SnapshotAfter.lastSeq = EventSequence
        /\ SnapshotAfter.state = EventNow
        /\ SnapshotAfter.eligibleSince =
             IF ActivityOf[EventNow] # "eligible_idle" THEN None
             ELSE IF ~tx.broken /\ ~ActivityChanges /\ tx.snap.eligibleSince # None
             THEN tx.snap.eligibleSince ELSE tx.at
    BY <1>4 DEF SnapshotAfter, StateSnapshot
  <2>2. ActivityAfter = ActivityOf[EventNow]
    BY <1>4 DEF ActivityAfter
  <2>3. OpensInterval <=> tx.reopen \/ ActivityChanges
    BY <1>4 DEF OpensInterval
  <2>4. NotIdle(SnapshotAfter)
    BY <2>1 DEF NotIdle
  <2>5. ASSUME OpensInterval
        PROVE  Eligibility(SnapshotAfter, tx.at)
    <3>1. tx.broken \/ ActivityChanges
      BY <1>2, <2>3, <2>5 DEF TransactionOK, WorkingInterval
    <3> QED
      BY <2>1, <3>1 DEF Eligibility
  <2>6. ASSUME ~OpensInterval
        PROVE  /\ tx.snap # None /\ ActivityAfter = Effective
               /\ tx.open # None
               /\ Eligibility(SnapshotAfter, tx.open.start)
    <3>1. ~tx.reopen /\ ~ActivityChanges
      BY <2>3, <2>6
    <3>2. /\ tx.snap # None /\ Effective = ActivityOf[EventNow]
          /\ tx.open # None
          /\ Eligibility(tx.snap, tx.open.start)
          /\ tx.broken => tx.open.start = tx.at
      BY <1>2, <3>1 DEF TransactionOK, WorkingInterval, ActivityChanges
    <3>3. tx.open.start # None
      BY <1>2, <3>2, NoneAssumption DEF OpenInterval
    <3> QED
      BY <2>1, <2>2, <3>1, <3>2, <3>3 DEF Eligibility, Effective
  <2> QED
    BY <1>1, <2>1, <2>2, <2>4, <2>5, <2>6
<1> QED
  BY <1>3, <1>4

\* Applying an event keeps the working copy consistent.
LEMMA ApplyEventOK ==
    ASSUME IInv, ApplyEvent
    PROVE  TransactionOK(tx')
<1>1. Applying /\ TransactionOK(tx)
  BY ApplyingFacts DEF ApplyEvent
<1>2. /\ tx.at \in Nat /\ tx.gen \in Nat /\ tx.done \in Nat /\ tx.env.first \in Nat
      /\ EventSequence \in Nat /\ EventSequence = tx.env.first + tx.done
      /\ tx.open # None => tx.open \in OpenInterval /\ tx.open.startSeq <= EventSequence
  BY <1>1, ApplyingFacts
<1>3. tx.done + 1 <= Len(tx.env.events)
  BY <1>1, ApplyingType DEF IInv
<1>4. SnapshotAfter # None
  BY <1>1, SnapshotAfterFacts, NoneAssumption
<1>5. \A c \in ClosedAfter : Past(c, tx.at)
  BY <1>1, ClosedAfterPast
<1>6. /\ tx'.env = tx.env /\ tx'.at = tx.at /\ tx'.gen = tx.gen
      /\ tx'.broken = tx.broken /\ tx'.done = tx.done + 1 /\ tx'.reopen = FALSE
      /\ tx'.snap = SnapshotAfter /\ tx'.closed = ClosedAfter
  BY ApplyEventFields
<1>7. /\ head.last <= tx'.at /\ tx'.at <= now
      /\ tx'.done <= Len(tx'.env.events)
      /\ ~tx'.reopen /\ tx'.snap # None /\ NotIdle(tx'.snap)
      /\ tx'.snap.lastSeq = tx'.env.first + tx'.done - 1
      /\ \A c \in tx'.closed : Past(c, tx'.at)
  BY <1>1, <1>2, <1>3, <1>4, <1>5, <1>6, SnapshotAfterFacts DEF TransactionOK, WorkingInterval
<1>8. SUFFICES WorkingInterval(tx')
  BY <1>7 DEF TransactionOK
<1> USE DEF WorkingInterval
<1>9. CASE OpensInterval
  <2> DEFINE opened == Opened(tx.gen, ActivityAfter, tx.at, EventSequence)
  <2>1. ActivityAfter \in Activity
    <3>1. ActivityAfter = ActivityOf[SnapshotAfter.state] /\ SnapshotAfter \in Snapshot
      BY <1>1, SnapshotAfterFacts
    <3> QED
      BY <3>1, SnapshotAssumption DEF Snapshot
  <2>2. opened # None
    BY <1>2, <2>1, OpenedType, NoneAssumption
  <2>3. /\ opened.gen = tx.gen /\ opened.activity = ActivityAfter
        /\ opened.start = tx.at /\ opened.startSeq = EventSequence
    BY DEF Opened
  <2>4. CoveredUntil(tx.at, tx.at)
    BY <1>2 DEF CoveredUntil
  <2>5. tx'.open = opened
    BY <1>9, ApplyEventFields
  <2> HIDE DEF opened
  <2> QED
    BY <1>1, <1>2, <1>9, <1>6, <2>2, <2>3, <2>4, <2>5, SnapshotAfterFacts
<1>10. CASE ~OpensInterval
  <2>1. /\ tx.snap # None /\ ActivityAfter = Effective
        /\ tx.open # None
        /\ Eligibility(SnapshotAfter, tx.open.start)
        /\ ~tx.reopen
    BY <1>1, <1>10, SnapshotAfterFacts DEF OpensInterval
  <2>2. /\ tx.open.gen = tx.gen
        /\ tx.open.activity = ActivityOf[tx.snap.state]
        /\ tx.open.start <= tx.at
        /\ CoveredUntil(tx.open.start, tx.at)
        /\ tx.broken => tx.open.start = tx.at
    BY <1>1, <2>1 DEF TransactionOK, WorkingInterval
  <2>3. tx'.open = tx.open
    BY <1>10, ApplyEventFields
  <2> QED
    BY <1>1, <1>2, <1>6, <2>1, <2>2, <2>3, SnapshotAfterFacts DEF Effective
<1> QED
  BY <1>9, <1>10

-----------------------------------------------------------------------------
(***************************************************************************)
(* One lemma per action that writes something.                             *)
(***************************************************************************)

\* Steps that leave the tables, the clock and the acknowledgements alone keep
\* what is said of them.
LEMMA LedgerUnchanged ==
    ASSUME IInv, UNCHANGED <<now, tables, acks>>
    PROVE  /\ LedgerInv' /\ HistoryInv'
BY DEF IInv, LedgerInv, HistoryInv, Past, CoveredUntil, Covered,
       NotIdle, Eligibility, tables

LEMMA BeginStep ==
    ASSUME IInv, NEW env \in Requests, Begin(env), TypeOK'
    PROVE  IInv'
<1>1. env \in Envelope /\ Accepts(env)
  BY RequestAssumption DEF Begin
<1>2. TransactionOK(tx')
  BY <1>1, PreparedOK DEF Begin
<1>3. UNCHANGED <<now, tables, acks>> /\ ~fault'
  BY DEF Begin, IInv
<1>4. LedgerInv' /\ HistoryInv'
  BY <1>3, LedgerUnchanged
<1>5. TransactionInv'
  BY <1>2, <1>3 DEF TransactionInv, TransactionOK, WorkingInterval, Past, CoveredUntil, Covered,
                    NotIdle, Eligibility, tables
<1> QED
  BY <1>3, <1>4, <1>5 DEF IInv

LEMMA ApplyStep ==
    ASSUME IInv, ApplyEvent, TypeOK'
    PROVE  IInv'
<1>1. TransactionOK(tx')
  BY ApplyEventOK
<1>2. UNCHANGED <<now, tables, acks>> /\ ~fault'
  BY DEF ApplyEvent, IInv
<1>3. LedgerInv' /\ HistoryInv'
  BY <1>2, LedgerUnchanged
<1>4. TransactionInv'
  BY <1>1, <1>2 DEF TransactionInv, TransactionOK, WorkingInterval, Past, CoveredUntil, Covered,
                    NotIdle, Eligibility, tables
<1> QED
  BY <1>2, <1>3, <1>4 DEF IInv

LEMMA CommitStep ==
    ASSUME IInv, Commit, TypeOK'
    PROVE  IInv'
<1>1. /\ tx \in Transaction /\ TransactionOK(tx)
      /\ tx.env \in Envelope /\ tx.env.boot \in Boot /\ tx.env.first \in Nat
      /\ tx.at \in Nat /\ tx.gen \in Nat
      /\ tx.closed \subseteq ClosedInterval
      /\ Len(tx.env.events) \in Nat \ {0} /\ tx.done = Len(tx.env.events)
  <2>1. tx \in Transaction /\ TransactionOK(tx) /\ tx.done = Len(tx.env.events)
    BY DEF IInv, TypeOK, TransactionInv, Commit
  <2> QED
    BY <2>1, EventType DEF Transaction, Envelope
<1>2. /\ tx.snap # None /\ tx.snap \in Snapshot
      /\ tx.snap.lastSeq = tx.env.first + Len(tx.env.events) - 1
      /\ NotIdle(tx.snap)
      /\ ~tx.reopen
  BY <1>1 DEF TransactionOK, WorkingInterval, Transaction
<1>3. /\ tx.open # None /\ tx.open \in OpenInterval
      /\ tx.open.gen = tx.gen
      /\ tx.open.activity = ActivityOf[tx.snap.state]
      /\ tx.open.start <= tx.at
      /\ tx.open.startSeq <= tx.snap.lastSeq
      /\ Eligibility(tx.snap, tx.open.start)
      /\ CoveredUntil(tx.open.start, tx.at)
  <2>1. tx.open # None /\ tx.open \in OpenInterval
    BY <1>1, <1>2 DEF TransactionOK, WorkingInterval, Transaction
  <2>2. tx.open.startSeq \in Nat
    BY <2>1 DEF OpenInterval
  <2> QED
    BY <1>1, <1>2, <2>1, <2>2 DEF TransactionOK, WorkingInterval
<1>4. /\ head' = [boot |-> tx.env.boot, gen |-> tx.gen, last |-> tx.at]
      /\ presence' = [snap |-> tx.snap, lease |-> tx.at + LeaseTtl, closed |-> FALSE]
      /\ open' = tx.open /\ closed' = tx.closed
      /\ acks' = acks \cup {[env |-> tx.env, at |-> tx.at, lease |-> tx.at + LeaseTtl]}
      /\ now' = now /\ tx' = None /\ fault' = fault
      /\ boots'[tx.env.boot].next = LastSequence(tx.env) + 1
  BY <1>1 DEF Commit, Lease, BootsAfter
<1>5. LastSequence(tx.env) = tx.snap.lastSeq /\ tx.snap.lastSeq \in Nat
  BY <1>1, <1>2 DEF LastSequence, Snapshot
<1>6. presence' # None
  <2>1. presence' \in Presence
    BY <1>1, <1>2, <1>4, ClockAssumption DEF Presence
  <2> QED
    BY <2>1, NoneAssumption
<1>7. head'.last <= now' /\ head'.boot # None
  BY <1>1, <1>4, NoneAssumption DEF TransactionOK, WorkingInterval
<1>8. CoveredUntil(open.start, presence.lease)'
  <2> SUFFICES ASSUME NEW t \in Nat, tx.open.start <= t, t < tx.at + LeaseTtl
               PROVE  \E a \in acks' : a.at <= t /\ t < a.lease
    BY <1>4 DEF CoveredUntil, Covered
  <2>1. CASE t < tx.at
    BY <1>3, <1>4, <2>1 DEF CoveredUntil, Covered
  <2>2. CASE ~(t < tx.at)
    <3>1. tx.at <= t
      BY <1>1, <2>2
    <3> DEFINE a == [env |-> tx.env, at |-> tx.at, lease |-> tx.at + LeaseTtl]
    <3>2. a \in acks' /\ a.at = tx.at /\ a.lease = tx.at + LeaseTtl
      BY <1>4
    <3> HIDE DEF a
    <3> QED
      BY <3>1, <3>2
  <2> QED
    BY <2>1, <2>2
<1>9. LedgerInv'
  <2>1. /\ head'.boot = tx.env.boot /\ head'.gen = tx.gen /\ head'.last = tx.at
        /\ presence'.snap = tx.snap /\ presence'.lease = tx.at + LeaseTtl
        /\ ~presence'.closed
    BY <1>4
  <2>2. presence'.snap.lastSeq = boots'[head'.boot].next - 1
    BY <1>4, <1>5, <2>1
  <2>3. NotIdle(presence.snap)' /\ Eligibility(presence.snap, open.start)'
    BY <1>2, <1>3, <1>4, <2>1 DEF NotIdle, Eligibility
  <2> QED
    BY <1>3, <1>4, <1>6, <1>7, <1>8, <2>1, <2>2, <2>3 DEF LedgerInv
<1>10. HistoryInv'
  <2> SUFFICES ASSUME NEW c \in tx.closed
               PROVE  Past(c, now)'
    BY <1>4 DEF HistoryInv
  <2>1. c.end \in Nat /\ c.end <= tx.at /\ CoveredUntil(c.start, c.end)
    BY <1>1 DEF TransactionOK, WorkingInterval, Past, ClosedInterval
  <2>2. tx.at <= now /\ now \in Nat
    BY <1>1 DEF TransactionOK, WorkingInterval, IInv, TypeOK
  <2>3. c.end <= now
    BY <1>1, <2>1, <2>2
  <2> QED
    BY <1>4, <2>1, <2>3 DEF Past, CoveredUntil, Covered
<1> QED
  BY <1>4, <1>9, <1>10 DEF IInv, TransactionInv

LEMMA SweepCloseStep ==
    ASSUME IInv, SweepClose, TypeOK'
    PROVE  IInv'
<1>1. /\ presence \in Presence /\ presence # None /\ ~presence.closed
      /\ presence.lease <= now
      /\ presence' = [presence EXCEPT !.closed = TRUE]
      /\ open' = None
      /\ closed' = closed \cup {Closed(open, presence.lease, presence.snap.lastSeq)}
      /\ UNCHANGED <<now, head, boots, acks, tx, fault>> /\ tx = None
  BY DEF SweepClose, Due, IInv, TypeOK
<1>2. /\ presence' # None /\ presence'.closed
      /\ presence'.lease = presence.lease /\ presence'.snap = presence.snap
  <2>1. presence' \in Presence
    BY <1>1 DEF Presence
  <2> QED
    BY <1>1, <2>1, NoneAssumption DEF Presence
<1>3. LedgerInv'
  BY <1>1, <1>2 DEF IInv, LedgerInv, NotIdle
<1>4. CoveredUntil(open.start, presence.lease)
  BY <1>1 DEF IInv, LedgerInv
<1>5. HistoryInv'
  <2> SUFFICES ASSUME NEW c \in closed'
               PROVE  Past(c, now)'
    BY DEF HistoryInv
  <2>1. Past(c, now)
    <3>1. CASE c \in closed
      BY <3>1 DEF IInv, HistoryInv
    <3>2. CASE c = Closed(open, presence.lease, presence.snap.lastSeq)
      BY <1>1, <1>4, <3>2 DEF Past, Closed
    <3> QED
      BY <1>1, <3>1, <3>2
  <2> QED
    BY <1>1, <2>1 DEF Past, CoveredUntil, Covered
<1> QED
  BY <1>1, <1>3, <1>5 DEF IInv, TransactionInv

\* A tick only moves the present forward.
LEMMA TickStep ==
    ASSUME IInv, Tick, TypeOK'
    PROVE  IInv'
<1>1. /\ now \in Nat /\ now' = now + 1 /\ head.last \in Nat
      /\ UNCHANGED <<head, boots, presence, open, closed, acks, tx, fault>>
  BY DEF Tick, tables, IInv, TypeOK
<1>2. LedgerInv'
  <2>1. presence # None /\ presence.closed => presence.lease \in Nat /\ presence.lease <= now
    BY DEF IInv, TypeOK, LedgerInv, Presence
  <2> QED
    BY <1>1, <2>1 DEF IInv, LedgerInv, NotIdle, Eligibility, CoveredUntil, Covered
<1>3. HistoryInv'
  <2> SUFFICES ASSUME NEW c \in closed
               PROVE  Past(c, now)'
    BY <1>1 DEF HistoryInv
  <2>1. c.end \in Nat /\ c.end <= now /\ CoveredUntil(c.start, c.end)
    BY DEF IInv, TypeOK, ClosedInterval, HistoryInv, Past
  <2> QED
    BY <1>1, <2>1 DEF Past, CoveredUntil, Covered
<1>4. TransactionInv'
  <2> SUFFICES ASSUME tx # None
               PROVE  TransactionOK(tx)'
    BY <1>1 DEF TransactionInv
  <2>1. tx.at \in Nat /\ TransactionOK(tx)
    BY DEF IInv, TypeOK, Transaction, TransactionInv
  <2>2. tx.at <= now + 1
    BY <1>1, <2>1 DEF TransactionOK
  <2>3. WorkingInterval(tx) => WorkingInterval(tx)'
    BY <1>1 DEF WorkingInterval, Eligibility, CoveredUntil, Covered
  <2>4. \A c \in tx.closed : Past(c, tx.at)'
    BY <1>1, <2>1 DEF TransactionOK, Past, CoveredUntil, Covered
  <2> QED
    BY <1>1, <2>1, <2>2, <2>3, <2>4 DEF TransactionOK, NotIdle
<1> QED
  BY <1>1, <1>2, <1>3, <1>4 DEF IInv

\* What holds when a transaction ends without writing, or the sweep looks.
LEMMA QuietStep ==
    ASSUME IInv, TypeOK', UNCHANGED <<now, tables, fault>>,
           acks' = acks, tx' = tx \/ tx' = None
    PROVE  IInv'
<1>1. LedgerInv' /\ HistoryInv'
  BY LedgerUnchanged
<1>2. TransactionInv'
  BY DEF IInv, TransactionInv, TransactionOK, WorkingInterval, Past, CoveredUntil,
         Covered, NotIdle, Eligibility, tables
<1> QED
  BY <1>1, <1>2 DEF IInv

LEMMA ReplayStep ==
    ASSUME IInv, NEW env \in Requests, Replay(env), TypeOK'
    PROVE  IInv'
<1>1. UNCHANGED <<now, tables, tx, fault>> /\ tx = None /\ acks \subseteq acks'
  BY DEF Replay
<1>2. \A t \in Nat : Covered(t) => Covered(t)'
  BY <1>1 DEF Covered
<1>3. LedgerInv'
  BY <1>1, <1>2 DEF IInv, LedgerInv, NotIdle, Eligibility, CoveredUntil, tables
<1>4. HistoryInv'
  BY <1>1, <1>2 DEF IInv, HistoryInv, Past, CoveredUntil, tables
<1> QED
  BY <1>1, <1>3, <1>4 DEF IInv, TransactionInv

LEMMA ConsistentInit == Init => IInv
<1> SUFFICES ASSUME Init
             PROVE  IInv
  OBVIOUS
<1>1. TypeOK
  BY TypeInit DEF TypeInv
<1> QED
  BY <1>1 DEF Init, IInv, LedgerInv, HistoryInv, TransactionInv

LEMMA ConsistentStep ==
    ASSUME ~ClockMayStepBack, IInv, TypeOK', [Next]_vars
    PROVE  IInv'
<1>1. ASSUME NEW env \in Requests, Begin(env)
      PROVE  IInv'
  BY <1>1, BeginStep
<1>2. ASSUME NEW env \in Requests, BeginFails(env)
      PROVE  FALSE
  BY <1>2, AlwaysPreparable, RequestAssumption DEF BeginFails
<1>3. ASSUME NEW env \in Requests, Replay(env)
      PROVE  IInv'
  BY <1>3, ReplayStep
<1>4. CASE ApplyEvent
  BY <1>4, ApplyStep
<1>5. ASSUME ApplyFails
      PROVE  FALSE
  BY <1>5, AlwaysApplies DEF ApplyFails
<1>6. CASE Commit
  BY <1>6, CommitStep
<1>7. CASE Abort
  BY <1>7, QuietStep DEF Abort
<1>8. CASE SweepSelect
  BY <1>8, QuietStep DEF SweepSelect
<1>9. CASE SweepClose
  BY <1>9, SweepCloseStep
<1>10. CASE SweepSkip
  BY <1>10, QuietStep DEF SweepSkip
<1>11. ASSUME SweepFails
       PROVE  FALSE
  <2>1. presence # None /\ ~presence.closed /\ presence \in Presence
    BY <1>11 DEF SweepFails, Due, IInv, TypeOK
  <2>2. /\ open # None /\ open \in OpenInterval /\ head.last \in Nat
        /\ open.start <= head.last /\ open.startSeq <= presence.snap.lastSeq
        /\ presence.lease = head.last + LeaseTtl
    BY <2>1 DEF IInv, LedgerInv, TypeOK
  <2>3. open.start <= presence.lease
    BY <2>2, ClockAssumption DEF OpenInterval
  <2> QED
    BY <1>11, <2>2, <2>3 DEF SweepFails, SweepCloses, CanClose
<1>12. CASE Tick
  BY <1>12, TickStep
<1>13. ASSUME StepBack
       PROVE  FALSE
  BY <1>13 DEF StepBack
<1>14. CASE UNCHANGED vars
  BY <1>14, QuietStep DEF vars, tables
<1> QED
  BY <1>1, <1>2, <1>3, <1>4, <1>5, <1>6, <1>7, <1>8, <1>9, <1>10, <1>11, <1>12,
     <1>13, <1>14 DEF Next, Internal, Receive

\* The tables agree with each other and with the history in every state that
\* can be reached while the clock is not set back.
THEOREM Consistent == ASSUME ~ClockMayStepBack
                      PROVE  Spec => []IInv
<1>1. Init => TypeInv /\ IInv
  BY TypeInit, ConsistentInit
<1>2. TypeInv /\ IInv /\ [Next]_vars => (TypeInv /\ IInv)'
  BY TypeStep, RequestsAreReports, ConsistentStep DEF TypeInv
<1> QED
  BY <1>1, <1>2, PTL DEF Spec

\* No ingest or sweep transaction ever runs into an internal error: the sweep
\* and ingestion never both end an interval, nor both leave it open.
THEOREM NeverFaults == ASSUME ~ClockMayStepBack
                       PROVE  Spec => []NoIntegrityFault
<1>1. IInv => NoIntegrityFault
  BY DEF IInv, NoIntegrityFault
<1> QED
  BY <1>1, Consistent, PTL

\* What the office shows and what the leaderboard counts agree: the presence
\* is live exactly when one interval is open, of its activity, of its boot
\* and with its idle start.
THEOREM PresenceAgrees == ASSUME ~ClockMayStepBack
                          PROVE  Spec => []PresenceMatchesInterval
<1>1. IInv => PresenceMatchesInterval
  BY DEF IInv, LedgerInv, Eligibility, PresenceMatchesInterval
<1> QED
  BY <1>1, Consistent, PTL

\* No instant without an accepted report's lease is ever scored.
THEOREM OfflineIsNeverScored == ASSUME ~ClockMayStepBack
                                PROVE  Spec => []NoOfflineTime
<1>1. ASSUME IInv
      PROVE  NoOfflineTime
  <2> SUFFICES ASSUME NEW c \in closed, NEW t \in c.start..(c.end - 1)
               PROVE  Covered(t)
    BY DEF NoOfflineTime
  <2>1. c.start \in Nat /\ c.end \in Nat
    BY <1>1 DEF IInv, TypeOK, ClosedInterval
  <2>2. t \in Nat /\ c.start <= t /\ t < c.end
    BY <2>1
  <2> QED
    BY <1>1, <2>2 DEF IInv, HistoryInv, Past, CoveredUntil
<1> QED
  BY <1>1, Consistent, PTL

-----------------------------------------------------------------------------
(***************************************************************************)
(* An idle stretch continues through a report or starts afresh with it.    *)
(***************************************************************************)

\* The first k events of a report leave the activity of the interval as it is.
Alike(env, o, k) ==
    \A j \in 1..k : \/ env.events[j] = Heartbeat
                    \/ ActivityOf[env.events[j]] = o.activity

\* The committed tables are as the open transaction found them: it has broken
\* the interval for a reason they still show, or its copy of the interval has
\* the committed start until an event changes the activity.
ContinuityInv ==
    tx # None =>
       IF tx.broken
       THEN ~Unbroken(tx.env, tx.at)
       ELSE /\ presence # None /\ ~presence.closed /\ tx.at < presence.lease
            /\ Alike(tx.env, open, tx.done) => /\ tx.open.start = open.start
                                 /\ tx.open.activity = open.activity
            /\ ~Alike(tx.env, open, tx.done) => tx.open.start = tx.at

LEMMA BeginContinues ==
    ASSUME IInv, NEW env \in Requests, Begin(env)
    PROVE  ContinuityInv'
<1> DEFINE rolls == Opens(env) /\ Seamless(env, now)
           gen == IF Opens(env) THEN head.gen + 1 ELSE head.gen
           broken == (Opens(env) /\ ~rolls) \/ (~Opens(env) /\ Expired(now))
           closes == MustClose(env, now)
<1>1. /\ env \in Envelope /\ Accepts(env)
      /\ UNCHANGED <<presence, open>>
  BY RequestAssumption DEF Begin, tables
<1>2. ReceivedAt = now /\ now \in Nat /\ gen \in Nat
  BY <1>1, AcceptedReport DEF IInv, TypeOK
<1>3. /\ tx'.env = env /\ tx'.at = now /\ tx'.done = 0 /\ tx'.broken = broken
      /\ tx'.open = IF closes THEN None
                    ELSE IF rolls /\ open # None
                    THEN Moved(open, gen)
                    ELSE open
  BY <1>2 DEF Begin, Prepared
<1>4. ASSUME broken
      PROVE  ~Unbroken(env, now)
  <2> SUFFICES ASSUME Unbroken(env, now)
               PROVE  FALSE
    OBVIOUS
  <2>1. presence # None /\ ~presence.closed /\ now < presence.lease
    BY DEF Unbroken
  <2>2. ~Expired(now)
    BY <1>1, <1>2, <2>1, AcceptedReport DEF Expired
  <2>3. Opens(env) /\ ~Seamless(env, now)
    BY <1>4, <2>2
  <2>4. env.events[1] # Heartbeat /\ presence.lease > now
    BY <1>1, <1>2, <2>1, <2>3, AcceptedReport DEF Opens
  <2>5. open.activity = ActivityOf[presence.snap.state]
    BY <2>1 DEF IInv, LedgerInv
  <2>6. ActivityOf[env.events[1]] = open.activity
    <3>1. 1 \in 1..Len(env.events)
      BY <1>1, EventType
    <3> QED
      BY <2>4, <3>1 DEF Unbroken
  <2> QED
    BY <2>1, <2>3, <2>4, <2>5, <2>6 DEF Seamless
<1>5. ASSUME ~broken
      PROVE  /\ presence # None /\ ~presence.closed /\ now < presence.lease
             /\ tx'.open.start = open.start
             /\ tx'.open.activity = open.activity
  <2>1. /\ presence # None /\ ~presence.closed /\ ~Expired(now)
        /\ rolls \/ ~Opens(env)
    BY <1>1, <1>5, AcceptedReport DEF Seamless, Expired
  <2>2. ~closes
    BY <2>1 DEF MustClose
  <2>3. open # None /\ open \in OpenInterval
    BY <2>1 DEF IInv, LedgerInv, TypeOK
  <2>4. now < presence.lease
    BY <1>1, <1>2, <2>1, AcceptedReport DEF Expired
  <2>5. tx'.open = IF rolls THEN Moved(open, gen) ELSE open
    BY <1>3, <2>2, <2>3
  <2> HIDE DEF rolls, gen
  <2> QED
    BY <1>2, <2>1, <2>3, <2>4, <2>5, MovedInterval
<1>6. Alike(env, open, 0)
  BY DEF Alike
<1> HIDE DEF broken
<1>7. CASE broken
  BY <1>1, <1>3, <1>4, <1>7 DEF ContinuityInv, Unbroken
<1>8. CASE ~broken
  BY <1>1, <1>3, <1>5, <1>6, <1>8 DEF ContinuityInv
<1> QED
  BY <1>7, <1>8

LEMMA ApplyContinues ==
    ASSUME IInv, ContinuityInv, ApplyEvent
    PROVE  ContinuityInv'
<1>1. /\ Applying /\ tx # None /\ UNCHANGED <<presence, open>>
      /\ TransactionOK(tx) /\ tx.done \in Nat
  BY ApplyingFacts DEF ApplyEvent, Applying, tables
<1>2. /\ tx'.env = tx.env /\ tx'.at = tx.at
      /\ tx'.broken = tx.broken /\ tx'.done = tx.done + 1
      /\ tx'.open = IF OpensInterval
                    THEN Opened(tx.gen, ActivityAfter, tx.at, EventSequence)
                    ELSE tx.open
  BY ApplyEventFields
<1>3. CASE tx.broken
  BY <1>1, <1>2, <1>3 DEF ContinuityInv, Unbroken
<1>4. CASE ~tx.broken
  <2>1. /\ presence # None /\ ~presence.closed /\ tx.at < presence.lease
        /\ Alike(tx.env, open, tx.done) => /\ tx.open.start = open.start
                             /\ tx.open.activity = open.activity
        /\ ~Alike(tx.env, open, tx.done) => tx.open.start = tx.at
    BY <1>1, <1>4 DEF ContinuityInv
  <2>2. ~tx.reopen /\ tx.snap # None /\ tx.open.activity = Effective
    BY <1>1, <1>4 DEF TransactionOK, WorkingInterval, Effective
  <2>3. Alike(tx.env, open, tx.done + 1) <=>
           /\ Alike(tx.env, open, tx.done)
           /\ EventNow = Heartbeat \/ ActivityOf[EventNow] = open.activity
    <3>1. 1..(tx.done + 1) = (1..tx.done) \cup {tx.done + 1}
      BY <1>1
    <3> QED
      BY <1>1, <3>1 DEF Alike, EventNow
  <2>5. CASE OpensInterval
    <3>1. EventNow # Heartbeat /\ ActivityOf[EventNow] # Effective
      BY <2>2, <2>5 DEF OpensInterval, ActivityChanges
    <3>2. ~Alike(tx.env, open, tx.done + 1)
      BY <2>1, <2>2, <2>3, <3>1
    <3>3. tx'.open.start = tx.at
      BY <1>2, <2>5 DEF Opened
    <3> QED
      BY <1>1, <1>2, <1>4, <2>1, <3>2, <3>3 DEF ContinuityInv
  <2>6. CASE ~OpensInterval
    <3>1. EventNow = Heartbeat \/ ActivityOf[EventNow] = Effective
      BY <2>2, <2>6 DEF OpensInterval, ActivityChanges
    <3>2. Alike(tx.env, open, tx.done + 1) <=> Alike(tx.env, open, tx.done)
      BY <2>1, <2>2, <2>3, <3>1
    <3>3. tx'.open = tx.open
      BY <1>2, <2>6
    <3> QED
      BY <1>1, <1>2, <1>4, <2>1, <3>2, <3>3 DEF ContinuityInv
  <2> QED
    BY <2>5, <2>6
<1> QED
  BY <1>3, <1>4

\* A transaction that lasts finds the tables as they were, and what else
\* moves, or begins none, says nothing.
LEMMA OthersContinue ==
    ASSUME ContinuityInv,
           \/ tx' = None
           \/ UNCHANGED <<tx, presence, open>>
    PROVE  ContinuityInv'
<1>1. CASE tx' = None
  BY <1>1 DEF ContinuityInv
<1>2. CASE UNCHANGED <<tx, presence, open>>
  BY <1>2 DEF ContinuityInv, Alike, Unbroken
<1> QED
  BY <1>1, <1>2

LEMMA ContinuityStep ==
    ASSUME IInv, ContinuityInv, [Next]_vars
    PROVE  ContinuityInv'
<1>1. ASSUME NEW env \in Requests, Receive(env)
      PROVE  ContinuityInv'
  <2>1. CASE Begin(env)
    BY <2>1, BeginContinues
  <2>2. CASE BeginFails(env) \/ Replay(env)
    BY <2>2, OthersContinue DEF BeginFails, Replay, tables
  <2> QED
    BY <1>1, <2>1, <2>2 DEF Receive
<1>2. CASE ApplyEvent
  BY <1>2, ApplyContinues
<1>3. CASE ApplyFails \/ Abort \/ Commit
  BY <1>3, OthersContinue DEF ApplyFails, Abort, Commit
<1>4. CASE SweepClose
  BY <1>4, OthersContinue DEF SweepClose
<1>5. CASE SweepSelect \/ SweepSkip \/ SweepFails \/ Tick \/ StepBack
  BY <1>5, OthersContinue DEF SweepSelect, SweepSkip, SweepFails, Tick, StepBack, tables
<1>6. CASE UNCHANGED vars
  BY <1>6, OthersContinue DEF vars
<1> QED
  BY <1>1, <1>2, <1>3, <1>4, <1>5, <1>6 DEF Next, Internal

\* A report continues the open interval exactly when its lease had not run
\* out and no event of it changes the activity; otherwise the idle time, and
\* with it the grace period of the leaderboard, starts at the report.
THEOREM IdleIsContinuous == ASSUME ~ClockMayStepBack
                            PROVE  Spec => IdleContinuity
<1>1. Init => ContinuityInv
  BY DEF Init, ContinuityInv
<1>2. IInv /\ ContinuityInv /\ [Next]_vars => ContinuityInv'
  BY ContinuityStep
<1>3. ASSUME IInv, ContinuityInv, [Next]_vars, NEW r \in receipts' \ receipts
      PROVE  open'.start = IF Unbroken(r.env, r.at) THEN open.start ELSE r.at
  <2>1. CASE Commit
    <3>1. /\ tx # None /\ tx \in Transaction /\ TransactionOK(tx)
          /\ tx.done = Len(tx.env.events) /\ tx.env \in Envelope
      BY <1>3, <2>1 DEF Commit, IInv, TypeOK, TransactionInv, Transaction
    <3>2. /\ open' = tx.open
          /\ receipts' = Kept \cup {[gen |-> tx.gen, env |-> tx.env, at |-> tx.at,
                                     lease |-> Lease(tx.at)]}
      BY <2>1 DEF Commit
    <3>3. Kept \subseteq receipts
      BY DEF Kept
    <3>4. r = [gen |-> tx.gen, env |-> tx.env, at |-> tx.at, lease |-> Lease(tx.at)]
      BY <3>2, <3>3
    <3>5. r.env = tx.env /\ r.at = tx.at
      BY <3>4
    <3>6. ~tx.reopen /\ (tx.broken => tx.open.start = tx.at)
      BY <3>1, EventType DEF TransactionOK, WorkingInterval
    <3>7. CASE tx.broken
      BY <1>3, <3>1, <3>2, <3>5, <3>6, <3>7 DEF ContinuityInv
    <3>8. CASE ~tx.broken
      <4>1. Unbroken(tx.env, tx.at) <=> Alike(tx.env, open, tx.done)
        BY <1>3, <3>1, <3>8 DEF ContinuityInv, Unbroken, Alike
      <4> QED
        BY <1>3, <3>1, <3>2, <3>5, <3>8, <4>1 DEF ContinuityInv
    <3> QED
      BY <3>7, <3>8
  <2>2. CASE ~Commit
    <3>1. receipts' = receipts
      <4>1. CASE Internal
        BY <4>1 DEF Internal, ApplyEvent, ApplyFails, Abort, SweepSelect, SweepClose,
                    SweepSkip, SweepFails, Tick, StepBack, tables
      <4>2. CASE \E env \in Requests : Receive(env)
        BY <4>2 DEF Receive, Begin, BeginFails, Replay, tables
      <4> QED
        BY <1>3, <2>2, <4>1, <4>2 DEF Next, vars
    <3> QED
      BY <1>3, <3>1
  <2> QED
    BY <2>1, <2>2
<1>4. IInv /\ ContinuityInv /\ [Next]_vars =>
         [\A r \in receipts' \ receipts :
             open'.start = IF Unbroken(r.env, r.at) THEN open.start ELSE r.at]_vars
  BY <1>3
<1> QED
  BY <1>1, <1>2, <1>4, Consistent, PTL DEF Spec, IdleContinuity

-----------------------------------------------------------------------------
(***************************************************************************)
(* What holds however the database clock moves: a fenced boot stays        *)
(* fenced, history is only added to, the receipts tile the accepted        *)
(* sequences of the current boot, and an acknowledged report has one       *)
(* acknowledgement for ever.                                               *)
(***************************************************************************)

-----------------------------------------------------------------------------
(***************************************************************************)
(* The inductive invariant.                                                *)
(***************************************************************************)

\* The current boot is not fenced, and a fenced boot is on record.
FenceInv ==
    /\ head.boot # None => Known(head.boot) /\ ~boots[head.boot].fenced
    /\ \A b \in Boot : boots[b].fenced => Known(b)

\* The receipts belong to the current boot and lie below its next sequence.
ReceiptInv ==
    /\ \A r \in receipts :
         /\ r.gen = head.gen /\ r.env.boot = head.boot
         /\ head.boot # None
         /\ r.env.prev = boots[head.boot].prev
         /\ LastSequence(r.env) < boots[head.boot].next
    /\ \A r, q \in receipts : \/ r = q
                              \/ LastSequence(r.env) < q.env.first
                              \/ LastSequence(q.env) < r.env.first
    /\ head.boot # None =>
         /\ boots[head.boot].gen = head.gen
         /\ \A n \in 1..(boots[head.boot].next - 1) :
              \E r \in receipts : r.env.first <= n /\ n <= LastSequence(r.env)

\* An acknowledged report is of a boot on record, and of the current boot it
\* still has its receipt.
AckInv ==
    /\ \A a \in acks : Known(a.env.boot)
    /\ \A a \in acks : a.env.boot = head.boot =>
         \E r \in receipts : r.env = a.env /\ r.at = a.at /\ r.lease = a.lease
    /\ \A a, b \in acks : a.env = b.env => a = b

\* The open transaction either succeeds the current boot with one that is not
\* on record, or continues it where it stands.
FrameInv ==
    tx # None =>
      /\ closed \subseteq tx.closed
      /\ head.last <= tx.at
      /\ IF tx.isNew
         THEN /\ ~Known(tx.env.boot) /\ tx.env.boot # head.boot
              /\ tx.env.first = 1 /\ tx.gen = head.gen + 1
         ELSE /\ tx.env.boot = head.boot /\ tx.env.prev = boots[head.boot].prev
              /\ tx.env.first = boots[head.boot].next /\ tx.gen = head.gen

FInv == TypeInv /\ FenceInv /\ ReceiptInv /\ AckInv /\ FrameInv

-----------------------------------------------------------------------------
(***************************************************************************)
(* One lemma per action that writes something the invariant reads.         *)
(***************************************************************************)

\* The parts of the invariant that the open transaction does not enter.
LEMMA TablesUnchanged ==
    ASSUME FInv, UNCHANGED <<head, boots, receipts, acks>>
    PROVE  FenceInv' /\ ReceiptInv' /\ AckInv'
<1>1. FenceInv' /\ ReceiptInv'
  BY DEF FInv, FenceInv, ReceiptInv, Known, LastSequence
<1>2. AckInv'
  BY DEF FInv, AckInv, Known
<1> QED
  BY <1>1, <1>2

LEMMA QuietFencing ==
    ASSUME FInv, TypeInv', UNCHANGED <<head, boots, receipts, acks>>,
           tx' = None \/ (tx' = tx /\ closed' = closed)
    PROVE  FInv'
<1>1. FrameInv'
  BY DEF FInv, FrameInv, Known
<1> QED
  BY <1>1, TablesUnchanged DEF FInv

LEMMA BeginFencing ==
    ASSUME FInv, TypeInv', NEW env \in Envelope, Begin(env)
    PROVE  FInv'
<1>1. /\ tx' = Prepared(env) /\ UNCHANGED <<head, boots, receipts, acks, closed>>
      /\ Opens(env) \/ Continues(env)
  BY DEF Begin, tables, Accepts
<1>2. /\ tx'.env = env /\ tx'.at = ReceivedAt /\ tx'.isNew = Opens(env)
      /\ tx'.gen = IF Opens(env) THEN head.gen + 1 ELSE head.gen
      /\ closed \subseteq tx'.closed
  BY <1>1 DEF Prepared
<1>3. head.last <= ReceivedAt
  BY DEF ReceivedAt, Max2, FInv, TypeInv, TypeOK
<1>4. FrameInv'
  <2>1. CASE Opens(env)
    BY <1>1, <1>2, <1>3, <2>1 DEF FrameInv, Opens, Known
  <2>2. CASE ~Opens(env)
    BY <1>1, <1>2, <1>3, <2>2 DEF FrameInv, Continues, Established
  <2> QED
    BY <2>1, <2>2
<1> QED
  BY <1>1, <1>4, TablesUnchanged DEF FInv

LEMMA ApplyFencing ==
    ASSUME FInv, TypeInv', ApplyEvent
    PROVE  FInv'
<1>1. UNCHANGED <<head, boots, receipts, acks, closed>> /\ Applying
  BY DEF ApplyEvent, tables
<1>2. tx \in Transaction /\ tx # None
  BY <1>1 DEF FInv, TypeInv, TypeOK, Applying
<1>3. /\ tx'.env = tx.env /\ tx'.at = tx.at /\ tx'.gen = tx.gen
      /\ tx'.isNew = tx.isNew /\ tx'.closed = ClosedAfter
  BY <1>2 DEF ApplyEvent, Transaction
<1>4. tx.closed \subseteq ClosedAfter
  BY DEF ClosedAfter
<1>5. FrameInv'
  BY <1>1, <1>2, <1>3, <1>4 DEF FInv, FrameInv, Known
<1> QED
  BY <1>1, <1>5, TablesUnchanged DEF FInv

\* Two receipts of the current boot over the same sequences are one.
LEMMA OneReceipt ==
    ASSUME TypeOK, ReceiptInv, NEW r \in receipts, NEW q \in receipts,
           r.env.first = q.env.first
    PROVE  r = q
<1>1. r.env \in Envelope /\ q.env \in Envelope
  BY DEF TypeOK, Receipt
<1>2. /\ r.env.first \in Nat /\ Len(r.env.events) \in Nat \ {0}
      /\ q.env.first \in Nat /\ Len(q.env.events) \in Nat \ {0}
  BY <1>1, EventType DEF Envelope
<1>3. r.env.first <= LastSequence(r.env) /\ q.env.first <= LastSequence(q.env)
  BY <1>2 DEF LastSequence
<1>4. LastSequence(r.env) \in Nat /\ LastSequence(q.env) \in Nat
  BY <1>2 DEF LastSequence
<1>5. \/ r = q
      \/ LastSequence(r.env) < q.env.first
      \/ LastSequence(q.env) < r.env.first
  BY DEF ReceiptInv
<1> QED
  BY <1>2, <1>3, <1>4, <1>5

LEMMA ReplayFencing ==
    ASSUME FInv, TypeInv', NEW env \in Envelope, Replay(env)
    PROVE  FInv'
<1>1. UNCHANGED <<head, boots, receipts, closed>> /\ tx' = tx /\ Replays(env)
  BY DEF Replay, tables
<1>2. PICK r \in ReceiptsOf(env) :
        acks' = acks \cup {[env |-> env, at |-> r.at, lease |-> r.lease]}
  BY DEF Replay
<1>3. PICK q \in ReceiptsOf(env) : q.env = env
  BY <1>1 DEF Replays
<1>4. r \in receipts /\ q \in receipts /\ r.env.first = q.env.first
  BY DEF ReceiptsOf
<1>5. r = q
  BY <1>4, OneReceipt DEF FInv, TypeInv
<1>6. env.boot = head.boot /\ env.boot \in Boot /\ env \in Envelope
  BY <1>1 DEF Replays, Established, Envelope
<1> DEFINE ack == [env |-> env, at |-> r.at, lease |-> r.lease]
<1>7. ack.env = env /\ ack.at = r.at /\ ack.lease = r.lease
  OBVIOUS
<1>8. \A a \in acks' : a \in acks \/ a = ack
  BY <1>2
<1> HIDE DEF ack
<1>9. Known(env.boot)
  BY <1>6, NoneAssumption DEF FInv, FenceInv
<1>10. \A a \in acks : a.env = env => a = ack
  <2> SUFFICES ASSUME NEW a \in acks, a.env = env
               PROVE  a = ack
    OBVIOUS
  <2>1. PICK p \in receipts : p.env = a.env /\ p.at = a.at /\ p.lease = a.lease
    BY <1>6 DEF FInv, AckInv
  <2>2. p = r
    BY <1>3, <1>4, <1>5, <2>1, OneReceipt DEF FInv, TypeInv
  <2>3. a \in [env : Envelope, at : Nat, lease : Nat]
    BY DEF FInv, TypeInv, TypeOK, Ack
  <2> QED
    BY <2>1, <2>2, <2>3 DEF ack
<1>11. AckInv'
  <2>1. \A a \in acks' : Known(a.env.boot)'
    BY <1>1, <1>7, <1>8, <1>9 DEF FInv, AckInv, Known
  <2>2. \A a \in acks' : a.env.boot = head'.boot =>
          \E p \in receipts' : p.env = a.env /\ p.at = a.at /\ p.lease = a.lease
    BY <1>1, <1>3, <1>4, <1>5, <1>7, <1>8 DEF FInv, AckInv
  <2>3. \A a, b \in acks' : a.env = b.env => a = b
    BY <1>7, <1>8, <1>10 DEF FInv, AckInv
  <2> QED
    BY <2>1, <2>2, <2>3 DEF AckInv
<1>12. FenceInv' /\ ReceiptInv' /\ FrameInv'
  BY <1>1 DEF FInv, FenceInv, ReceiptInv, FrameInv, Known, LastSequence
<1> QED
  BY <1>11, <1>12 DEF FInv

\* What a committing transaction brings with it.
LEMMA CommitFacts ==
    ASSUME FInv, Commit
    PROVE  /\ tx \in Transaction /\ tx # None
           /\ tx.env \in Envelope /\ tx.env.boot \in Boot /\ tx.env.first \in Nat \ {0}
           /\ LastSequence(tx.env) \in Nat /\ tx.env.first <= LastSequence(tx.env)
           /\ tx.gen \in Nat \ {0}
<1>1. tx \in Transaction /\ tx # None
  BY DEF Commit, FInv, TypeInv, TypeOK
<1>2. tx.env \in Envelope /\ tx.gen \in Nat
  BY <1>1 DEF Transaction
<1>3. tx.env.boot \in Boot /\ tx.env.first \in Nat \ {0} /\ Len(tx.env.events) \in Nat \ {0}
  BY <1>2, EventType DEF Envelope
<1>4. LastSequence(tx.env) \in Nat /\ tx.env.first <= LastSequence(tx.env)
  BY <1>3 DEF LastSequence
<1>5. tx.gen # 0
  <2>1. head.gen \in Nat
    BY DEF FInv, TypeInv, TypeOK
  <2>2. ~tx.isNew => head.boot # None /\ boots[head.boot].gen = head.gen
    BY <1>1, <1>3, NoneAssumption DEF FInv, FrameInv, ReceiptInv
  <2> QED
    BY <1>1, <2>1, <2>2 DEF FInv, FrameInv, FenceInv, Known
<1> QED
  BY <1>1, <1>2, <1>3, <1>4, <1>5

\* The boots after a commit, row by row.
LEMMA CommitBoots ==
    ASSUME FInv, Commit
    PROVE  /\ boots'[tx.env.boot].gen = tx.gen
           /\ boots'[tx.env.boot].prev = tx.env.prev
           /\ boots'[tx.env.boot].next = LastSequence(tx.env) + 1
           /\ ~boots'[tx.env.boot].fenced
           /\ \A b \in Boot \ {tx.env.boot} :
                /\ boots'[b].gen = boots[b].gen
                /\ ~(tx.isNew /\ b = head.boot) => boots'[b] = boots[b]
                /\ boots'[b].fenced => boots[b].fenced \/ b = head.boot
<1>1. tx.env.boot \in Boot /\ boots' = BootsAfter
  BY CommitFacts DEF Commit
<1>2. \A b \in Boot : boots[b] \in BootRow
  BY DEF FInv, TypeInv, TypeOK
<1>3. \A b \in Boot \ {tx.env.boot} :
         boots'[b] = IF tx.isNew /\ b = head.boot
                     THEN [boots[b] EXCEPT !.fenced = TRUE] ELSE boots[b]
  BY <1>1 DEF BootsAfter
<1>4. boots'[tx.env.boot] = [gen |-> tx.gen, prev |-> tx.env.prev,
                             next |-> LastSequence(tx.env) + 1, fenced |-> FALSE]
  BY <1>1 DEF BootsAfter
<1>5. \A row \in BootRow : [row EXCEPT !.fenced = TRUE].gen = row.gen
  BY DEF BootRow
<1>6. \A b \in Boot \ {tx.env.boot} :
         /\ boots'[b].gen = boots[b].gen
         /\ ~(tx.isNew /\ b = head.boot) => boots'[b] = boots[b]
         /\ boots'[b].fenced => boots[b].fenced \/ b = head.boot
  BY <1>2, <1>3, <1>5
<1> QED
  BY <1>4, <1>6

LEMMA CommitFencing ==
    ASSUME FInv, TypeInv', Commit
    PROVE  FInv'
<1> DEFINE r == [gen |-> tx.gen, env |-> tx.env, at |-> tx.at, lease |-> Lease(tx.at)]
           ack == [env |-> tx.env, at |-> tx.at, lease |-> Lease(tx.at)]
<1>1. /\ head'.boot = tx.env.boot /\ head'.gen = tx.gen
      /\ receipts' = Kept \cup {r} /\ acks' = acks \cup {ack} /\ tx' = None
  BY DEF Commit
<1>2. /\ r.gen = tx.gen /\ r.env = tx.env /\ r.at = tx.at /\ r.lease = Lease(tx.at)
      /\ ack.env = tx.env /\ ack.at = tx.at /\ ack.lease = Lease(tx.at)
  OBVIOUS
<1> HIDE DEF r, ack
<1>3. head'.boot # None
  BY <1>1, CommitFacts, NoneAssumption
<1>4. FenceInv'
  <2>1. Known(head.boot)' /\ ~boots'[head'.boot].fenced
    BY <1>1, CommitFacts, CommitBoots DEF Known
  <2> SUFFICES ASSUME NEW b \in Boot, boots'[b].fenced
               PROVE  boots'[b].gen # 0
    BY <2>1 DEF FenceInv, Known
  <2>2. CASE b = tx.env.boot
    BY <2>2, CommitBoots
  <2>3. CASE b # tx.env.boot
    BY <2>3, CommitBoots, NoneAssumption DEF FInv, FenceInv, Known
  <2> QED
    BY <2>2, <2>3
<1>5. FrameInv'
  BY <1>1 DEF FrameInv
<1>6. CASE tx.isNew
  <2>1. Kept = {}
    BY <1>6 DEF Kept, FInv, ReceiptInv
  <2>2. /\ ~Known(tx.env.boot) /\ tx.env.first = 1
    BY <1>6, CommitFacts DEF FInv, FrameInv
  <2>3. \A p \in receipts' : p = r
    BY <1>1, <2>1
  <2>4. ReceiptInv'
    <3>1. \A p \in receipts' :
            /\ p.gen = head'.gen /\ p.env.boot = head'.boot
            /\ p.env.prev = boots'[head'.boot].prev
            /\ LastSequence(p.env) < boots'[head'.boot].next
      BY <1>1, <1>2, <2>3, CommitFacts, CommitBoots
    <3>2. \A n \in 1..(boots'[head'.boot].next - 1) :
            \E p \in receipts' : p.env.first <= n /\ n <= LastSequence(p.env)
      BY <1>1, <1>2, <2>2, CommitFacts, CommitBoots
    <3> QED
      BY <1>1, <1>3, <2>3, <3>1, <3>2, CommitBoots DEF ReceiptInv, LastSequence
  <2>5. AckInv'
    <3>1. \A a \in acks : a.env.boot # tx.env.boot
      BY <2>2 DEF FInv, AckInv
    <3>2. \A a \in acks' : a \in acks \/ a = ack
      BY <1>1
    <3>3. r \in receipts'
      BY <1>1
    <3>4. \A a \in acks' : Known(a.env.boot)'
      <4> SUFFICES ASSUME NEW a \in acks'
                   PROVE  boots'[a.env.boot].gen # 0
        BY DEF Known
      <4>1. a.env.boot \in Boot
        BY DEF TypeInv, TypeOK, Ack, Envelope
      <4>2. CASE a = ack
        BY <1>2, <4>2, CommitBoots, CommitFacts
      <4>3. CASE a \in acks
        BY <4>1, <4>3, <3>1, CommitBoots DEF FInv, AckInv, Known
      <4> QED
        BY <3>2, <4>2, <4>3
    <3>5. \A a \in acks' : a.env.boot = head'.boot =>
            \E p \in receipts' : p.env = a.env /\ p.at = a.at /\ p.lease = a.lease
      BY <1>1, <1>2, <3>1, <3>2, <3>3
    <3>6. \A a, b \in acks' : a.env = b.env => a = b
      BY <1>2, <3>1, <3>2 DEF FInv, AckInv
    <3> QED
      BY <3>4, <3>5, <3>6 DEF AckInv
  <2> QED
    BY <1>4, <1>5, <2>4, <2>5 DEF FInv
<1>7. CASE ~tx.isNew
  <2>1. /\ tx.env.boot = head.boot /\ tx.env.prev = boots[head.boot].prev
        /\ tx.env.first = boots[head.boot].next /\ tx.gen = head.gen
    BY <1>7, CommitFacts DEF FInv, FrameInv
  <2>2. head.boot # None
    BY <2>1, CommitFacts, NoneAssumption
  <2>3. receipts' = receipts \cup {r}
    BY <1>1, <1>7 DEF Kept
  <2>4. \A p \in receipts : /\ p.gen = head.gen /\ p.env.boot = head.boot
                            /\ p.env.prev = tx.env.prev
                            /\ LastSequence(p.env) \in Nat
                            /\ LastSequence(p.env) < tx.env.first
    <3> SUFFICES ASSUME NEW p \in receipts
                 PROVE  LastSequence(p.env) \in Nat
      BY <2>1 DEF FInv, ReceiptInv
    <3> QED
      BY EventType DEF FInv, TypeInv, TypeOK, Receipt
  <2>5. ReceiptInv'
    <3>1. \A p \in receipts' :
            /\ p.gen = head'.gen /\ p.env.boot = head'.boot
            /\ p.env.prev = boots'[head'.boot].prev
            /\ LastSequence(p.env) < boots'[head'.boot].next
      BY <1>1, <1>2, <2>1, <2>3, <2>4, CommitFacts, CommitBoots
    <3>2. \A p, q \in receipts' : \/ p = q
                                  \/ LastSequence(p.env) < q.env.first
                                  \/ LastSequence(q.env) < p.env.first
      BY <1>2, <2>3, <2>4 DEF FInv, ReceiptInv
    <3>3. \A n \in 1..(boots'[head'.boot].next - 1) :
            \E p \in receipts' : p.env.first <= n /\ n <= LastSequence(p.env)
      <4> SUFFICES ASSUME NEW n \in 1..(boots'[head'.boot].next - 1)
                   PROVE  \E p \in receipts' : p.env.first <= n /\ n <= LastSequence(p.env)
        OBVIOUS
      <4>1. n \in Nat /\ 1 <= n /\ n <= LastSequence(tx.env)
        BY <1>1, CommitBoots, CommitFacts
      <4>2. CASE n < tx.env.first
        BY <4>1, <4>2, <2>1, <2>2, <2>3, CommitFacts DEF FInv, ReceiptInv
      <4>3. CASE tx.env.first <= n
        BY <1>2, <2>3, <4>1, <4>3
      <4> QED
        BY <4>1, <4>2, <4>3, CommitFacts
    <3> QED
      BY <1>1, <1>3, <3>1, <3>2, <3>3, CommitBoots DEF ReceiptInv, LastSequence
  <2>6. AckInv'
    <3>1. \A a \in acks : a.env # tx.env
      BY <2>1, <2>4, CommitFacts DEF FInv, AckInv
    <3>2. \A a \in acks' : a \in acks \/ a = ack
      BY <1>1
    <3>3. \A a \in acks' : Known(a.env.boot)'
      <4> SUFFICES ASSUME NEW a \in acks'
                   PROVE  boots'[a.env.boot].gen # 0
        BY DEF Known
      <4>1. a.env.boot \in Boot
        BY DEF TypeInv, TypeOK, Ack, Envelope
      <4>2. CASE a.env.boot = tx.env.boot
        BY <4>2, CommitBoots, CommitFacts
      <4>3. CASE a.env.boot # tx.env.boot
        BY <1>2, <3>2, <4>1, <4>3, CommitBoots DEF FInv, AckInv, Known
      <4> QED
        BY <4>2, <4>3
    <3>4. \A a \in acks' : a.env.boot = head'.boot =>
            \E p \in receipts' : p.env = a.env /\ p.at = a.at /\ p.lease = a.lease
      <4> SUFFICES ASSUME NEW a \in acks', a.env.boot = head'.boot
                   PROVE  \E p \in receipts' : p.env = a.env /\ p.at = a.at /\ p.lease = a.lease
        OBVIOUS
      <4>1. CASE a \in acks
        BY <1>1, <2>1, <2>3, <4>1 DEF FInv, AckInv
      <4>2. CASE a = ack
        BY <1>2, <2>3, <4>2
      <4> QED
        BY <3>2, <4>1, <4>2
    <3>5. \A a, b \in acks' : a.env = b.env => a = b
      BY <1>2, <3>1, <3>2 DEF FInv, AckInv
    <3> QED
      BY <3>3, <3>4, <3>5 DEF AckInv
  <2> QED
    BY <1>4, <1>5, <2>5, <2>6 DEF FInv
<1> QED
  BY <1>6, <1>7, CommitFacts DEF Transaction

LEMMA FencingInit == Init => FInv
<1> SUFFICES ASSUME Init
             PROVE  FInv
  OBVIOUS
<1>1. TypeInv
  BY TypeInit
<1> QED
  BY <1>1 DEF Init, FInv, FenceInv, ReceiptInv, AckInv, FrameInv

LEMMA FencingStep == FInv /\ TypeInv' /\ [AnyReport]_vars => FInv'
<1> SUFFICES ASSUME FInv, TypeInv', [AnyReport]_vars
             PROVE  FInv'
  OBVIOUS
<1>1. ASSUME NEW env \in Envelope, Begin(env)
      PROVE  FInv'
  BY <1>1, BeginFencing
<1>2. ASSUME NEW env \in Envelope, BeginFails(env)
      PROVE  FInv'
  BY <1>2, QuietFencing DEF BeginFails, tables
<1>3. ASSUME NEW env \in Envelope, Replay(env)
      PROVE  FInv'
  BY <1>3, ReplayFencing
<1>4. CASE ApplyEvent
  BY <1>4, ApplyFencing
<1>5. CASE ApplyFails \/ Abort
  BY <1>5, QuietFencing DEF ApplyFails, Abort, tables
<1>6. CASE Commit
  BY <1>6, CommitFencing
<1>7. CASE SweepSelect \/ SweepSkip \/ SweepFails
  BY <1>7, QuietFencing DEF SweepSelect, SweepSkip, SweepFails, tables
<1>8. CASE SweepClose
  BY <1>8, QuietFencing DEF SweepClose
<1>9. CASE Tick \/ StepBack
  BY <1>9, QuietFencing DEF Tick, StepBack, tables
<1>10. CASE UNCHANGED vars
  BY <1>10, QuietFencing DEF vars, tables
<1> QED
  BY <1>1, <1>2, <1>3, <1>4, <1>5, <1>6, <1>7, <1>8, <1>9, <1>10
     DEF AnyReport, Internal, Receive

-----------------------------------------------------------------------------
(***************************************************************************)
(* The theorems.                                                           *)
(***************************************************************************)

LEMMA Fencing == Spec => []FInv
<1>1. FInv => TypeInv
  BY DEF FInv
<1>2. FInv /\ [Next]_vars => FInv'
  BY <1>1, TypeStep, FencingStep, RequestsAreReports
<1> QED
  BY FencingInit, <1>2, PTL DEF Spec

\* The receipts of the current boot tile what it has accepted, and a fenced
\* boot has left none that could answer a replay.
THEOREM ReceiptsTile == Spec => []ReceiptsTileAccepted
<1>1. FInv => ReceiptsTileAccepted
  BY DEF FInv, ReceiptInv, ReceiptsTileAccepted
<1> QED
  BY <1>1, Fencing, PTL

\* While its boot is current, a report that was acknowledged is recognised when it is
\* repeated.
LEMMA AckedReplays ==
    ASSUME FInv, NEW a \in acks, a.env.boot = head.boot
    PROVE  Replays(a.env)
<1>1. PICK r \in receipts : r.env = a.env
  BY DEF FInv, AckInv
<1>2. /\ r.gen = head.gen /\ r.env.prev = boots[head.boot].prev
      /\ LastSequence(r.env) < boots[head.boot].next
      /\ boots[head.boot].gen = head.gen
  BY <1>1 DEF FInv, ReceiptInv
<1>3. a.env.first \in Nat /\ LastSequence(a.env) \in Nat
      /\ a.env.first <= LastSequence(a.env)
  <2>1. a.env \in Envelope
    BY DEF FInv, TypeInv, TypeOK, Ack
  <2>2. a.env.first \in Nat /\ Len(a.env.events) \in Nat \ {0}
    BY <2>1, EventType DEF Envelope
  <2> QED
    BY <2>2 DEF LastSequence
<1>4. boots[head.boot].next \in Nat
  <2>1. a.env.boot \in Boot
    BY DEF FInv, TypeInv, TypeOK, Ack, Envelope
  <2> QED
    BY <2>1 DEF FInv, TypeInv, TypeOK, BootRow
<1>5. a.env.first < boots[head.boot].next
  BY <1>1, <1>2, <1>3, <1>4
<1>6. r \in ReceiptsOf(a.env)
  BY <1>1, <1>2 DEF ReceiptsOf
<1> QED
  BY <1>1, <1>2, <1>5, <1>6 DEF Replays, Established

\* A report is acknowledged in one way only, and while its boot is current a
\* repeat of it is recognised as a replay.
THEOREM AcksFinal == Spec => []AcksAreFinal
<1>1. FInv => AcksAreFinal
  BY AckedReplays DEF FInv, AckInv, AcksAreFinal
<1> QED
  BY <1>1, Fencing, PTL

\* A fenced boot is frozen and never current again.
THEOREM Fenced == Spec => FencedForGood
<1>1. ASSUME FInv, [Next]_vars, NEW b \in Boot, boots[b].fenced
      PROVE  boots'[b] = boots[b] /\ head'.boot # b
  <2>1. b # head.boot /\ Known(b)
    BY <1>1, NoneAssumption DEF FInv, FenceInv
  <2>2. CASE Commit
    <3>1. b # tx.env.boot
      BY <1>1, <2>1, <2>2, CommitFacts DEF FInv, FrameInv
    <3>2. head'.boot = tx.env.boot
      BY <2>2 DEF Commit
    <3> QED
      BY <1>1, <2>1, <2>2, <3>1, <3>2, CommitBoots
  <2>3. CASE UNCHANGED <<boots, head>>
    BY <2>1, <2>3
  <2>4. Commit \/ UNCHANGED <<boots, head>>
    BY <1>1 DEF Next, Internal, Receive, Begin, BeginFails, Replay, ApplyEvent, ApplyFails,
                Abort, SweepSelect, SweepClose, SweepSkip, SweepFails, Tick, StepBack,
                vars, tables
  <2> QED
    BY <2>2, <2>3, <2>4
<1>2. FInv /\ [Next]_vars =>
        [\A b \in Boot : boots[b].fenced => boots'[b] = boots[b] /\ head'.boot # b]_vars
  BY <1>1
<1> QED
  BY <1>2, Fencing, PTL DEF Spec, FencedForGood

\* Ended intervals are kept as they are, and server time never runs back.
THEOREM HistoryKept == Spec => HistoryIsImmutable
<1>1. ASSUME FInv, [Next]_vars
      PROVE  closed \subseteq closed' /\ head.last <= head'.last
  <2>1. head.last \in Nat
    BY <1>1 DEF FInv, TypeInv, TypeOK
  <2>2. CASE Commit
    BY <1>1, <2>2 DEF FInv, FrameInv, Commit
  <2>3. CASE SweepClose
    BY <2>1, <2>3 DEF SweepClose
  <2>4. CASE UNCHANGED <<closed, head>>
    BY <2>1, <2>4
  <2>5. Commit \/ SweepClose \/ UNCHANGED <<closed, head>>
    BY <1>1 DEF Next, Internal, Receive, Begin, BeginFails, Replay, ApplyEvent, ApplyFails,
                Abort, SweepSelect, SweepSkip, SweepFails, Tick, StepBack,
                vars, tables
  <2> QED
    BY <2>2, <2>3, <2>4, <2>5
<1>2. FInv /\ [Next]_vars => [closed \subseteq closed' /\ head.last <= head'.last]_vars
  BY <1>1
<1> QED
  BY <1>2, Fencing, PTL DEF Spec, HistoryIsImmutable

-----------------------------------------------------------------------------
(***************************************************************************)
(* Delivery.                                                               *)
(***************************************************************************)
(***************************************************************************)
(* The inductive invariant.                                                *)
(***************************************************************************)

\* Committed by the server at some time.
Taken(env) == \E a \in acks : a.env = env

\* The reporter sends one event at a time.
Single(env) == env \in Envelope /\ Len(env.events) = 1

\* The last report of the current boot is this one.
IsLast(env) ==
    /\ env.boot = head.boot
    /\ env.prev = boots[head.boot].prev
    /\ LastSequence(env) + 1 = boots[head.boot].next

\* The server, as far as it concerns reports that are sent once: what is under way is
\* the outbox or has been taken, and an open transaction is about the outbox.
WireInv ==
    /\ \A e \in net : Single(e) /\ (e = outbox \/ Taken(e))
    /\ \A a \in acks : Single(a.env)
    /\ \A b \in Boot : Known(b) => b \in drawn
    /\ tx # None => outbox # None /\ tx.env = outbox /\ ~Taken(outbox)

\* The two files: without an outbox the connection names the current boot; the outbox
\* is the last report that was taken, or the next one the server takes.
FilesInv ==
    /\ outbox = None => config = head.boot
    /\ outbox # None =>
          /\ Single(outbox) /\ outbox.boot \in drawn
          /\ IF Taken(outbox) THEN IsLast(outbox) ELSE Opens(outbox) \/ Continues(outbox)

\* What has been issued and not applied is the event in the outbox, if anything.
FeedInv ==
    issued = IF outbox # None /\ ~Taken(outbox)
             THEN Append(applied, outbox.events[1]) ELSE applied

\* The reporter in memory is that of the outbox; without one it continues the current
\* boot, if the server has confirmed it, or succeeds it with a boot nobody knows.
EdgeInv ==
    edge # None =>
       /\ edge.pending = outbox
       /\ edge.boot \in drawn
       /\ outbox # None => edge.boot = outbox.boot /\ edge.prev = outbox.prev
       /\ outbox = None /\ edge.established =>
             /\ edge.boot = head.boot
             /\ edge.prev = boots[head.boot].prev
             /\ edge.next = boots[head.boot].next
       /\ outbox = None /\ ~edge.established =>
             ~Known(edge.boot) /\ edge.prev = head.boot /\ edge.next = 1

\* Where the thread stands, and what it must still know there.
CallInv ==
    /\ call.stage = "down" => edge = None /\ latest = None
    /\ call.stage \in {"publish", "beat", "post", "clear"} => edge # None
    /\ call.stage \in {"post", "clear"} => outbox # None
    /\ call.stage = "publish" => latest # None /\ call.by # "heartbeat"
    /\ call.stage = "beat" => call.by = "heartbeat"
    /\ call.again => latest # None /\ call.by # "heartbeat"
    /\ call.stage \in {"publish", "post", "clear"} /\ call.by = "snapshot" => needs
    /\ call.stage = "clear" =>
          /\ config = edge.boot /\ edge.established
          /\ Taken(outbox) /\ edge.next = LastSequence(outbox) + 1
    /\ FreshBootIsAnnounced

DInv == FInv /\ DeliveryTypeOK /\ WireInv /\ FilesInv /\ FeedInv /\ EdgeInv /\ CallInv

-----------------------------------------------------------------------------
(***************************************************************************)
(* Reports that are sent once.                                             *)
(***************************************************************************)

LEMMA SingleFacts ==
    ASSUME NEW env, Single(env)
    PROVE  /\ env \in Envelope /\ env # None
           /\ env.boot \in Boot /\ env.prev \in BootOrNone /\ env.first \in Nat \ {0}
           /\ LastSequence(env) = env.first
           /\ env.events[1] \in Event /\ env.events = <<env.events[1]>>
<1>1. env \in Envelope /\ Len(env.events) = 1
  BY DEF Single
<1>2. /\ env.boot \in Boot /\ env.prev \in BootOrNone /\ env.first \in Nat \ {0}
      /\ env.events \in Seq(Event)
  BY <1>1 DEF Envelope
<1>3. LastSequence(env) = env.first
  BY <1>1, <1>2 DEF LastSequence
<1>4. env.events[1] \in Event /\ env.events = <<env.events[1]>>
  BY <1>1, <1>2
<1> QED
  BY <1>1, <1>2, <1>3, <1>4, AbsenceAssumption

\* A row of the boot table holds numbers.
LEMMA NextIsNumber ==
    ASSUME TypeOK, NEW b \in Boot
    PROVE  boots[b].next \in Nat \ {0}
BY DEF TypeOK, BootRow

\* What has been taken is neither the next of the current boot nor the first of another.
LEMMA TakenIsOver ==
    ASSUME FInv, NEW env, Single(env), Taken(env)
    PROVE  ~Opens(env) /\ ~Continues(env)
<1>1. PICK a \in acks : a.env = env
  BY DEF Taken
<1>2. Known(env.boot)
  BY <1>1 DEF FInv, AckInv
<1>3. ASSUME env.boot = head.boot
      PROVE  env.first < boots[head.boot].next
  <2>1. PICK r \in receipts : r.env = env
    BY <1>1, <1>3 DEF FInv, AckInv
  <2> QED
    BY <2>1, SingleFacts DEF FInv, ReceiptInv
<1>4. env.boot = head.boot => boots[head.boot].next \in Nat
  BY SingleFacts, NextIsNumber DEF FInv, TypeInv
<1> QED
  BY <1>2, <1>3, <1>4, SingleFacts DEF Opens, Continues, Established

\* An acknowledgement the reporter takes for its own is that of the outbox.
LEMMA AckIsOfOutbox ==
    ASSUME DInv, edge # None, outbox # None, NEW a \in acks, AckFits(a)
    PROVE  Taken(outbox) /\ edge.pending = outbox /\ edge.boot = outbox.boot
<1>1. edge.pending = outbox /\ edge.boot = outbox.boot
  BY DEF DInv, EdgeInv
<1>2. Single(outbox) /\ Single(a.env)
  BY DEF DInv, FilesInv, WireInv
<1>3. a.env.boot = outbox.boot /\ a.env.first = outbox.first
  BY <1>1, <1>2, SingleFacts DEF AckFits
<1>4. ~Opens(outbox)
  BY <1>3 DEF DInv, FInv, AckInv, Opens
<1>5. ~Continues(outbox)
  <2> SUFFICES ASSUME Continues(outbox)
               PROVE  FALSE
    OBVIOUS
  <2>1. PICK r \in receipts : r.env = a.env
    BY <1>3 DEF DInv, FInv, AckInv, Continues, Established
  <2>2. a.env.first < boots[head.boot].next
    BY <1>2, <2>1, SingleFacts DEF DInv, FInv, ReceiptInv
  <2>3. boots[head.boot].next \in Nat
    BY <1>2, <1>3, SingleFacts, NextIsNumber DEF DInv, FInv, TypeInv, Continues, Established
  <2> QED
    BY <1>2, <1>3, <2>2, <2>3, SingleFacts DEF Continues, Established
<1> QED
  BY <1>1, <1>4, <1>5 DEF DInv, FilesInv

-----------------------------------------------------------------------------
(***************************************************************************)
(* Steps of the server.                                                    *)
(***************************************************************************)

\* Whether a report is the next one, the last one or acknowledged is the server's to say.
LEMMA SameServer ==
    ASSUME UNCHANGED <<head, boots, acks>>
    PROVE  /\ \A env : /\ Taken(env)' <=> Taken(env)
                       /\ IsLast(env)' <=> IsLast(env)
                       /\ Opens(env)' <=> Opens(env)
                       /\ Continues(env)' <=> Continues(env)
           /\ \A b : Known(b)' <=> Known(b)
BY DEF Taken, IsLast, Opens, Continues, Established, Known, LastSequence

\* What the reporter and its files say of a server that stands still.
LEMMA ReporterUnchanged ==
    ASSUME DInv, UNCHANGED <<head, boots, acks, reporter, issued, applied>>
    PROVE  FilesInv' /\ FeedInv' /\ EdgeInv' /\ CallInv'
<1>1. FilesInv'
  BY SameServer DEF DInv, FilesInv, reporter, Single
<1>2. FeedInv'
  BY SameServer DEF DInv, FeedInv, reporter
<1>3. EdgeInv'
  BY SameServer DEF DInv, EdgeInv, reporter
<1>4. CallInv'
  BY SameServer DEF DInv, CallInv, reporter, FreshBootIsAnnounced, LastSequence
<1> QED
  BY <1>1, <1>2, <1>3, <1>4

LEMMA ServerQuiet ==
    ASSUME DInv, FInv', DeliveryTypeOK',
           UNCHANGED <<head, boots, acks, reporter, net, issued, applied>>,
           tx' = None \/ (tx # None /\ tx'.env = tx.env)
    PROVE  DInv'
<1>1. WireInv'
  BY SameServer DEF DInv, WireInv, reporter, Single
<1> QED
  BY <1>1, ReporterUnchanged DEF DInv

LEMMA InternalDelivery ==
    ASSUME DInv, FInv', DeliveryTypeOK', ServerRuns
    PROVE  DInv'
<1>1. UNCHANGED <<head, boots, acks, reporter, net, issued, applied>>
  BY DEF ServerRuns, Internal, ApplyEvent, ApplyFails, Abort, SweepSelect, SweepClose,
         SweepSkip, SweepFails, Tick, StepBack, tables
<1>2. tx' = None \/ (tx # None /\ tx'.env = tx.env)
  <2>1. CASE ApplyEvent
    BY <2>1 DEF ApplyEvent, Applying, DInv, FInv, TypeInv, TypeOK, Transaction
  <2>2. CASE ~ApplyEvent
    BY <2>2 DEF ServerRuns, Internal, ApplyFails, Abort, SweepSelect, SweepClose,
                SweepSkip, SweepFails, Tick, StepBack, tables
  <2> QED
    BY <2>1, <2>2
<1> QED
  BY <1>1, <1>2, ServerQuiet

\* A report that arrives late, or once more, is either the outbox, about which the server
\* may open a transaction, or one that is answered again with what it was answered with.
LEMMA ArriveDelivery ==
    ASSUME DInv, FInv', DeliveryTypeOK', NEW env \in net, Arrive(env)
    PROVE  DInv'
<1>1. Single(env) /\ (env = outbox \/ Taken(env))
  BY DEF DInv, WireInv
<1>2. UNCHANGED <<head, boots, reporter, net, issued, applied>>
  BY DEF Arrive, Receive, Begin, BeginFails, Replay, tables
<1>3. CASE Begin(env)
  <2>1. UNCHANGED acks /\ tx'.env = env /\ (Opens(env) \/ Continues(env))
    BY <1>3 DEF Begin, Prepared, Accepts, tables
  <2>2. ~Taken(env) /\ env = outbox /\ outbox # None
    BY <1>1, <2>1, TakenIsOver, SingleFacts DEF DInv
  <2>3. WireInv'
    BY <1>2, <2>1, <2>2, SameServer DEF DInv, WireInv, reporter, Single
  <2> QED
    BY <1>2, <2>1, <2>3, ReporterUnchanged DEF DInv
<1>4. CASE BeginFails(env)
  <2>1. UNCHANGED <<acks, tx>>
    BY <1>4 DEF BeginFails
  <2> QED
    BY <1>2, <2>1, ServerQuiet
<1>5. CASE Replay(env)
  <2>1. PICK r \in ReceiptsOf(env) :
          acks' = acks \cup {[env |-> env, at |-> r.at, lease |-> r.lease]}
    BY <1>5 DEF Replay
  <2>2. tx' = tx
    BY <1>5 DEF Replay
  <2>3. Taken(env)
    <3>1. env.boot = head.boot /\ env.first < boots[head.boot].next
      BY <1>5 DEF Replay, Replays, Established
    <3>2. ~Opens(env) /\ ~Continues(env)
      BY <1>1, <3>1, SingleFacts, NextIsNumber
         DEF DInv, FInv, TypeInv, Opens, Continues, Established
    <3> QED
      BY <1>1, <3>2, SingleFacts DEF DInv, FilesInv
  <2>4. \A e : Taken(e)' <=> Taken(e)
    <3> DEFINE ack == [env |-> env, at |-> r.at, lease |-> r.lease]
    <3>1. ack.env = env /\ acks' = acks \cup {ack}
      BY <2>1
    <3> HIDE DEF ack
    <3> QED
      BY <2>3, <3>1 DEF Taken
  <2>5. \A a \in acks' : Single(a.env)
    BY <1>1, <2>1 DEF DInv, WireInv
  <2>6. \A e : /\ IsLast(e)' <=> IsLast(e)
               /\ Opens(e)' <=> Opens(e)
               /\ Continues(e)' <=> Continues(e)
    BY <1>2 DEF IsLast, Opens, Continues, Established, Known, LastSequence
  <2>7. \A b : Known(b)' <=> Known(b)
    BY <1>2 DEF Known
  <2>8. WireInv'
    BY <1>2, <2>2, <2>4, <2>5, <2>7 DEF DInv, WireInv, reporter, Single
  <2>9. FilesInv'
    BY <1>2, <2>4, <2>6 DEF DInv, FilesInv, reporter, Single
  <2>10. FeedInv'
    BY <1>2, <2>4 DEF DInv, FeedInv, reporter
  <2>11. EdgeInv'
    BY <1>2, <2>7 DEF DInv, EdgeInv, reporter
  <2>12. CallInv'
    BY <1>2, <2>4 DEF DInv, CallInv, reporter, FreshBootIsAnnounced, LastSequence
  <2> QED
    BY <2>8, <2>9, <2>10, <2>11, <2>12 DEF DInv
<1> QED
  BY <1>3, <1>4, <1>5 DEF Arrive, Receive

\* The outbox is committed: it becomes the last report of the current boot, and its
\* event the last one applied.
LEMMA CommitDelivery ==
    ASSUME DInv, FInv', DeliveryTypeOK', ServerCommits
    PROVE  DInv' /\ issued = applied' /\ applied # issued
<1>1. /\ Commit /\ applied' = applied \o tx.env.events
      /\ UNCHANGED <<reporter, net, issued>>
  BY DEF ServerCommits
<1>2. tx # None /\ outbox # None /\ tx.env = outbox /\ ~Taken(outbox) /\ Single(outbox)
  BY <1>1 DEF Commit, DInv, WireInv, FilesInv
<1>3. tx' = None /\ outbox' = outbox /\ head'.boot = outbox.boot
  BY <1>1, <1>2 DEF Commit, reporter
<1>4. \A e : Taken(e)' <=> Taken(e) \/ e = outbox
  <2> DEFINE ack == [env |-> tx.env, at |-> tx.at, lease |-> Lease(tx.at)]
  <2>1. ack.env = outbox /\ acks' = acks \cup {ack}
    BY <1>1, <1>2 DEF Commit
  <2> HIDE DEF ack
  <2> QED
    BY <2>1 DEF Taken
<1>5. \A a \in acks' : Single(a.env)
  BY <1>1, <1>2 DEF DInv, WireInv, Commit
<1>6. \A b \in Boot : Known(b)' => Known(b) \/ b = outbox.boot
  BY <1>1, <1>2, CommitBoots DEF Known, DInv
<1>7. WireInv'
  BY <1>1, <1>2, <1>3, <1>4, <1>5, <1>6 DEF DInv, WireInv, FilesInv, reporter, Single
<1>8. IsLast(outbox)'
  BY <1>1, <1>2, <1>3, CommitBoots DEF IsLast, DInv, LastSequence
<1>9. FilesInv'
  BY <1>1, <1>2, <1>3, <1>4, <1>8 DEF DInv, FilesInv, reporter, Single
<1>10. applied' = Append(applied, outbox.events[1])
  <2>1. applied \in Seq(Event) /\ outbox.events[1] \in Event
    BY <1>2, SingleFacts DEF DInv, DeliveryTypeOK
  <2>2. applied' = applied \o <<outbox.events[1]>>
    BY <1>1, <1>2, SingleFacts
  <2> QED
    BY <2>1, <2>2
<1>11. issued = applied' /\ applied # issued
  <2>1. issued = Append(applied, outbox.events[1]) /\ applied \in Seq(Event)
    BY <1>2 DEF DInv, FeedInv, DeliveryTypeOK
  <2>2. Len(issued) = Len(applied) + 1 /\ Len(applied) \in Nat
    BY <1>2, <2>1, SingleFacts
  <2> QED
    BY <1>10, <2>1, <2>2
<1>12. FeedInv'
  BY <1>1, <1>3, <1>4, <1>11 DEF FeedInv
<1>13. EdgeInv'
  BY <1>1, <1>2, <1>3 DEF DInv, EdgeInv, reporter
<1>14. CallInv'
  BY <1>1, <1>2, <1>3, <1>4 DEF DInv, CallInv, reporter, FreshBootIsAnnounced, LastSequence
<1> QED
  BY <1>7, <1>9, <1>11, <1>12, <1>13, <1>14 DEF DInv

-----------------------------------------------------------------------------
(***************************************************************************)
(* Steps of the reporter.                                                  *)
(***************************************************************************)

\* The server does not move with the reporter.
LEMMA ServerStands ==
    ASSUME DInv, UNCHANGED vars
    PROVE  FInv' /\ TypeOK' /\ UNCHANGED <<head, boots, acks, tx>>
<1>1. UNCHANGED <<head, boots, acks, tx>>
  BY DEF vars
<1>2. TypeInv' /\ FInv'
  BY TypeStep, FencingStep DEF DInv, FInv
<1> QED
  BY <1>1, <1>2 DEF TypeInv

\* Steps that write neither file nor wire; boots may be drawn.
LEMMA FilesUnchanged ==
    ASSUME DInv, UNCHANGED <<vars, config, outbox, net, issued, applied>>,
           drawn \subseteq drawn'
    PROVE  WireInv' /\ FilesInv' /\ FeedInv'
<1>1. UNCHANGED <<head, boots, acks, tx>>
  BY DEF vars
<1>2. WireInv'
  BY <1>1, SameServer DEF DInv, WireInv, Single
<1>3. FilesInv'
  BY <1>1, SameServer DEF DInv, FilesInv, Single
<1>4. FeedInv'
  BY <1>1, SameServer DEF DInv, FeedInv
<1> QED
  BY <1>2, <1>3, <1>4

LEMMA EdgeUnchanged ==
    ASSUME DInv, UNCHANGED <<vars, edge, outbox>>, drawn \subseteq drawn'
    PROVE  EdgeInv'
<1>1. UNCHANGED <<head, boots, acks>>
  BY DEF vars
<1> QED
  BY <1>1, SameServer DEF DInv, EdgeInv

LEMMA NewBootsAreNew ==
    ASSUME DeliveryTypeOK, NEW b \in NewBoots
    PROVE  b \in Boot /\ b \notin drawn
<1>1. drawn # Boot /\ b = CHOOSE c \in Boot : c \notin drawn
  BY DEF NewBoots
<1>2. \E c \in Boot : c \notin drawn
  BY <1>1 DEF DeliveryTypeOK
<1> QED
  BY <1>1, <1>2

\* What load makes of the two files fits them.
LEMMA LoadFits ==
    ASSUME DInv, NEW e \in Loadable, edge' = e, drawn' = drawn \cup {e.boot},
           UNCHANGED <<vars, outbox>>
    PROVE  EdgeInv' /\ edge' \in Reporter /\ edge' # None /\ drawn' \subseteq Boot
<1>1. UNCHANGED <<head, boots, acks>>
  BY DEF vars
<1>2. CASE outbox # None
  <2>1. Single(outbox) /\ outbox.boot \in drawn
    BY <1>2 DEF DInv, FilesInv
  <2>2. e = [boot |-> outbox.boot, prev |-> outbox.prev, next |-> LastSequence(outbox) + 1,
             established |-> FALSE, pending |-> outbox]
    BY <1>2 DEF Loadable
  <2>3. e \in Reporter
    BY <2>1, <2>2, SingleFacts DEF Reporter
  <2>4. EdgeInv'
    BY <1>1, <1>2, <2>1, <2>2 DEF EdgeInv
  <2> QED
    BY <2>1, <2>2, <2>3, <2>4, AbsenceAssumption DEF DInv, DeliveryTypeOK
<1>3. CASE outbox = None
  <2>1. PICK b \in NewBoots : e = FreshReporter(b)
    BY <1>3 DEF Loadable
  <2>2. b \in Boot /\ b \notin drawn /\ config \in BootOrNone /\ config = head.boot
    BY <1>3, NewBootsAreNew DEF DInv, DeliveryTypeOK, FilesInv
  <2>3. /\ e.boot = b /\ e.prev = config /\ e.next = 1 /\ e.established = FALSE
        /\ e.pending = None
    BY <2>1 DEF FreshReporter
  <2>4. e \in Reporter
    BY <2>1, <2>2 DEF Reporter, FreshReporter
  <2>5. ~Known(b)
    BY <2>2 DEF DInv, WireInv
  <2>6. EdgeInv'
    BY <1>1, <1>3, <2>2, <2>3, <2>5, SameServer DEF EdgeInv
  <2> QED
    BY <2>2, <2>3, <2>4, <2>6, AbsenceAssumption DEF DInv, DeliveryTypeOK
<1> QED
  BY <1>2, <1>3

LEMMA StartStep ==
    ASSUME DInv, Start
    PROVE  DInv'
<1>1. /\ UNCHANGED <<vars, config, outbox, latest, needs, crashes, net, issued, applied>>
      /\ call' = Waiting /\ latest = None
  BY DEF Start, DInv, CallInv
<1>2. EdgeInv' /\ edge' \in Reporter \cup {None} /\ drawn' \subseteq Boot /\ drawn \subseteq drawn'
  <2>1. CASE Load
    BY <1>1, <2>1, LoadFits DEF Load
  <2>2. CASE UNCHANGED <<edge, drawn>>
    BY <1>1, <2>2, EdgeUnchanged DEF DInv, DeliveryTypeOK
  <2> QED
    BY <2>1, <2>2 DEF Start
<1>3. DeliveryTypeOK'
  BY <1>1, <1>2, ServerStands DEF DInv, DeliveryTypeOK, Waiting, At, Stage, Caller
<1>4. CallInv'
  BY <1>1 DEF CallInv, Waiting, At, FreshBootIsAnnounced
<1> QED
  BY <1>1, <1>2, <1>3, <1>4, ServerStands, FilesUnchanged DEF DInv

LEMMA ObserveStep ==
    ASSUME DInv, NEW s \in State, Observe(s)
    PROVE  DInv'
<1>1. /\ UNCHANGED <<vars, config, outbox, drawn, edge, crashes, net, issued, applied>>
      /\ latest' = s /\ needs' = TRUE
      /\ call' = IF edge # None THEN At("publish", "snapshot") ELSE Waiting
  BY DEF Observe
<1>2. DeliveryTypeOK'
  BY <1>1, ServerStands DEF DInv, DeliveryTypeOK, Waiting, At, Stage, Caller
<1>3. CallInv'
  BY <1>1, AbsenceAssumption DEF CallInv, Waiting, At, FreshBootIsAnnounced
<1> QED
  BY <1>1, <1>2, <1>3, ServerStands, FilesUnchanged, EdgeUnchanged DEF DInv

LEMMA TimeoutLoadedStep ==
    ASSUME DInv, TimeoutLoaded
    PROVE  DInv'
<1>1. /\ UNCHANGED <<vars, config, outbox, drawn, edge, latest, needs, crashes, net,
                     issued, applied>>
      /\ edge # None
      /\ call' = IF needs /\ latest # None THEN At("publish", "timeout")
                 ELSE At("beat", "heartbeat")
  BY DEF TimeoutLoaded, Dispatch
<1>2. DeliveryTypeOK'
  BY <1>1, ServerStands DEF DInv, DeliveryTypeOK, At, Stage, Caller
<1>3. CallInv'
  BY <1>1 DEF CallInv, At, FreshBootIsAnnounced
<1> QED
  BY <1>1, <1>2, <1>3, ServerStands, FilesUnchanged, EdgeUnchanged DEF DInv

LEMMA TimeoutLoadsStep ==
    ASSUME DInv, TimeoutLoads
    PROVE  DInv'
<1>1. /\ UNCHANGED <<vars, config, outbox, latest, crashes, net, issued, applied>>
      /\ edge = None /\ call.stage = "wait" /\ needs' = (latest # None)
  BY DEF TimeoutLoads
<1>2. CASE Load /\ Dispatch(latest # None)
  <2>1. EdgeInv' /\ edge' \in Reporter /\ edge' # None /\ drawn' \subseteq Boot
        /\ drawn \subseteq drawn'
    BY <1>1, <1>2, LoadFits DEF Load
  <2>2. call' = IF latest # None THEN At("publish", "timeout") ELSE At("beat", "heartbeat")
    BY <1>2 DEF Dispatch
  <2>3. DeliveryTypeOK'
    BY <1>1, <2>1, <2>2, ServerStands DEF DInv, DeliveryTypeOK, At, Stage, Caller
  <2>4. CallInv'
    BY <1>1, <2>1, <2>2 DEF CallInv, At, FreshBootIsAnnounced
  <2> QED
    BY <1>1, <2>1, <2>3, <2>4, ServerStands, FilesUnchanged DEF DInv
<1>3. CASE UNCHANGED <<edge, drawn, call>>
  <2>1. DeliveryTypeOK'
    BY <1>1, <1>3, ServerStands DEF DInv, DeliveryTypeOK
  <2>2. CallInv'
    BY <1>1, <1>3 DEF DInv, CallInv, FreshBootIsAnnounced
  <2> QED
    BY <1>1, <1>3, <2>1, <2>2, ServerStands, FilesUnchanged, EdgeUnchanged DEF DInv
<1> QED
  BY <1>2, <1>3 DEF TimeoutLoads

\* The event that is written to the outbox is the next the server takes, and nothing is
\* waiting to be applied when it is issued.
LEMMA CreateFits ==
    ASSUME DInv, edge # None, NEW event \in Event, CreateAndFlush(event),
           event # Heartbeat \/ edge.established,
           UNCHANGED <<vars, config, drawn, latest, needs, crashes, applied>>
    PROVE  /\ WireInv' /\ FilesInv' /\ FeedInv' /\ EdgeInv'
           /\ outbox' \in Envelope /\ outbox' # None
           /\ edge' \in Reporter /\ edge' # None
           /\ net' \subseteq Envelope /\ issued' \in Seq(Event)
           /\ call' = At("post", call.by)
           /\ applied = issued /\ issued' = Append(issued, event)
<1> DEFINE env == [boot |-> edge.boot, prev |-> edge.prev, first |-> edge.next,
                   events |-> <<event>>]
<1>1. /\ edge.pending = None /\ outbox' = env /\ edge' = [edge EXCEPT !.pending = env]
      /\ net' = net \cup {env} /\ issued' = Append(issued, event)
      /\ call' = At("post", call.by)
  BY DEF CreateAndFlush
<1>2. UNCHANGED <<head, boots, acks, tx>>
  BY DEF vars
<1>3. edge \in Reporter /\ outbox = None /\ edge.boot \in drawn
  BY <1>1 DEF DInv, DeliveryTypeOK, EdgeInv
<1>4. edge.boot \in Boot /\ edge.prev \in BootOrNone /\ edge.next \in Nat \ {0}
  BY <1>3 DEF Reporter
<1>5. env \in Envelope /\ Len(env.events) = 1 /\ env.events \in Seq(Event)
  BY <1>4 DEF Envelope
<1>6. /\ env.boot = edge.boot /\ env.prev = edge.prev /\ env.first = edge.next
      /\ env.events[1] = event
  OBVIOUS
<1> HIDE DEF env
<1>7. Single(env) /\ env # None
  BY <1>5, AbsenceAssumption DEF Single
<1>8. Opens(env) \/ Continues(env)
  <2>1. CASE edge.established
    BY <1>3, <1>6, <2>1 DEF DInv, EdgeInv, Continues, Established
  <2>2. CASE ~edge.established
    <3>1. ~Known(edge.boot) /\ edge.prev = head.boot /\ edge.next = 1
      BY <1>3, <2>2 DEF DInv, EdgeInv
    <3>2. edge.boot # head.boot
      BY <1>4, <3>1, NoneAssumption DEF DInv, FInv, FenceInv
    <3> QED
      BY <1>6, <2>2, <3>1, <3>2 DEF Opens
  <2> QED
    BY <2>1, <2>2
<1>9. ~Taken(env)
  BY <1>7, <1>8, TakenIsOver DEF DInv
<1>10. tx = None /\ \A e \in net : Single(e) /\ Taken(e)
  BY <1>3, SingleFacts DEF DInv, WireInv
<1>11. WireInv'
  BY <1>1, <1>2, <1>7, <1>10, SameServer DEF DInv, WireInv, Single
<1>12. FilesInv'
  BY <1>1, <1>2, <1>3, <1>6, <1>7, <1>8, <1>9, SameServer DEF FilesInv, Single
<1>13. applied = issued
  BY <1>3 DEF DInv, FeedInv
<1>14. FeedInv'
  BY <1>1, <1>2, <1>6, <1>7, <1>9, <1>13, SameServer DEF FeedInv
<1>15. edge' \in Reporter /\ edge'.pending = env /\ edge'.boot = edge.boot
       /\ edge'.prev = edge.prev
  BY <1>1, <1>3, <1>5 DEF Reporter
<1>16. EdgeInv'
  BY <1>1, <1>3, <1>6, <1>7, <1>15 DEF EdgeInv
<1>17. net' \subseteq Envelope /\ issued' \in Seq(Event)
  BY <1>1, <1>5 DEF DInv, DeliveryTypeOK
<1> QED
  BY <1>1, <1>5, <1>7, <1>11, <1>12, <1>13, <1>14, <1>15, <1>16, <1>17, AbsenceAssumption

\* The outbox is sent as it is, once more.
LEMMA FlushFits ==
    ASSUME DInv, edge # None, edge.pending # None, net' = net \cup {edge.pending},
           UNCHANGED <<vars, config, outbox, drawn, edge, issued, applied>>
    PROVE  /\ WireInv' /\ FilesInv' /\ FeedInv' /\ EdgeInv'
           /\ outbox # None /\ net' \subseteq Envelope
<1>1. UNCHANGED <<head, boots, acks, tx>>
  BY DEF vars
<1>2. edge.pending = outbox /\ outbox # None /\ Single(outbox)
  BY DEF DInv, EdgeInv, FilesInv
<1>3. WireInv'
  BY <1>1, <1>2, SameServer DEF DInv, WireInv, Single
<1>4. FilesInv' /\ FeedInv'
  BY <1>1, SameServer DEF DInv, FilesInv, FeedInv, Single
<1>5. net' \subseteq Envelope
  BY <1>2 DEF DInv, DeliveryTypeOK, Single
<1> QED
  BY <1>2, <1>3, <1>4, <1>5, EdgeUnchanged

\* After an error the thread is in its loop again.
LEMMA FailsType ==
    ASSUME DeliveryTypeOK, Fails
    PROVE  /\ call' \in [stage : Stage, by : Caller, again : BOOLEAN]
           /\ call' = Waiting \/ (call.by = "timeout" /\ call' = At("beat", "heartbeat"))
BY DEF Fails, Waiting, At, Stage, Caller, DeliveryTypeOK

LEMMA PublishStep ==
    ASSUME DInv, PublishState
    PROVE  /\ DInv'
           /\ \/ UNCHANGED issued
              \/ applied = issued /\ \E event \in Event : issued' = Append(issued, event)
<1>1. /\ call.stage = "publish" /\ edge # None /\ latest # None /\ call.by # "heartbeat"
      /\ call.by = "snapshot" => needs
      /\ UNCHANGED <<vars, config, drawn, latest, needs, crashes, applied>>
  BY DEF PublishState, DInv, CallInv
<1>2. latest \in State /\ call.by \in Caller
  BY <1>1 DEF DInv, DeliveryTypeOK
<1>3. CASE Flush(edge.pending.events[Len(edge.pending.events)] # latest)
  <2> DEFINE again == edge.pending.events[Len(edge.pending.events)] # latest
  <2>1. /\ edge.pending # None /\ net' = net \cup {edge.pending}
        /\ call' = [stage |-> "post", by |-> call.by, again |-> again]
        /\ UNCHANGED <<edge, outbox, issued>>
    BY <1>3 DEF Flush
  <2>2. again \in BOOLEAN
    OBVIOUS
  <2> HIDE DEF again
  <2>3. outbox # None /\ net' \subseteq Envelope /\ WireInv' /\ FilesInv' /\ FeedInv' /\ EdgeInv'
    BY <1>1, <2>1, FlushFits
  <2>4. DeliveryTypeOK'
    BY <1>1, <1>2, <2>1, <2>2, <2>3, ServerStands DEF DInv, DeliveryTypeOK, Stage
  <2>5. CallInv'
    BY <1>1, <2>1, <2>3 DEF CallInv, FreshBootIsAnnounced
  <2> QED
    BY <1>1, <2>1, <2>3, <2>4, <2>5, ServerStands DEF DInv
<1>4. CASE CreateAndFlush(latest)
  <2>1. latest \in Event /\ latest # Heartbeat
    BY <1>2, SnapshotAssumption DEF Event
  <2>2. /\ WireInv' /\ FilesInv' /\ FeedInv' /\ EdgeInv'
        /\ outbox' \in Envelope /\ outbox' # None
        /\ edge' \in Reporter /\ edge' # None
        /\ net' \subseteq Envelope /\ issued' \in Seq(Event)
        /\ call' = At("post", call.by)
        /\ applied = issued /\ issued' = Append(issued, latest)
    BY <1>1, <1>4, <2>1, CreateFits
  <2>3. DeliveryTypeOK'
    BY <1>1, <1>2, <2>2, ServerStands DEF DInv, DeliveryTypeOK, Stage, At
  <2>4. CallInv'
    BY <1>1, <2>2 DEF CallInv, At, FreshBootIsAnnounced
  <2> QED
    BY <1>1, <2>1, <2>2, <2>3, <2>4, ServerStands DEF DInv
<1>5. CASE CreateFails
  <2>1. UNCHANGED <<edge, outbox, net, issued>> /\ Fails
    BY <1>5 DEF CreateFails
  <2>2. DeliveryTypeOK'
    BY <1>1, <2>1, FailsType, ServerStands DEF DInv, DeliveryTypeOK
  <2>3. CallInv'
    BY <1>1, <1>2, <2>1 DEF CallInv, Fails, Waiting, At, Caller, FreshBootIsAnnounced
  <2> QED
    BY <1>1, <2>1, <2>2, <2>3, ServerStands, FilesUnchanged, EdgeUnchanged DEF DInv
<1> QED
  BY <1>3, <1>4, <1>5 DEF PublishState

LEMMA BeatFlushStep ==
    ASSUME DInv, BeatFlush
    PROVE  /\ DInv'
           /\ \/ UNCHANGED issued
              \/ applied = issued /\ \E event \in Event : issued' = Append(issued, event)
<1>1. /\ call.stage = "beat" /\ edge # None /\ call.by = "heartbeat"
      /\ UNCHANGED <<vars, config, drawn, latest, needs, crashes, applied>>
  BY DEF BeatFlush, DInv, CallInv
<1>2. CASE Flush(FALSE)
  <2>1. /\ edge.pending # None /\ net' = net \cup {edge.pending}
        /\ call' = [stage |-> "post", by |-> "heartbeat", again |-> FALSE]
        /\ UNCHANGED <<edge, outbox, issued>>
    BY <1>1, <1>2 DEF Flush
  <2>2. outbox # None /\ net' \subseteq Envelope /\ WireInv' /\ FilesInv' /\ FeedInv' /\ EdgeInv'
    BY <1>1, <2>1, FlushFits
  <2>3. DeliveryTypeOK'
    BY <1>1, <2>1, <2>2, ServerStands DEF DInv, DeliveryTypeOK, Stage, Caller
  <2>4. CallInv'
    BY <1>1, <2>1, <2>2 DEF CallInv, FreshBootIsAnnounced
  <2> QED
    BY <1>1, <2>1, <2>2, <2>3, <2>4, ServerStands DEF DInv
<1>3. CASE edge.established /\ CreateAndFlush(Heartbeat)
  <2>1. Heartbeat \in Event
    BY DEF Event
  <2>2. /\ WireInv' /\ FilesInv' /\ FeedInv' /\ EdgeInv'
        /\ outbox' \in Envelope /\ outbox' # None
        /\ edge' \in Reporter /\ edge' # None
        /\ net' \subseteq Envelope /\ issued' \in Seq(Event)
        /\ call' = At("post", call.by)
        /\ applied = issued /\ issued' = Append(issued, Heartbeat)
    BY <1>1, <1>3, <2>1, CreateFits
  <2>3. DeliveryTypeOK'
    BY <1>1, <2>2, ServerStands DEF DInv, DeliveryTypeOK, Stage, Caller, At
  <2>4. CallInv'
    BY <1>1, <2>2 DEF CallInv, At, FreshBootIsAnnounced
  <2> QED
    BY <1>1, <2>1, <2>2, <2>3, <2>4, ServerStands DEF DInv
<1>4. CASE edge.established /\ CreateFails
  <2>1. UNCHANGED <<edge, outbox, net, issued>> /\ Fails
    BY <1>4 DEF CreateFails
  <2>2. DeliveryTypeOK'
    BY <1>1, <2>1, FailsType, ServerStands DEF DInv, DeliveryTypeOK
  <2>3. CallInv'
    BY <1>1, <1>4, <2>1 DEF CallInv, Fails, Waiting, At, FreshBootIsAnnounced
  <2> QED
    BY <1>1, <2>1, <2>2, <2>3, ServerStands, FilesUnchanged, EdgeUnchanged DEF DInv
<1> QED
  BY <1>2, <1>3, <1>4 DEF BeatFlush

LEMMA BeatNothingStep ==
    ASSUME DInv, BeatNothing
    PROVE  DInv'
<1>1. /\ UNCHANGED <<vars, config, outbox, drawn, edge, latest, crashes, net, issued, applied>>
      /\ call' = Waiting /\ needs' = RequiresStateSnapshot(edge) /\ edge # None
  BY DEF BeatNothing, DInv, CallInv
<1>2. DeliveryTypeOK'
  BY <1>1, ServerStands
     DEF DInv, DeliveryTypeOK, Waiting, At, Stage, Caller, RequiresStateSnapshot
<1>3. CallInv'
  BY <1>1 DEF CallInv, Waiting, At, FreshBootIsAnnounced, RequiresStateSnapshot
<1> QED
  BY <1>1, <1>2, <1>3, ServerStands, FilesUnchanged, EdgeUnchanged DEF DInv

\* The request, or the deletion of the outbox, fails: the outbox is still there.
LEMMA FailureStep ==
    ASSUME DInv, PostFails \/ ClearFails
    PROVE  DInv'
<1>1. /\ UNCHANGED <<vars, config, outbox, drawn, edge, latest, needs, crashes, net,
                     issued, applied>>
      /\ Fails /\ outbox # None /\ edge # None
  BY DEF PostFails, ClearFails, DInv, CallInv
<1>2. DeliveryTypeOK'
  BY <1>1, FailsType, ServerStands DEF DInv, DeliveryTypeOK
<1>3. edge.pending # None
  BY <1>1 DEF DInv, EdgeInv
<1>4. CallInv'
  BY <1>1, <1>3 DEF CallInv, Fails, Waiting, At, FreshBootIsAnnounced
<1> QED
  BY <1>1, <1>2, <1>4, ServerStands, FilesUnchanged, EdgeUnchanged DEF DInv

\* The acknowledgement is that of the outbox, which therefore has been taken.
LEMMA AcknowledgedFits ==
    ASSUME DInv, Acknowledged
    PROVE  /\ Taken(outbox) /\ outbox # None /\ edge.boot = outbox.boot /\ edge # None
           /\ edge' \in Reporter /\ edge' # None /\ edge'.pending = outbox
           /\ edge'.boot = edge.boot /\ edge'.prev = edge.prev
           /\ edge'.next = LastSequence(outbox) + 1 /\ edge'.established = TRUE
           /\ UNCHANGED <<vars, outbox, drawn, latest, needs, crashes, net, issued, applied>>
<1>1. call.stage = "post" /\ edge # None /\ outbox # None
  BY DEF Acknowledged, DInv, CallInv
<1>2. Taken(outbox) /\ edge.pending = outbox /\ edge.boot = outbox.boot
  BY <1>1, AckIsOfOutbox DEF Acknowledged
<1>3. edge \in Reporter /\ LastSequence(outbox) + 1 \in Nat \ {0}
  BY <1>1, SingleFacts DEF DInv, DeliveryTypeOK, FilesInv
<1>4. edge' = [edge EXCEPT !.next = LastSequence(outbox) + 1, !.established = TRUE]
  BY <1>2 DEF Acknowledged
<1>5. edge' \in Reporter
  BY <1>3, <1>4 DEF Reporter
<1> QED
  BY <1>1, <1>2, <1>3, <1>4, <1>5, AbsenceAssumption DEF Acknowledged, Reporter

LEMMA AcceptAckStep ==
    ASSUME DInv, AcceptAck
    PROVE  DInv'
<1>1. /\ Taken(outbox) /\ outbox # None /\ edge.boot = outbox.boot /\ edge # None
      /\ edge' \in Reporter /\ edge' # None /\ edge'.pending = outbox
      /\ edge'.boot = edge.boot /\ edge'.prev = edge.prev
      /\ edge'.next = LastSequence(outbox) + 1 /\ edge'.established = TRUE
      /\ UNCHANGED <<vars, outbox, drawn, latest, needs, crashes, net, issued, applied>>
  BY AcknowledgedFits DEF AcceptAck
<1>2. config' = edge.boot /\ call' = [call EXCEPT !.stage = "clear"] /\ call.stage = "post"
  BY DEF AcceptAck, Acknowledged
<1>3. UNCHANGED <<head, boots, acks, tx>>
  BY <1>1 DEF vars
<1>4. call \in [stage : Stage, by : Caller, again : BOOLEAN]
  BY DEF DInv, DeliveryTypeOK
<1>5. call'.stage = "clear" /\ call'.by = call.by /\ call'.again = call.again
      /\ call' \in [stage : Stage, by : Caller, again : BOOLEAN]
  BY <1>2, <1>4 DEF Stage
<1>6. WireInv' /\ FilesInv' /\ FeedInv'
  BY <1>1, <1>3, SameServer DEF DInv, WireInv, FilesInv, FeedInv, Single
<1>7. EdgeInv'
  BY <1>1 DEF DInv, EdgeInv
<1>8. config' \in BootOrNone
  BY <1>1, <1>2, SingleFacts DEF DInv, FilesInv, BootOrNone
<1>9. DeliveryTypeOK'
  BY <1>1, <1>5, <1>8, ServerStands DEF DInv, DeliveryTypeOK
<1>10. CallInv'
  BY <1>1, <1>2, <1>3, <1>5, SameServer
     DEF DInv, CallInv, FreshBootIsAnnounced, LastSequence
<1> QED
  BY <1>1, <1>6, <1>7, <1>9, <1>10, ServerStands DEF DInv

LEMMA AcceptFailsStep ==
    ASSUME DInv, AcceptFails
    PROVE  DInv'
<1>1. /\ Taken(outbox) /\ outbox # None /\ edge.boot = outbox.boot /\ edge # None
      /\ edge' \in Reporter /\ edge' # None /\ edge'.pending = outbox
      /\ edge'.boot = edge.boot /\ edge'.prev = edge.prev
      /\ edge'.next = LastSequence(outbox) + 1 /\ edge'.established = TRUE
      /\ UNCHANGED <<vars, outbox, drawn, latest, needs, crashes, net, issued, applied>>
  BY AcknowledgedFits DEF AcceptFails
<1>2. UNCHANGED config /\ Fails
  BY DEF AcceptFails
<1>3. EdgeInv'
  BY <1>1 DEF DInv, EdgeInv
<1>4. DeliveryTypeOK'
  BY <1>1, <1>2, FailsType, ServerStands DEF DInv, DeliveryTypeOK
<1>5. CallInv'
  BY <1>1, <1>2 DEF CallInv, Fails, Waiting, At, FreshBootIsAnnounced
<1> QED
  BY <1>1, <1>2, <1>3, <1>4, <1>5, ServerStands, FilesUnchanged DEF DInv

\* The outbox has been taken and may go; the reporter goes on behind it, in its boot or
\* in a new one.
LEMMA ClearOutboxStep ==
    ASSUME DInv, ClearOutbox
    PROVE  DInv'
<1>1. /\ call.stage = "clear" /\ outbox' = None
      /\ UNCHANGED <<vars, config, latest, crashes, net, issued, applied>>
  BY DEF ClearOutbox
<1>2. /\ edge # None /\ outbox # None /\ config = edge.boot /\ edge.established
      /\ Taken(outbox) /\ edge.next = LastSequence(outbox) + 1
      /\ edge.boot = outbox.boot /\ edge.prev = outbox.prev /\ IsLast(outbox)
      /\ edge.boot \in drawn
  BY <1>1 DEF DInv, CallInv, EdgeInv, FilesInv
<1>3. UNCHANGED <<head, boots, acks, tx>>
  BY <1>1 DEF vars
<1>4. edge \in Reporter /\ edge.boot \in Boot
  BY <1>2 DEF DInv, DeliveryTypeOK, Reporter
<1>5. PICK e \in Settled :
         /\ edge' = e /\ drawn' = drawn \cup {e.boot}
         /\ IF call.again THEN call' = At("publish", call.by) /\ UNCHANGED needs
            ELSE call' = Waiting /\ needs' = RequiresStateSnapshot(e)
  BY DEF ClearOutbox
<1>6. /\ e \in Reporter /\ e.pending = None
      /\ IF e.established
         THEN e.boot = edge.boot /\ e.prev = edge.prev /\ e.next = edge.next
         ELSE e.boot \notin drawn /\ e.prev = edge.boot /\ e.next = 1
  <2>1. CASE edge.next > MaxEventsPerBoot
    <3>1. PICK b \in NewBoots : e = [boot |-> b, prev |-> edge.boot, next |-> 1,
                                     established |-> FALSE, pending |-> None]
      BY <2>1 DEF Settled
    <3> QED
      BY <1>4, <3>1, NewBootsAreNew DEF DInv, Reporter, BootOrNone
  <2>2. CASE ~(edge.next > MaxEventsPerBoot)
    <3>1. e = [edge EXCEPT !.pending = None]
      BY <2>2 DEF Settled
    <3> QED
      BY <1>2, <1>4, <3>1 DEF Reporter
  <2> QED
    BY <2>1, <2>2
<1>7. e.boot \in Boot /\ e # None
  <2>1. e.boot \in Boot
    BY <1>6 DEF Reporter
  <2> QED
    BY <1>6, <2>1, AbsenceAssumption
<1>8. head.boot = outbox.boot
  BY <1>2 DEF IsLast
<1>9. WireInv'
  BY <1>1, <1>2, <1>3, <1>5, SameServer DEF DInv, WireInv, Single
<1>10. FilesInv'
  BY <1>1, <1>2, <1>3, <1>8 DEF FilesInv
<1>11. FeedInv'
  BY <1>1, <1>2, <1>3 DEF DInv, FeedInv
<1>12. EdgeInv'
  <2>1. CASE e.established
    BY <1>1, <1>2, <1>3, <1>5, <1>6, <2>1 DEF EdgeInv, IsLast
  <2>2. CASE ~e.established
    <3>1. ~Known(e.boot)
      BY <1>6, <1>7, <2>2 DEF DInv, WireInv
    <3> QED
      BY <1>1, <1>2, <1>3, <1>5, <1>6, <1>8, <2>2, <3>1, SameServer DEF EdgeInv
  <2> QED
    BY <2>1, <2>2
<1>13. DeliveryTypeOK'
  <2>1. call' \in [stage : Stage, by : Caller, again : BOOLEAN]
    <3>1. call.by \in Caller
      BY DEF DInv, DeliveryTypeOK
    <3>2. CASE call' = At("publish", call.by)
      BY <3>1, <3>2 DEF At, Stage, Caller
    <3>3. CASE call' = Waiting
      BY <3>3 DEF Waiting, At, Stage, Caller
    <3> QED
      BY <1>5, <3>2, <3>3
  <2>2. needs' \in BOOLEAN
    <3>1. RequiresStateSnapshot(e) \in BOOLEAN
      BY DEF RequiresStateSnapshot
    <3>2. needs' = needs \/ needs' = RequiresStateSnapshot(e)
      BY <1>5
    <3> QED
      BY <3>1, <3>2 DEF DInv, DeliveryTypeOK
  <2>3. drawn' \subseteq Boot /\ edge' \in Reporter \cup {None}
    BY <1>5, <1>6, <1>7 DEF DInv, DeliveryTypeOK
  <2> QED
    BY <1>1, <2>1, <2>2, <2>3, ServerStands DEF DInv, DeliveryTypeOK
<1>14. CallInv'
  <2>1. CASE call.again
    BY <1>1, <1>5, <1>7, <2>1 DEF DInv, CallInv, At, FreshBootIsAnnounced
  <2>2. CASE ~call.again
    <3>1. call' = Waiting /\ edge' = e
      BY <1>5, <2>2
    <3>2. ~e.established /\ e.pending = None => needs'
      BY <1>5, <2>2 DEF RequiresStateSnapshot
    <3>3. FreshBootIsAnnounced'
      BY <3>1, <3>2 DEF FreshBootIsAnnounced
    <3> QED
      BY <1>1, <3>1, <3>3 DEF CallInv, Waiting, At
  <2> QED
    BY <2>1, <2>2
<1> QED
  BY <1>1, <1>9, <1>10, <1>11, <1>12, <1>13, <1>14, ServerStands DEF DInv

LEMMA CrashStep ==
    ASSUME DInv, Crash
    PROVE  DInv'
<1>1. /\ UNCHANGED <<vars, config, outbox, drawn, net, issued, applied>>
      /\ edge' = None /\ latest' = None /\ needs' = FALSE /\ call' = Down
      /\ crashes' = crashes + 1
  BY DEF Crash
<1>2. EdgeInv'
  BY <1>1 DEF EdgeInv
<1>3. DeliveryTypeOK'
  <2>1. crashes' \in Nat
    BY <1>1 DEF DInv, DeliveryTypeOK
  <2> QED
    BY <1>1, <2>1, ServerStands DEF DInv, DeliveryTypeOK, Down, At, Stage, Caller
<1>4. CallInv'
  BY <1>1 DEF CallInv, Down, At, FreshBootIsAnnounced
<1> QED
  BY <1>1, <1>2, <1>3, <1>4, ServerStands, FilesUnchanged DEF DInv

-----------------------------------------------------------------------------
(***************************************************************************)
(* The theorems.                                                           *)
(***************************************************************************)

LEMMA DeliveryStart == DeliveryInit => DInv
<1> SUFFICES ASSUME DeliveryInit
             PROVE  DInv
  OBVIOUS
<1>1. FInv /\ TypeOK
  BY FencingInit DEF DeliveryInit, FInv, TypeInv
<1>2. head.boot = None /\ acks = {} /\ tx = None /\ \A b \in Boot : ~Known(b)
  <2>1. head.boot = None /\ acks = {} /\ tx = None
    BY DEF DeliveryInit, Init
  <2>2. \A b \in Boot : boots[b].gen = 0
    BY DEF DeliveryInit, Init
  <2>3. \A b \in Boot : ~Known(b)
    BY <2>2 DEF Known
  <2> QED
    BY <2>1, <2>3
<1>3. DeliveryTypeOK
  <2>1. call \in [stage : Stage, by : Caller, again : BOOLEAN]
    BY DEF DeliveryInit, Down, At, Stage, Caller
  <2>2. /\ needs \in BOOLEAN /\ crashes \in Nat
        /\ issued \in Seq(Event) /\ applied \in Seq(Event)
    <3>1. needs = FALSE /\ crashes = 0 /\ issued = <<>> /\ applied = <<>>
      BY DEF DeliveryInit
    <3>2. << >> \in Seq(Event)
      OBVIOUS
    <3> QED
      BY <3>1, <3>2
  <2>3. /\ config \in BootOrNone /\ outbox \in Envelope \cup {None} /\ drawn \subseteq Boot
        /\ edge \in Reporter \cup {None} /\ latest \in State \cup {None} /\ net \subseteq Envelope
    <3>1. /\ config = None /\ outbox = None /\ edge = None /\ latest = None
          /\ drawn = {} /\ net = {}
      BY DEF DeliveryInit
    <3> QED
      BY <3>1 DEF BootOrNone
  <2> QED
    BY <1>1, <2>1, <2>2, <2>3 DEF DeliveryTypeOK
<1>4. WireInv /\ FilesInv /\ FeedInv /\ EdgeInv
  <2>1. /\ net = {} /\ config = None /\ outbox = None /\ edge = None
        /\ issued = <<>> /\ applied = <<>>
    BY DEF DeliveryInit
  <2> QED
    BY <1>2, <2>1 DEF WireInv, FilesInv, FeedInv, EdgeInv
<1>5. CallInv
  BY DEF DeliveryInit, CallInv, Down, At, FreshBootIsAnnounced
<1> QED
  BY <1>1, <1>3, <1>4, <1>5 DEF DInv

\* To the server, the network is just another source of reports.
LEMMA ServerSteps ==
    ASSUME DInv, [DeliveryNext]_deliveryVars
    PROVE  FInv' /\ TypeOK'
<1> SUFFICES [AnyReport]_vars
  BY TypeStep, FencingStep DEF DInv, FInv, TypeInv
<1>1. CASE ServerRuns \/ ServerCommits
  BY <1>1 DEF ServerRuns, ServerCommits, AnyReport
<1>2. ASSUME NEW env \in net, Arrive(env)
      PROVE  [AnyReport]_vars
  <2>1. env \in Envelope
    BY DEF DInv, DeliveryTypeOK
  <2> QED
    BY <1>2, <2>1 DEF Arrive, AnyReport
<1>3. CASE Start \/ TimeoutLoaded \/ TimeoutLoads
  BY <1>3 DEF Start, TimeoutLoaded, TimeoutLoads
<1>4. CASE (\E s \in State : Observe(s)) \/ Crash
  BY <1>4 DEF Observe, Crash
<1>5. CASE PublishState \/ BeatFlush \/ BeatNothing
  BY <1>5 DEF PublishState, BeatFlush, BeatNothing
<1>6. CASE PostFails \/ AcceptAck \/ AcceptFails
  BY <1>6 DEF PostFails, AcceptAck, AcceptFails, Acknowledged
<1>7. CASE ClearOutbox \/ ClearFails
  BY <1>7 DEF ClearOutbox, ClearFails
<1>8. CASE UNCHANGED deliveryVars
  BY <1>8 DEF deliveryVars
<1> QED
  BY <1>1, <1>2, <1>3, <1>4, <1>5, <1>6, <1>7, <1>8 DEF DeliveryNext

\* A step that changes neither end of the feed, or that moves it as ExactlyOnceFeed does.
FeedStep ==
    \/ UNCHANGED <<issued, applied>>
    \/ \E event \in Event : Feed!Issue(event)
    \/ Feed!Apply

LEMMA DeliveryStep ==
    ASSUME DInv, [DeliveryNext]_deliveryVars
    PROVE  DInv' /\ FeedStep
<1>1. FInv' /\ TypeOK'
  BY ServerSteps
<1>2. ASSUME UNCHANGED <<reporter, net, issued, applied>>
      PROVE  DeliveryTypeOK'
  BY <1>1, <1>2 DEF DInv, DeliveryTypeOK, reporter
<1>3. CASE ServerRuns
  BY <1>1, <1>2, <1>3, InternalDelivery DEF ServerRuns, FeedStep
<1>4. ASSUME NEW env \in net, Arrive(env)
      PROVE  DInv' /\ FeedStep
  BY <1>1, <1>2, <1>4, ArriveDelivery DEF Arrive, FeedStep
<1>5. CASE ServerCommits
  <2>1. tx # None /\ tx.env = outbox /\ Single(outbox)
    BY <1>5 DEF ServerCommits, Commit, DInv, WireInv, FilesInv
  <2>2. applied' \in Seq(Event)
    BY <1>5, <2>1 DEF ServerCommits, DInv, DeliveryTypeOK, Single, Envelope
  <2>3. DeliveryTypeOK'
    BY <1>1, <1>5, <2>2 DEF ServerCommits, DInv, DeliveryTypeOK, reporter
  <2>4. DInv' /\ issued = applied' /\ applied # issued
    BY <1>1, <1>5, <2>3, CommitDelivery
  <2> QED
    BY <1>5, <2>4 DEF ServerCommits, FeedStep, Feed!Apply
<1>6. CASE PublishState
  BY <1>6, PublishStep DEF PublishState, FeedStep, Feed!Issue
<1>7. CASE BeatFlush
  BY <1>7, BeatFlushStep DEF BeatFlush, FeedStep, Feed!Issue
<1>8. CASE Start
  BY <1>8, StartStep DEF Start, FeedStep
<1>9. ASSUME NEW s \in State, Observe(s)
      PROVE  DInv' /\ FeedStep
  BY <1>9, ObserveStep DEF Observe, FeedStep
<1>10. CASE TimeoutLoaded
  BY <1>10, TimeoutLoadedStep DEF TimeoutLoaded, FeedStep
<1>11. CASE TimeoutLoads
  BY <1>11, TimeoutLoadsStep DEF TimeoutLoads, FeedStep
<1>12. CASE BeatNothing
  BY <1>12, BeatNothingStep DEF BeatNothing, FeedStep
<1>13. CASE PostFails \/ ClearFails
  BY <1>13, FailureStep DEF PostFails, ClearFails, FeedStep
<1>14. CASE AcceptAck
  BY <1>14, AcceptAckStep DEF AcceptAck, Acknowledged, FeedStep
<1>15. CASE AcceptFails
  BY <1>15, AcceptFailsStep DEF AcceptFails, Acknowledged, FeedStep
<1>16. CASE ClearOutbox
  BY <1>16, ClearOutboxStep DEF ClearOutbox, FeedStep
<1>17. CASE Crash
  BY <1>17, CrashStep DEF Crash, FeedStep
<1>18. CASE UNCHANGED deliveryVars
  <2>1. /\ UNCHANGED <<head, boots, acks, reporter, net, issued, applied>> /\ tx' = tx
    BY <1>18 DEF deliveryVars, vars, tables
  <2> QED
    BY <1>1, <1>2, <2>1, ServerQuiet DEF FeedStep
<1> QED
  BY <1>3, <1>4, <1>5, <1>6, <1>7, <1>8, <1>9, <1>10, <1>11, <1>12, <1>13, <1>14, <1>15,
     <1>16, <1>17, <1>18 DEF DeliveryNext

LEMMA DeliveryInvariant == DeliverySpec => []DInv
<1>1. DInv /\ [DeliveryNext]_deliveryVars => DInv'
  BY DeliveryStep
<1> QED
  BY DeliveryStart, <1>1, PTL DEF DeliverySpec

\* Reporter, files and call in hand fit together in every state, and a boot nobody has
\* heard of announces a snapshot.
THEOREM ReporterFits == DeliverySpec => []DeliveryInv
<1>1. DInv => DeliveryInv
  BY DEF DInv, CallInv, DeliveryInv
<1> QED
  BY <1>1, DeliveryInvariant, PTL

\* The report in the outbox is one the server takes, as the next of the current boot, as
\* its successor's first or as a replay -- provided that the core and the contract agree
\* on the snapshots there are, which is what the run delivery_poison is about.
THEOREM OutboxIsAcceptable ==
    ASSUME State \subseteq ContractState
    PROVE  DeliverySpec => []NeverRefused
<1>1. ASSUME DInv, outbox # None, tx = None
      PROVE  Accepts(outbox) \/ (Valid(outbox) /\ Replays(outbox))
  <2>1. Single(outbox)
    BY <1>1 DEF DInv, FilesInv
  <2>2. Valid(outbox)
    BY <2>1, SingleFacts DEF Valid, Single, Event
  <2>3. CASE Taken(outbox)
    <3>1. outbox.boot = head.boot /\ \E a \in acks : a.env = outbox
      BY <1>1, <2>3 DEF DInv, FilesInv, IsLast, Taken
    <3> QED
      BY <1>1, <2>2, <3>1, AckedReplays DEF DInv
  <2>4. CASE ~Taken(outbox)
    BY <1>1, <2>2, <2>4 DEF DInv, FilesInv, Accepts
  <2> QED
    BY <2>3, <2>4
<1>2. DInv => NeverRefused
  BY <1>1 DEF NeverRefused
<1> QED
  BY <1>2, DeliveryInvariant, PTL

\* Reporter, network and server together implement the feed that applies every event
\* once, in order, and before the next one is issued.
THEOREM DeliveryImplementsFeed == DeliverySpec => FeedIsExactlyOnce
<1>1. DeliveryInit => Feed!Init
  BY DEF DeliveryInit, Feed!Init
<1>2. DInv /\ [DeliveryNext]_deliveryVars => [Feed!Next]_Feed!vars
  BY DeliveryStep DEF FeedStep, Feed!Next, Feed!vars
<1> QED
  BY <1>1, <1>2, DeliveryInvariant, PTL DEF DeliverySpec, FeedIsExactlyOnce, Feed!Spec
=============================================================================
