---------------------------- MODULE EdgeDelivery ----------------------------
(***************************************************************************)
(* The delivery of activity reports from the desktop to the Control Plane: *)
(* the reporter thread (reporter_loop), the durable outbox and connection  *)
(* file it works on (EdgeReporter), a network that delays, repeats and     *)
(* loses messages, and the ingestion of EdgeIngest at the other end.       *)
(*                                                                         *)
(* `call' is where the reporter thread stands:                             *)
(*   down     the application is not running                               *)
(*   wait     in receiver.recv_timeout                                     *)
(*   publish  in publish_state, before it looks at the pending envelope    *)
(*   beat     in heartbeat, before it looks at the pending envelope        *)
(*   post     a report is on its way and its response is awaited           *)
(*   clear    the connection file names the boot, the outbox still exists  *)
(***************************************************************************)
EXTENDS EdgeIngest

CONSTANTS
    MaxEventsPerBoot,  \* MAX_EVENTS_PER_BOOT
    MaxEvents,         \* bound on the events before changes and heartbeats stop
    MaxCrashes,        \* bound on the crashes of the application
    DiskMayFail        \* whether writes of the two files may fail

ASSUME DeliveryAssumption ==
    /\ MaxEventsPerBoot \in Nat \ {0}
    /\ MaxEvents \in Nat
    /\ MaxCrashes \in Nat
    /\ DiskMayFail \in BOOLEAN

VARIABLES
    config,    \* last_accepted_boot_id of the connection file
    outbox,    \* the durable outbox file
    drawn,     \* the boot identifiers drawn so far
    edge,      \* the EdgeReporter, None while none is loaded
    latest,    \* latest_snapshot with the selected pet
    needs,     \* state_needs_send
    call,      \* where the reporter thread stands
    crashes,   \* crashes so far
    net,       \* every report sent: it may arrive late, or once more
    issued,    \* history: the events ever written to the outbox
    applied    \* history: the events ever committed by the server

reporter == <<config, outbox, drawn, edge, latest, needs, call, crashes>>
deliveryVars == <<vars, reporter, net, issued, applied>>

Reporter == [boot : Boot, prev : BootOrNone, next : Nat \ {0},
             established : BOOLEAN, pending : Envelope \cup {None}]
\* An absent outbox, reporter or snapshot is none there is.
ASSUME AbsenceAssumption ==
    /\ None \notin Envelope
    /\ None \notin Reporter
    /\ None \notin State

Stage == {"down", "wait", "publish", "beat", "post", "clear"}
Caller == {"snapshot", "timeout", "heartbeat"}

At(stage, by) == [stage |-> stage, by |-> by, again |-> FALSE]
Waiting == At("wait", "heartbeat")
Down == At("down", "heartbeat")

\* Seeded defect: a boot that is not established asks for nothing.
RequiresNothing(e) == FALSE

RequiresStateSnapshot(e) == ~e.established /\ e.pending = None

\* Uuid::new_v4: never one that was drawn before.  No boot identifier differs
\* from another in anything else, so one of those left stands for the draw.
NewBoots == IF drawn = Boot THEN {} ELSE {CHOOSE b \in Boot : b \notin drawn}

(***************************************************************************)
(* Loading: an outbox that survived continues its own boot, otherwise a    *)
(* new boot succeeds the last one that was acknowledged.                   *)
(***************************************************************************)
\* Seeded defect: a new boot starts at sequence 0.
FreshReporterAtZero(b) == [boot |-> b, prev |-> config, next |-> 0,
                           established |-> FALSE, pending |-> None]

FreshReporter(b) == [boot |-> b, prev |-> config, next |-> 1,
                     established |-> FALSE, pending |-> None]

\* Seeded defect: the outbox that survived is ignored.
LoadableFresh == {FreshReporter(b) : b \in NewBoots}

Loadable ==
    IF outbox # None
    THEN {[boot |-> outbox.boot, prev |-> outbox.prev,
           next |-> LastSequence(outbox) + 1,
           established |-> FALSE, pending |-> outbox]}
    ELSE {FreshReporter(b) : b \in NewBoots}

Load == \E e \in Loadable : edge' = e /\ drawn' = drawn \cup {e.boot}

Start ==
    /\ call.stage = "down"
    /\ call' = Waiting
    /\ Load \/ UNCHANGED <<edge, drawn>>
    /\ UNCHANGED <<vars, config, outbox, latest, needs, crashes, net, issued, applied>>

(***************************************************************************)
(* The commands of the loop.  A changed snapshot and a selected pet are    *)
(* both a change of `latest'.                                              *)
(***************************************************************************)
Observe(s) ==
    /\ call.stage = "wait"
    /\ Len(issued) < MaxEvents
    /\ s # latest
    /\ latest' = s
    /\ needs' = TRUE
    /\ call' = IF edge # None THEN At("publish", "snapshot") ELSE Waiting
    /\ UNCHANGED <<vars, config, outbox, drawn, edge, crashes, net, issued, applied>>

Dispatch(needed) ==
    call' = IF needed /\ latest # None THEN At("publish", "timeout")
            ELSE At("beat", "heartbeat")

TimeoutLoaded ==
    /\ call.stage = "wait"
    /\ edge # None
    /\ Dispatch(needs)
    /\ UNCHANGED <<vars, config, outbox, drawn, edge, latest, needs, crashes,
                   net, issued, applied>>

TimeoutLoads ==
    /\ call.stage = "wait"
    /\ edge = None
    /\ needs' = (latest # None)
    /\ \/ Load /\ Dispatch(latest # None)
       \/ UNCHANGED <<edge, drawn, call>>
    /\ UNCHANGED <<vars, config, outbox, latest, crashes, net, issued, applied>>

(***************************************************************************)
(* create_pending and flush_pending.  An error returns to the loop, except *)
(* that a state the timeout could not publish is followed by a heartbeat.  *)
(***************************************************************************)
Flush(again) ==
    /\ edge.pending # None
    /\ net' = net \cup {edge.pending}
    /\ call' = [stage |-> "post", by |-> call.by, again |-> again]
    /\ UNCHANGED <<edge, outbox, issued>>

CreateAndFlush(event) ==
    LET env == [boot |-> edge.boot, prev |-> edge.prev, first |-> edge.next,
                events |-> <<event>>]
    IN  /\ edge.pending = None
        /\ outbox' = env
        /\ edge' = [edge EXCEPT !.pending = env]
        /\ net' = net \cup {env}
        /\ issued' = Append(issued, event)
        /\ call' = At("post", call.by)

Fails == call' = IF call.by = "timeout" THEN At("beat", "heartbeat") ELSE Waiting

CreateFails ==
    /\ DiskMayFail
    /\ edge.pending = None
    /\ Fails
    /\ UNCHANGED <<edge, outbox, net, issued>>

PublishState ==
    /\ call.stage = "publish"
    /\ \/ Flush(edge.pending.events[Len(edge.pending.events)] # latest)
       \/ CreateAndFlush(latest)
       \/ CreateFails
    /\ UNCHANGED <<vars, config, drawn, latest, needs, crashes, applied>>

BeatFlush ==
    /\ call.stage = "beat"
    /\ \/ Flush(FALSE)
       \/ /\ edge.established
          /\ Len(issued) < MaxEvents
          /\ CreateAndFlush(Heartbeat)
       \/ edge.established /\ CreateFails
    /\ UNCHANGED <<vars, config, drawn, latest, needs, crashes, applied>>

BeatNothing ==
    /\ call.stage = "beat"
    /\ edge.pending = None
    /\ ~edge.established \/ Len(issued) >= MaxEvents
    /\ needs' = RequiresStateSnapshot(edge)
    /\ call' = Waiting
    /\ UNCHANGED <<vars, config, outbox, drawn, edge, latest, crashes, net,
                   issued, applied>>

(***************************************************************************)
(* The response: no answer, a problem or an unreadable one is an error; an *)
(* acknowledgement is taken over in memory, then in the connection file,   *)
(* and only then is the outbox deleted.                                    *)
(***************************************************************************)
\* Seeded defect: an acknowledgement of another sequence is accepted.
AckFitsBoot(a) == a.env.boot = edge.boot

AckFits(a) == /\ a.env.boot = edge.boot
              /\ LastSequence(a.env) = LastSequence(edge.pending)

PostFails ==
    /\ call.stage = "post"
    /\ Fails
    /\ UNCHANGED <<vars, config, outbox, drawn, edge, latest, needs, crashes,
                   net, issued, applied>>

Acknowledged ==
    /\ call.stage = "post"
    /\ \E a \in acks : AckFits(a)
    /\ edge' = [edge EXCEPT !.next = LastSequence(edge.pending) + 1,
                            !.established = TRUE]
    /\ UNCHANGED <<vars, outbox, drawn, latest, needs, crashes, net, issued, applied>>

AcceptAck ==
    /\ Acknowledged
    /\ config' = edge.boot
    /\ call' = [call EXCEPT !.stage = "clear"]

AcceptFails ==
    /\ DiskMayFail
    /\ Acknowledged
    /\ Fails
    /\ UNCHANGED config

Settled ==
    IF edge.next > MaxEventsPerBoot
    THEN {[boot |-> b, prev |-> edge.boot, next |-> 1,
           established |-> FALSE, pending |-> None] : b \in NewBoots}
    ELSE {[edge EXCEPT !.pending = None]}

ClearOutbox ==
    /\ call.stage = "clear"
    /\ outbox' = None
    /\ \E e \in Settled :
          /\ edge' = e
          /\ drawn' = drawn \cup {e.boot}
          /\ IF call.again
             THEN /\ call' = At("publish", call.by)
                  /\ UNCHANGED needs
             ELSE /\ call' = Waiting
                  /\ needs' = RequiresStateSnapshot(e)
    /\ UNCHANGED <<vars, config, latest, crashes, net, issued, applied>>

ClearFails ==
    /\ DiskMayFail
    /\ call.stage = "clear"
    /\ Fails
    /\ UNCHANGED <<vars, config, outbox, drawn, edge, latest, needs, crashes,
                   net, issued, applied>>

\* The application ends, at any point; what it keeps is in the two files.
Crash ==
    /\ call.stage # "down"
    /\ crashes < MaxCrashes
    /\ crashes' = crashes + 1
    /\ edge' = None
    /\ latest' = None
    /\ needs' = FALSE
    /\ call' = Down
    /\ UNCHANGED <<vars, config, outbox, drawn, net, issued, applied>>

DeliveryInit ==
    /\ Init
    /\ config = None
    /\ outbox = None
    /\ drawn = {}
    /\ edge = None
    /\ latest = None
    /\ needs = FALSE
    /\ call = Down
    /\ crashes = 0
    /\ net = {}
    /\ issued = <<>>
    /\ applied = <<>>

Arrive(env) == Receive(env) /\ UNCHANGED <<reporter, net, issued, applied>>

ServerCommits ==
    /\ Commit
    /\ applied' = applied \o tx.env.events
    /\ UNCHANGED <<reporter, net, issued>>

ServerRuns == Internal /\ UNCHANGED <<reporter, net, issued, applied>>

DeliveryNext ==
    \/ Start \/ \E s \in State : Observe(s)
    \/ TimeoutLoaded \/ TimeoutLoads
    \/ PublishState \/ BeatFlush \/ BeatNothing
    \/ PostFails \/ AcceptAck \/ AcceptFails \/ ClearOutbox \/ ClearFails
    \/ Crash
    \/ ServerCommits \/ ServerRuns \/ \E env \in net : Arrive(env)

DeliverySpec == DeliveryInit /\ [][DeliveryNext]_deliveryVars

-----------------------------------------------------------------------------
(***************************************************************************)
(* Properties                                                              *)
(***************************************************************************)

\* The reporter's state and files have the shapes of ConnectionConfig,
\* DurableOutbox and EdgeReporter.
DeliveryTypeOK ==
    /\ TypeOK
    /\ config \in BootOrNone
    /\ outbox \in Envelope \cup {None}
    /\ drawn \subseteq Boot
    /\ edge \in Reporter \cup {None}
    /\ latest \in State \cup {None}
    /\ needs \in BOOLEAN
    /\ call \in [stage : Stage, by : Caller, again : BOOLEAN]
    /\ crashes \in Nat
    /\ net \subseteq Envelope
    /\ issued \in Seq(Event)
    /\ applied \in Seq(Event)

\* Whatever was lost, repeated or interrupted, on the wire or between the
\* writes of the two files, the report in the outbox is one the server takes:
\* as the next of the current boot, as a valid successor of it, or as a
\* replay.  The reporter never works itself into stale_boot, sequence_gap,
\* sequence_conflict or invalid_request, from which it has no way out.
NeverRefused ==
    outbox # None /\ tx = None => Accepts(outbox) \/ (Valid(outbox) /\ Replays(outbox))

\* A reporter that waits on a boot the server has never heard of knows that
\* it still has to send a complete snapshot, so a rotated or reloaded boot
\* does not stay silent.
FreshBootIsAnnounced ==
    call.stage = "wait" /\ edge # None /\ latest # None
    /\ ~edge.established /\ edge.pending = None
        => needs

\* What every state of the composition satisfies: the reporter, its two files and the
\* call in hand fit together, and a boot nobody has heard of announces a snapshot.
DeliveryInv == DeliveryTypeOK /\ FreshBootIsAnnounced

\* Every event written to the outbox is applied once and in order, and the
\* next one is not issued before that.
Feed == INSTANCE ExactlyOnceFeed WITH Item <- Event
FeedIsExactlyOnce == Feed!Spec

(***************************************************************************)
(* Fairness: the reporter thread runs and its timer fires; the disk and    *)
(* the network do not fail for ever; the server answers and not all of its *)
(* transactions are rolled back.                                           *)
(***************************************************************************)
DeliveryFairness ==
    /\ WF_deliveryVars(Start /\ edge' # None)
    /\ SF_deliveryVars(TimeoutLoaded)
    /\ SF_deliveryVars(TimeoutLoads /\ edge' # None)
    /\ SF_deliveryVars(PublishState /\ call'.stage = "post")
    /\ SF_deliveryVars(BeatFlush /\ call'.stage = "post")
    /\ WF_deliveryVars(BeatNothing)
    /\ SF_deliveryVars(AcceptAck)
    /\ SF_deliveryVars(ClearOutbox)
    /\ WF_deliveryVars(\E env \in net : Begin(env) /\ Arrive(env))
    /\ SF_deliveryVars(ApplyEvent /\ ServerRuns)
    /\ SF_deliveryVars(ServerCommits)

FairDeliverySpec == DeliverySpec /\ DeliveryFairness

\* What is written to the outbox is applied in the end, through crashes and
\* outages on either side.
FeedIsDelivered == Feed!FairSpec

\* The outbox does not stay occupied: every report is acknowledged in the end.
PendingIsAcknowledged == outbox # None ~> outbox = None

\* Nothing is kept back: neither an event that was written down nor a report that
\* waits, whatever crashes and outages come in between.
EverythingIsDelivered == FeedIsDelivered /\ PendingIsAcknowledged

\* When the reporter is idle with nothing left to send, the server shows what
\* the desktop shows.
NothingToSendMeansCurrent ==
    call.stage = "wait" /\ edge # None /\ latest # None
    /\ edge.pending = None /\ ~needs
        => presence # None /\ presence.snap.state = latest

\* A reporter that is loaded starts a boot of its own and leaves behind what
\* an earlier run could not get confirmed.
RestartDropsOutbox ==
    [][edge = None /\ edge' # None => edge'.pending = None]_deliveryVars
=============================================================================
