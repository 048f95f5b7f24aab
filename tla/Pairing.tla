------------------------------ MODULE Pairing ------------------------------
(***************************************************************************)
(* Pairing a desktop with an office: the pairing rows and the claim on the *)
(* server (claim-pairing.ts), EdgeEnrollment::pair on the device with the  *)
(* keyring and the connection file it fills step by step, and the reporter *)
(* thread (src-tauri/src/edge.rs) that is switched to the new connection   *)
(* while reports of the old one may be queued.  Another device that was    *)
(* given the code may claim it with its own key; the desktop may crash,    *)
(* the keyring may refuse to delete, requests and answers may be lost.     *)
(*                                                                         *)
(* Creating an office creates its agent, so a pairing code stands for its  *)
(* instance too.  Of a report only its boot matters here: EdgeIngest and   *)
(* EdgeDelivery have the sequences.                                        *)
(***************************************************************************)
EXTENDS Integers, Sequences, FiniteSets

CONSTANTS
    None,        \* no value
    Code,        \* pairing codes handed out by the server
    MaxSeeds,    \* bound: seeds the device may draw
    MaxBoots,    \* bound: boots the reporter may open
    MaxFaults,   \* bound: crashes of the desktop and refusals of its keyring
    MaxQueue,    \* bound: commands waiting for the reporter thread
    MaxFailed    \* MAX_FAILED_PAIRING_ATTEMPTS, here also where counting stops

VARIABLES
    rows,      \* onboarding_pairings: status, expired, failed, key that claimed it
    heads,     \* edge_instance_heads: the current boot of each instance
    pendingKey,\* keyring: pending_secret_name(origin, code) |-> seed
    deviceKey, \* keyring: device_secret_name(server, key) |-> seed, by instance
    config,    \* the connection file
    outbox,    \* the durable envelope of each instance, by its boot
    call,      \* where pair() stands; connection_guard is held unless it is "idle"
    reporter,  \* the EdgeReporter of the thread
    queue,     \* EdgeCommands: "snapshot" or "reload"
    drawn      \* seeds, boots, and faults of the desktop, so far

server == <<rows, heads>>
keyring == <<pendingKey, deviceKey>>
device == <<config, outbox>>
vars == <<server, keyring, device, call, reporter, queue, drawn>>

Seeds == 1..MaxSeeds

\* The key of somebody else, and no key.
OtherKey == MaxSeeds + 1
NoKey == 0

Boots == 1..MaxBoots

ASSUME PairingAssumption ==
    {MaxSeeds, MaxBoots, MaxFaults, MaxQueue, MaxFailed} \subseteq Nat

Reporter == [code : Code, boot : Nat, prev : Nat, pending : BOOLEAN]
Envelope == [boot : Nat, prev : Nat]
Connection == [code : Code, last : Boots \cup {0}]

\* An absent reporter, envelope or connection is none there is.
ASSUME AbsenceAssumption == None \notin Reporter \cup Envelope \cup Connection

Set(f, x, v) == [f EXCEPT ![x] = v]

Idle == [at |-> "idle", code |-> None, seed |-> NoKey]

----------------------------------------------------------------------------
(* The claim, one transaction under the lock of the pairing row. *)

\* recordFailedAttempt.
Failed(row) == [row EXCEPT !.failed = IF @ < MaxFailed THEN @ + 1 ELSE @]

\* Seeded defect: a claim of a claimed pairing is answered whatever the key.
VerdictTrusting(row, key) ==
    IF row.status = "claimed" THEN "replay"
    ELSE IF row.expired THEN "expired"
    ELSE IF row.failed >= MaxFailed THEN "limited" ELSE "enrolled"

\* What claimPairing decides for a key, in the order of its checks.
Verdict(row, key) ==
    IF row.status = "claimed" THEN IF row.key = key THEN "replay" ELSE "conflict"
    ELSE IF row.expired THEN "expired"
    ELSE IF row.failed >= MaxFailed THEN "limited" ELSE "enrolled"

\* Seeded defect: the claim does not record the key it was made with.
ClaimedKeyless(row, key) ==
    CASE Verdict(row, key) = "enrolled" -> [row EXCEPT !.status = "claimed"]
      [] Verdict(row, key) \in {"conflict", "expired"} -> Failed(row)
      [] OTHER -> row

Claimed(row, key) ==
    CASE Verdict(row, key) = "enrolled" -> [row EXCEPT !.status = "claimed", !.key = key]
      [] Verdict(row, key) \in {"conflict", "expired"} -> Failed(row)
      [] OTHER -> row

OtherClaims(c) ==
    /\ Verdict(rows[c], OtherKey) # "replay"
    /\ rows' = Set(rows, c, Claimed(rows[c], OtherKey))
    /\ rows' # rows
    /\ UNCHANGED <<heads, keyring, device, call, reporter, queue, drawn>>

Expire(c) ==
    /\ ~rows[c].expired
    /\ rows' = [rows EXCEPT ![c].expired = TRUE]
    /\ UNCHANGED <<heads, keyring, device, call, reporter, queue, drawn>>

----------------------------------------------------------------------------
(* EdgeEnrollment::pair. *)

\* One more fault of the desktop.
Faulty == drawn.faults < MaxFaults
Fault(d) == [d EXCEPT !.faults = @ + 1]

Proceed(at) == call' = [call EXCEPT !.at = at]

\* Seeded defect: every attempt draws a seed of its own.
SeedOfCodeFresh(c) == 0

\* The seed kept for this code, 0 when there is none.
SeedOfCode(c) == pendingKey[c]

\* The guard is taken and the seed is in the keyring before anything is sent.
PairBegins(c) ==
    /\ call = Idle
    /\ LET fresh == SeedOfCode(c) = 0
           seed == IF fresh THEN drawn.seeds + 1 ELSE SeedOfCode(c) IN
       /\ seed \in Seeds
       /\ drawn' = IF fresh THEN [drawn EXCEPT !.seeds = @ + 1] ELSE drawn
       /\ pendingKey' = Set(pendingKey, c, seed)
       /\ call' = [at |-> "claim", code |-> c, seed |-> seed]
    /\ UNCHANGED <<server, deviceKey, device, reporter, queue>>

\* The request is lost, or the server decides and the answer arrives or is lost; an
\* error answer, and a time-out, end pair() with the seed still kept.
ClaimIsAnswered ==
    /\ call.at = "claim"
    /\ \/ UNCHANGED rows /\ call' = Idle
       \/ /\ rows' = Set(rows, call.code, Claimed(rows[call.code], call.seed))
          /\ \/ Verdict(rows[call.code], call.seed) \in {"enrolled", "replay"} /\ Proceed("store")
             \/ call' = Idle
    /\ UNCHANGED <<heads, keyring, device, reporter, queue, drawn>>

StoreKey ==
    /\ call.at = "store"
    /\ deviceKey' = Set(deviceKey, call.code, call.seed)
    /\ Proceed("write")
    /\ UNCHANGED <<server, pendingKey, device, reporter, queue, drawn>>

\* Seeded defect: the last accepted boot of the old connection is carried over.
WriteConfigKeepsLast ==
    /\ call.at = "write"
    /\ config' = [code |-> call.code, last |-> IF config = None THEN 0 ELSE config.last]
    /\ Proceed("delete")
    /\ UNCHANGED <<server, keyring, outbox, reporter, queue, drawn>>

\* The connection file is replaced, without a last accepted boot.
WriteConfig ==
    /\ call.at = "write"
    /\ config' = [code |-> call.code, last |-> 0]
    /\ Proceed("delete")
    /\ UNCHANGED <<server, keyring, outbox, reporter, queue, drawn>>

\* The seed of the code is dropped and the thread told; a keyring that refuses makes
\* pair() fail with everything already in place.
DropPending ==
    /\ call.at = "delete"
    /\ \/ /\ pendingKey' = Set(pendingKey, call.code, 0)
          /\ queue' = Append(queue, "reload")
          /\ UNCHANGED drawn
       \/ Faulty /\ drawn' = Fault(drawn) /\ UNCHANGED <<pendingKey, queue>>
    /\ call' = Idle
    /\ UNCHANGED <<server, deviceKey, device, reporter>>

----------------------------------------------------------------------------
(* The reporter thread.  Every arm of its loop holds the guard. *)

\* EdgeReporter::load: the boot of a surviving envelope, or a new one after the last
\* accepted.
Loaded ==
    IF config = None \/ deviceKey[config.code] = 0 THEN None
    ELSE LET c == config.code IN
         IF outbox[c] # None
         THEN [code |-> c, boot |-> outbox[c].boot, prev |-> outbox[c].prev, pending |-> TRUE]
         ELSE [code |-> c, boot |-> drawn.boots + 1, prev |-> config.last, pending |-> FALSE]

CountBoot(r) ==
    drawn' = IF r # None /\ ~r.pending THEN [drawn EXCEPT !.boots = @ + 1] ELSE drawn

\* The server knows the boot, or lets it follow its current one.
Welcome(r) == heads[r.code] \in {r.boot, r.prev}

\* Seeded defect: the acknowledgement is written back without looking.
AckedUnchecked(r) ==
    /\ config' = [code |-> r.code, last |-> r.boot]
    /\ outbox' = Set(outbox, r.code, None)
    /\ reporter' = [r EXCEPT !.pending = FALSE]

\* accept_ack: the file is rewritten only if it still names this connection.
Acked(r) ==
    /\ config' = IF config # None /\ config.code = r.code
                 THEN [config EXCEPT !.last = r.boot] ELSE config
    /\ outbox' = Set(outbox, r.code, None)
    /\ reporter' = [r EXCEPT !.pending = FALSE]

\* publish_state of reporter r: the envelope is durable before it is posted; then it
\* is lost, refused, accepted with its answer lost, or accepted and acknowledged.
Publish(r) ==
    \/ /\ outbox' = Set(outbox, r.code, [boot |-> r.boot, prev |-> r.prev])
       /\ reporter' = [r EXCEPT !.pending = TRUE]
       /\ heads' \in {heads} \cup (IF Welcome(r) THEN {Set(heads, r.code, r.boot)} ELSE {})
       /\ UNCHANGED config
    \/ Welcome(r) /\ heads' = Set(heads, r.code, r.boot) /\ Acked(r)

PublishOrRest(r) ==
    IF r = None THEN reporter' = None /\ UNCHANGED <<heads, config, outbox>> ELSE Publish(r)

\* A new status, or a tick of the heartbeat that still owes one, with a reporter.
Snapshot ==
    /\ call = Idle /\ queue # <<>> /\ Head(queue) = "snapshot"
    /\ queue' = Tail(queue)
    /\ PublishOrRest(reporter)
    /\ UNCHANGED <<rows, keyring, call, drawn>>

\* Seeded defect: a reload keeps the reporter there is.
ReloadKeepsReporter ==
    /\ call = Idle /\ queue # <<>> /\ Head(queue) = "reload"
    /\ queue' = Tail(queue)
    /\ LET r == IF reporter = None THEN Loaded ELSE reporter IN
       /\ r # None => r.boot \in Boots
       /\ IF reporter = None THEN CountBoot(r) ELSE UNCHANGED drawn
       /\ PublishOrRest(r)
    /\ UNCHANGED <<rows, keyring, call>>

Reload ==
    /\ call = Idle /\ queue # <<>> /\ Head(queue) = "reload"
    /\ queue' = Tail(queue)
    /\ Loaded # None => Loaded.boot \in Boots
    /\ CountBoot(Loaded)
    /\ PublishOrRest(Loaded)
    /\ UNCHANGED <<rows, keyring, call>>

\* The heartbeat interval passes: a missing reporter is loaded, what is owed is sent.
HeartbeatDue ==
    /\ call = Idle /\ queue = <<>>
    /\ LET r == IF reporter = None THEN Loaded ELSE reporter IN
       /\ r # None /\ r.boot \in Boots
       /\ IF reporter = None THEN CountBoot(r) ELSE UNCHANGED drawn
       /\ PublishOrRest(r)
    /\ UNCHANGED <<rows, keyring, call, queue>>

StatusChanges ==
    /\ Len(queue) < MaxQueue
    /\ queue' = Append(queue, "snapshot")
    /\ UNCHANGED <<server, keyring, device, call, reporter, drawn>>

\* The desktop ends and starts again; the thread loads what the disk has.
Crash ==
    /\ Faulty
    /\ call' = Idle /\ queue' = <<>>
    /\ Loaded # None => Loaded.boot \in Boots
    /\ reporter' = Loaded
    /\ drawn' = Fault([drawn EXCEPT !.boots =
                           IF Loaded # None /\ ~Loaded.pending THEN @ + 1 ELSE @])
    /\ UNCHANGED <<server, keyring, device>>

Init ==
    /\ rows = [c \in Code |-> [status |-> "pending", expired |-> FALSE, failed |-> 0, key |-> NoKey]]
    /\ heads = [c \in Code |-> 0]
    /\ pendingKey = [c \in Code |-> 0] /\ deviceKey = [c \in Code |-> 0]
    /\ config = None /\ outbox = [c \in Code |-> None]
    /\ call = Idle /\ reporter = None /\ queue = <<>>
    /\ drawn = [seeds |-> 0, boots |-> 0, faults |-> 0]

PairStep == ClaimIsAnswered \/ StoreKey \/ WriteConfig \/ DropPending

Thread == Snapshot \/ Reload \/ HeartbeatDue

Next ==
    \/ \E c \in Code : OtherClaims(c) \/ Expire(c) \/ PairBegins(c)
    \/ PairStep
    \/ Thread
    \/ StatusChanges
    \/ Crash

PairingSpec == Init /\ [][Next]_vars

\* pair() ends, and the thread gets the guard although people pair again and again;
\* nobody has to pair.
FairPairingSpec == PairingSpec /\ WF_vars(PairStep) /\ SF_vars(Thread)

----------------------------------------------------------------------------
(* Properties. *)

PairingTypeOK ==
    /\ rows \in [Code -> [status : {"pending", "claimed"}, expired : BOOLEAN,
                         failed : 0..MaxFailed, key : {NoKey, OtherKey} \cup Seeds]]
    /\ \A c \in Code : rows[c].status = "claimed" <=> rows[c].key # NoKey
    /\ heads \in [Code -> Boots \cup {0}]
    /\ {pendingKey, deviceKey} \subseteq [Code -> Seeds \cup {NoKey}]
    /\ config \in Connection \cup {None}
    /\ \A c \in Code : outbox[c] # None => outbox[c].boot \in Boots /\ outbox[c].prev < outbox[c].boot
    /\ call.at \in {"idle", "claim", "store", "write", "delete"}

\* Whatever answer is lost and wherever the desktop crashes, the key a pairing was
\* claimed with stays in the keyring, so that the same code can be claimed again.
EnrolledKeyIsHeld ==
    \A c \in Code : rows[c].key \in Seeds => rows[c].key \in {pendingKey[c], deviceKey[c]}

\* A connection on disk belongs to a pairing this desktop won, with the key that
\* will sign its reports; another device that had the code has no connection to spoil.
ConnectionIsOurs ==
    config # None => rows[config.code].key = deviceKey[config.code]

\* Only a pairing replaces the connection: the acknowledgement of a report sent over
\* the old one, handled after the switch, does not bring it back.
OnlyPairingSwitches ==
    [][config # None /\ config' # config =>
        \/ call.at = "write"
        \/ config'.code = config.code /\ config'.last > config.last]_vars

\* A boot the desktop opens is the server's current one or may follow it ("a new
\* boot must compare-and-swap against the server's current boot"): a reporter that
\* is fenced out stays so, it retries the same envelope for ever.
NeverFencedOut == reporter # None => Welcome(reporter)

\* ... which only a crash of the desktop or a refusal of its keyring brings about,
\* not the pairings, lost requests and lost answers by themselves.
FencedOutOnlyByFaults == drawn.faults = 0 => NeverFencedOut

\* Whatever is lost and whoever else has the code, the keyring, the connection file,
\* the reporter and the server's rows belong together.
PairingInv ==
    /\ PairingTypeOK
    /\ EnrolledKeyIsHeld
    /\ ConnectionIsOurs
    /\ FencedOutOnlyByFaults

\* The thread ends up reporting over the connection on disk, as long as the keyring
\* has not kept pair() from telling it.
ReporterSwitches ==
    (config # None /\ call = Idle) ~>
        \/ reporter # None /\ config # None /\ reporter.code = config.code
        \/ drawn.faults > 0
=============================================================================
