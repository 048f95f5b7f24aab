# A verification project for WorkBuddy Buddy

WorkBuddy Buddy is a desktop pet that shows what an AI agent is doing, and a
Control Plane that lets a team see its pets in a shared office. This directory
holds TLA+ models of its protocol, the TLC runs that check them on small
instances, and TLAPS proofs of what holds for every instance. Paths below are
relative to the repository unless they name a file of this directory.

    tlc -workers 2 -config MCEdgeIngest.cfg MCEdgeIngest        # a run
    tlapm EdgeDelivery_proofs.tla                               # a proof module

`PROJECT.json` lists every component, run, seeded defect, modelled definition
(with the lines it stands for), finding, hazard and theorem.

## 1. The system

    hooks --> spool --> watcher --> core machine --> reporter + outbox
                                                        | HTTPS, signed
    office page <-- SSE <-- broker <-- revisions <-- ingestion, sweep, ticks

| Component | State it keeps | Operations | Talks to |
|---|---|---|---|
| Hook spool (`status-runtime.mjs`, `hooks/*.py`) | spool file, rotated file, lock file | append, rotate, break a stale lock | watcher, through the file |
| Watcher (`crates/watch`) | offset, file identity, partial line | read, detect rotation | core machine, by channel |
| Core machine (`crates/core`) | sessions with state and deadline | apply, advance, snapshot | reporter, by channel |
| Reporter thread (`src-tauri/src/edge.rs`) | latest snapshot, selected pet, `state_needs_send`, heartbeat timer | Snapshot, PetSelected, ReloadConnection, timeout | `EdgeReporter` |
| Edge client (`crates/edge`) | connection file, outbox file, boot, sequence, pending envelope | load, publish_state, heartbeat, flush, accept_ack, pair | Control Plane over HTTP |
| Ingestion (`ingest-edge-report.ts`) | instance head, boots, receipts and fingerprints, presence, activity intervals | ingest one report in one transaction | projector |
| Lease sweep (`expire-leases.ts`) | none of its own | read due leases, close one per transaction | ingestion, by row locks; projector |
| Verifier, limits (`edge-verifier.ts`, `edge-*-rate-limit*.ts`) | fixed-window counters | verify, count, refuse | ingestion |
| Projector, consent, tick (`public-office/application`) | revisions, current projection, eligibility intervals | append a revision, change consent, tick | ingestion, sweep, settlement |
| Settlement, leaderboard | day results | settle a day, score intervals | activity and eligibility intervals |
| Retention, tokens, reader, broker, SSE | minimum replayable revision, view tokens, subscribers | prune, rotate a token, notify, resume | browsers |
| Onboarding, pairing (`onboarding`, `enrollment`) | pairing codes, claims, credentials | create, claim, poll | Edge client |
| Approval channel (`approval.rs`, `approval-hook.mjs`, `frontend/index.html`) | pending requests, the bubble and its queue | ask, show, decide, time out | WorkBuddy's own prompt |
| Pages (`public/start.js`, `public/office.js`) | pairing shown, poll and countdown; revision shown, fetch generation, event source | create, poll, depart; fetch, follow, recover | onboarding; reader and stream |
| Shell, bridge, migrations, tools | - | presentation, start-up and I/O | - |

### What is hard, and what makes each part correct

* **Ingestion and sweep** are concurrent transactions over the same rows,
  ordered by row locks and driven by a clock. A report may be repeated, delayed
  past the boot that sent it, or aborted anywhere. Correct means: a fenced boot
  never acts again; a report is applied and answered in one way only; the two
  records of an idle stretch (presence and interval) agree; no time without a
  lease is ever scored; no internal consistency check fires; a lease that runs
  out is settled.
* **Delivery** crosses a crash-prone process with two files, a lossy network and
  a server that may commit without being heard. Correct means: the pending
  report is one the server takes, and every event written to the outbox is
  applied once, in order, and in the end.
* **Spool and watcher**: short processes append under a lock file that may be
  stale, rotate under a reader that does not lock, and any of them may be
  killed. Correct means: records reach the machine in order, none twice, and
  each that stays readable.
* **Core machine**: it has no timer, so it looks at time-to-live boundaries late
  and forgets sessions. Correct means: what it reports, and since when, is what
  an observer would report who looks all the time and forgets nothing.
* **Revisions and stream**: five writers, one lock, readers that are behind, and
  consent that takes back what was published. Correct means: no hole in the log,
  nothing withdrawn in it or on the wire, no wake-up lost.
* **Settlement and scoring**: the office lock must keep a report from changing a
  day that was settled, while the two lock in opposite orders; the statement
  must compute what the rules of the day say.
* **Pairing**: a key in the keyring, a row on the server and a file must come to
  agree although any answer may be lost and the application may end in between.
* **Approval**: a hook, a thread, a bubble and a second client with a time-out
  each. Correct means: one decision, and an end for every hook.
* **Pages**: fetches, polls, timers and connection events in any order.

`PROJECT.json` lists the hazards with their lines and the properties that cover
them; those without a property say why.

## 2. What is modelled

| Module | Stands for | Composes with |
|---|---|---|
| `EdgeIngest` | the ingest and sweep transactions of one instance | - |
| `EdgeDelivery` | reporter thread, edge client, its files, the network | EXTENDS `EdgeIngest`; implements `ExactlyOnceFeed` |
| `OfficeRevisions` | the transactions on one office row | - |
| `OfficeStream` | broker, event route and its pump | EXTENDS `OfficeRevisions`; implements `OfficeFeed` |
| `OfficeBrowser` | the office page | EXTENDS `OfficeFeed`, the feed the stream was shown to implement |
| `StartPage`, `OfficeVisit` | the page /start; the tab that goes from it to the office | `OfficeVisit` EXTENDS `StartPage` and `OfficeBrowser` |
| `Scoring`, `Settlement` | the leaderboard statement and its references; one office day with its writers | `Settlement` EXTENDS `Scoring` |
| `Pairing` | claim on the server, pair() on the device, the switch of the reporter | stands behind `EdgeDelivery` |
| `CoreMachine` | the status machine | fed by `EventSpool`'s watcher, feeds the reporter |
| `EventSpool` | hooks, lock, rotation, watcher | - |
| `Approval` | hook, handler, bubble | - |

Common conventions: a transaction that takes its row lock first and holds it to
its commit is one step, and what it read before the lock is a step of its own; a
JavaScript handler is one step between two awaits; a process that other
processes can see between two system calls is one step per call. History
variables are marked "observer" in the modules; nothing reads them but the
properties. A definition marked "Seeded defect" is a plausible mistake in the
definition it precedes: put in its place, the run finds the property violated.

### `EdgeIngest`: one instance of ingestion and sweep

Every ingest and every sweep transaction starts with `SELECT .. FOR UPDATE` on
its `agent_instances` row, so per instance they are serial and the model keeps
at most one open ingest transaction (`tx`). The transaction is still several
steps - `Begin`, one `ApplyEvent` per event, `Commit` - because the clock moves
and the sweep reads candidates (unlocked) in between, and `Abort` may end it
anywhere. The tables change at `Commit` only.

| Variable | Code |
|---|---|
| `head`, `boots` | `edge_instance_heads`, `agent_instance_boots` (generation 0: no row) |
| `receipts` | `edge_report_receipts` with their fingerprints |
| `presence` | the row of `current_presence`; `closed` is `lease_closed_at IS NOT NULL` |
| `open`, `closed` | `derived_activity_intervals` without and with an end |
| `tx` | the open transaction's locals and uncommitted writes |
| `candidate` | the instance is among the sweep's candidates |
| `acks` | responses sent, which a client may yet receive |
| `now` | `clock_timestamp()` |
| `fault` | history: an internal error was raised |

`Opens`, `Continues` and `Replays` are the three ways a report is taken; one
that is none of them gets a problem response and changes nothing, so refusals
have no action. `Prepared` is all that is written before the first event
(fencing, closing a lost lease at the lease's end, handing the interval to a
seamless successor); `Preparable` and `EventApplies` are what the statements
demand (`rowCount !== 1`, the CHECKs, the exclusion constraint), and their
failure is `BeginFails`, `ApplyFails` or `SweepFails`, which raise `fault`.
A state is one symbolic snapshot (display, activity, pet) with `ActivityOf`;
`ContractState` is what the report schema admits. The envelope carries what
decides about it; signature and timestamps are left out, so two reports of the
same content are the same report and a *re-signed* repeat is not distinguished.

### `EdgeDelivery` and `ExactlyOnceFeed`

`EdgeDelivery` adds the reporter thread (`call` is where it stands),
`EdgeReporter` (`edge`), its two files (`config`, `outbox`), and the network:
`net` holds every report ever sent, and any of them may arrive at any time,
again and again; `acks` holds every answer, and any of them that fits may be the
response to a request. A post may also just fail, before or after the server
committed. `accept_ack` writes memory, connection file and outbox in this order,
and `Crash` or a failing disk may come between any two (`AcceptAck`,
`AcceptFails`, `ClearOutbox`, `ClearFails`). A pet selection is a change of the
snapshot. `ExactlyOnceFeed` is what this promises: an item is issued when the
last one has been applied, and applied once; `issued` maps to the events ever
written to the outbox, `applied` to those of committed transactions.

### `OfficeRevisions`, `OfficeStream`, `OfficeFeed`

One office: `office` (revision, minimum replay cursor), the retained `events`
with what each shows, the `current` projection, the view `token`, the `consent`
of one mount, and `leases`, the streams that hold the row `FOR SHARE`. Writers
are consent changes (a lowering records the removal revision, withdraws the
older ones and moves the minimum), presence revisions of ingestion and sweep,
the projection tick (`TickCandidate` and `TickReads` without the lock,
`TickCommits` with it), retention, and the creation, rotation and revocation of
tokens. Of a snapshot the model keeps what consent decides about (`shows`) and
its time.

`OfficeStream` is the handler of GET .../events. `step` is the await it stands
at; `live` is `initialReplayComplete`, `over` is `closed`, `pending` is
`pendingPump`. The broker loses its session and everything on its way, listens
again, and wakes everybody. A COMMIT that releases a page may fail. The stream
implements `OfficeFeed`: readers that join at a revision the log still has, are
told one revision after the other, and leave; heads that move, starts that move
up. The feed is also the server of the office page, so the two compositions meet
at a checked interface and not at an assumption.

### `OfficeBrowser`, `StartPage`, `OfficeVisit`

`OfficeBrowser` keeps what decides what office.js does next: the revision shown,
the fetch of this `connectionGeneration` and the results of earlier ones
(`late`), the event source with what is on its wire, the retry timer, and
whether the browser said it is online. `StartPage` is the pairing panel of
start.js: countdown, poll timer, polls whose answers are on their way (of any
pairing, the abandoned ones included), and the departure 1.2 s after a success.
Two polls of one pairing that stand at the same point count as one. `OfficeVisit`
lets one tab go through both.

### `Scoring`, `Settlement`

`Scoring` translates the interval statement (raw and valid intersections, gaps
and islands, grace, rounding down to seconds, `score_reached_at`), the domain
function and the idle stage, all as operators on a ledger. `Settlement` is one
office day: reports and sweeps lock the agent and then the offices its mounts
name, consent locks the office, and the tick locks the office and then, through
the foreign key of the result, the winning agent. `DetectDeadlock` aborts the
tick or the report, whichever PostgreSQL may pick, and both retry.

### `Pairing`

Codes, each with its pairing row (a code creates its own agent and so stands for
its instance), the keyring under its two names, the connection file, the outbox,
`call` (where pair() stands), the reporter thread with its queue, and another
device that was given a code. A request or its answer may be lost; the desktop
may crash, or its keyring refuse, `MaxFaults` times. Of a report only its boot
is kept: `EdgeIngest` and `EdgeDelivery` have the sequences.

### `CoreMachine`

`sessions` and the two times that outlive an evicted session, against an
observer: the latest signal of every session ever heard, the first, and the last
end of a blocking signal. Events come in any order of times, as the code accepts
them; the comparison is made at every instant from the last event on.

### `EventSpool`

One action per file-system call of a hook (create the lock, look at it, unlink
it, stat, rename, open, write, write the rest, close, compare and unlink), one
per poll of the watcher. A record is two pieces; the second ends the line. A hook
may be killed anywhere while it holds the lock, and a write may fail after its
first piece. Files are inodes.

### `Approval`

`hook` (the process), `thread` (the /approve handler, with the instants between
its time-out and its lock), `pending` and `channel`, the two halves of `resolve`,
clicks and window events under way, the bubble (`queue`, `cur`, `left`), and
ticks of time. The bubble may give up `Margin` ticks before the window, as the
code's 48 s and 50 s do.

## 3. The runs

| Run | Bounds | Shows |
|---|---|---|
| `ingest` | 2 boots, any predecessor, sequences 1..2, single events and batches of two that change the activity, 3 admitted snapshots (two of one activity) and one inadmissible, lease 2, clock 0..4 | ledger, fencing, idle continuity; a due lease is settled |
| `clock` | the same reports, lease 1, clock 0..3 and back | what holds however the clock moves, failing consistency checks included |
| `delivery` | 2 crashes, failing disk, 3 events, rotation after 2, 6 boots | delivery is safe, implements the feed, and delivers |
| `delivery_poison` | a display state outside the schema | **violation** of `NeverRefused` |
| `revisions` | two consents, 5 revisions, replay of 2, interval 2, a caller's time 1 ahead, clock 0..4, 2 tokens | the revision log under all its writers |
| `stream` | one stream, pages of up to 2, 3 revisions, 2 tokens, lost sessions, failing COMMITs | wake-ups, leases, disclosure, the feed, progress |
| `visit` | 2 pairings, 3 revisions, one superseded fetch at a time | both pages: a way on, the way in, no step back, the current revision |
| `day` | one agent, 2 transactions each open for up to 1, one opt-in, day 1..5 at half seconds; or any ledger of up to 3 intervals over 0..6 | settlement under its locks; scoring against its references |
| `core` | 2 sessions (symmetric), clock 0..4, every signal, times-to-live 1..3, ladder 1..4 | the machine is the observer |
| `spool` | 3 hooks, files of 2 pieces, 3 inodes, kills and torn writes | lock, growth, order, application |
| `approval` | 2 requests, window 2, margin 1, short hooks, another client, an application that stops | one decision; every hook ends |
| `pairing` | 2 codes, 3 seeds, 4 boots, 1 fault, 1 failed attempt counted | keyring, file, row and reporter |

Every invariant named `...Inv` is the conjunction of the module's named parts,
its type invariant among them; each part has a seeded defect of its own, listed
under the conjunction.

Why the bounds are enough.

* `ingest`: two boots give a predecessor, a successor and a delayed predecessor;
  a range only meets its neighbours; a clock of twice the lease lets a lease run
  out, be closed, and a second one begin.
* `delivery`: rotation after two events stands for 256: three events force one
  rotation, and with two crashes a boot is resumed, replaced, and replaced again.
  The boots do not run out within these bounds. Its clock stands still: leases
  are the subject of `ingest`, and nothing the reporter does depends on them.
* `revisions`: five revisions let retention, with a replay of two, move the start
  twice and a lowering come between; two consents make a lowering that keeps one.
* `stream`: one stream, because streams share nothing but the office row, which
  they hold in the same mode; three revisions let a page end before the head. A
  revision may be withdrawn while it is on a page, on the wire or neither.
* `visit`: the second pairing is what the late answers of the first can be
  mistaken for; a superseded fetch is late with respect to all newer ones at once.
* `day`: three intervals are the least with one that joins two others; half
  seconds make rounding visible. The ledger is written in two ways, chosen at the
  start (`writer`): by the transactions of `Settlement`, in a day that is settled,
  or by anyone, who may write ledgers the transactions never produce
  (overlapping, empty), because the statement defends against them. The second
  also has a longer day. One agent suffices for the opposite lock orders; with
  two (`Agent = {1, 2}`, `MaxTime = 4`) ties between candidates come in, which
  costs minutes more than a run should.
* `core`: with two sessions one may be evicted by the other; a third would be
  evicted in the same way. Four instants pass each time-to-live.
* `spool`: the third hook is the one that finds the lock the second has put in
  place of a stale one; a third file is needed to rotate twice.
* `approval`: one request on screen and one queued behind it.
* `pairing`: two codes give a connection and its successor, the third seed is for
  a key drawn again; one fault is a crash or a refusal at any point. Attempts are
  counted only on pairings that are claimed or expired, which are answered before
  the limit of attempts is looked at (`claim-pairing.ts:93-128`), so the limit
  itself never answers, and one counted attempt is enough.

Deadlock is checked in `core`, `stream`, `spool` and `pairing`. The others may
stop, since clocks, events and crashes are bounded: `ingest`, `clock`,
`delivery`, `revisions`, `day` when the clock has reached its bound, `approval`
when all requests are decided, `visit` when nothing is left to claim or show.

### Conditions in the properties

* `LockIsExclusive` and `GrowthIsBounded` are stated while no hook has been
  killed (`Undisturbed`), `FencedOutOnlyByFaults` and `ReporterSwitches` while
  the desktop had no fault, `ClaimOpensTheOffice` unless the page says that the
  pairing has expired, `StreamMovesOn` unless the handler ended with an exception
  (`Served`). Section 5 says what happens otherwise.
* `EveryRecordIsApplied` speaks of records that stand on a line of their own in a
  file that has not been rotated away, and `Reuses = FALSE` says that a file
  system does not give the number of the unlinked file to the next one at once;
  if it does, the watcher takes the new file for the old.

### Fairness

* `Fairness` (ingest): the sweep timer fires (`setInterval`, weak); row locks are
  queued, so a sweep that asks for the lock gets it although reports keep
  arriving (strong); an open transaction ends (weak).
* `DeliveryFairness`: the reporter thread runs and its timeout fires; a step of
  it that can fail (disk, request) does not fail for ever (strong); reports
  that were sent and are acceptable reach the server (weak); not all of the
  server's transactions are rolled back (strong). Nothing is assumed of crashes
  but their number.
* `OfficeFairness`: the tick's timer fires, and its transaction, which waits in
  the queue of the row lock, does not fail for ever (strong).
* `StreamFairness`: awaits end, with success or failure, and the fallback
  interval fires. Nothing is assumed of broker or client.
* `SettlementFairness`: transactions queue for locks (strong), a deadlock is
  found after `deadlock_timeout` (weak), the tick comes round (weak).
* `StartFairness`, `BrowserFairness`: timers fire; polls, fetches and connections
  do not fail for ever (strong); the browser comes online again.
* `FairPairingSpec`: pair() goes on (weak); the thread takes its commands although
  pairings keep interrupting (strong).
* `FairSpoolSpec`: the watcher polls (weak). Nothing is assumed of the hooks.
* `FairApprovalSpec`: processes run, and the handler's, the hook's and the bubble's
  time-outs fire. Nobody has to click.

## 4. The proofs

Every invariant and every action property a passing run checks is a theorem for
all values of the constants, but for what the table adds under "Assumes".
Eight modules hold the proofs, each for a module and what it extends:

| Theorem | Assumes | Property |
|---|---|---|
| `EdgeDelivery_proofs`: `TypeCorrect` | - | `TypeOK` |
| `NeverFaults`, `PresenceAgrees`, `OfflineIsNeverScored` | the clock of the database is not set back | `NoIntegrityFault`, `PresenceMatchesInterval`, `NoOfflineTime` |
| `IdleIsContinuous` | the same | `IdleContinuity` |
| `ReceiptsTile`, `AcksFinal` | - | `ReceiptsTileAccepted`, `AcksAreFinal` |
| `Fenced`, `HistoryKept` | - | `FencedForGood`, `HistoryIsImmutable` |
| `ReporterFits` | - | `DeliveryInv` |
| `OutboxIsAcceptable` | the contract admits every snapshot the core can show | `NeverRefused` |
| `DeliveryImplementsFeed` | - | `FeedIsExactlyOnce` (refinement of `ExactlyOnceFeed`) |
| `OfficeStream_proofs`: `LogIsSound`, `OnlyOldRetires` | - | `RevisionsInv`, `OnlyOldIsRetired` |
| `LocksAreGivenBack`, `OnlyConsentedIsWritten` | - | `StreamInv`, `DisclosureIsConsented` |
| `StreamImplementsFeed` | - | `StreamFollowsLog` (refinement of `OfficeFeed`) |
| `NoWakeUpIsLost` | - | `NoLostWakeUp` |
| `OfficeVisit_proofs`: `NobodyIsStranded`, `DisplayGoesOn` | - | `VisitInv`, `DisplayNeverGoesBack` |
| `PageReadsTheFeed` | - | the page is a reader of `OfficeFeed` |
| `Settlement_proofs`: `TypesAndLocks` | - | `SettlementTypeOK` |
| `SettledWithinGrace`, `DaySettledForGood` | the application's clock is not ahead; no transaction is open for the grace and a second | `SettlementInv` |
| `SettledForGood`, `WatermarkIsHeld` | the application's clock is not ahead; no opt-in overtakes a report | `SettlementInv`, `WatermarkHolds` |
| `DayIsScored`, `ScoresNeverFall` | - | `ScoringInv`, `ScoreNeverFalls` |
| `CoreMachine_proofs`: `MachineIsExact`, `QuietIsKept` | - | `MachineInv`, `QuietKeepsTheInterval` |
| `EventSpool_proofs`: `LockDoesItsWork`, `AppliedAsAccepted` | - | `SpoolInv`, `AppliedInOrder` |
| `Approval_proofs`: `ApprovalHolds` | - | `ApprovalInv` |
| `Pairing_proofs`: `PairingHolds`, `PairingAloneSwitches` | - | `PairingInv`, `OnlyPairingSwitches` |

They rest on the assumptions the modules state about their constants, which TLC
evaluates in the runs of those modules. Most say that a bound is a number. The
others are: None is none of the records it stands beside (`NoneAssumption`,
`AbsenceAssumption`); the ladder of idle stages does not descend
(`CoreAssumption`; `crates/core/src/lib.rs:197-200`); the contract admits only
snapshots the core can show, each with one activity (`SnapshotAssumption`). The
hypothesis of `OutboxIsAcceptable` is what the code does not keep: `delivery_poison`
is its counterexample.

### Ingestion

None of the properties is inductive by itself:

* `TypeInv` adds to `TypeOK` that a transaction which has applied an event has a
  snapshot (`Started`); without it a commit could write a presence of None.
* `IInv` says how the tables agree (`LedgerInv`: the lease is the last report's,
  the interval's start is covered by leases up to the present lease, a closed
  presence's lease is past), that ended history lies in the past and under
  leases (`HistoryInv`), and what the uncommitted copy looks like between
  events (`TransactionOK`: until a broken interval is reopened there is none,
  and from then on snapshot and interval belong together). "A closed presence's
  lease is past" is the conjunct a clock that steps back destroys.
* `FInv` says that the current boot is on record and unfenced (`FenceInv`),
  that receipts tile its sequences (`ReceiptInv`), that acknowledged reports are
  of boots on record and keep their receipt while current (`AckInv`), and that
  an open transaction still continues, or still succeeds, the head it began
  with (`FrameInv`, the row lock at work). It does not mention the clock, so its
  theorems hold however the clock moves.

* `ContinuityInv` says what the open transaction has made of the interval it
  found: its copy has the committed start as long as the events so far keep the
  activity, and the transaction's time from the first that changes it; where it
  is broken, the committed tables show the reason. The tables cannot move under it.

### Delivery

`DInv` puts `FInv` together with the reporter's side. `Taken` says of a report that
the server has committed it. `WireInv`: what is under way is the outbox or taken, so
a late copy can do no harm. `FilesInv`: without an outbox the connection names the
server's current boot, and an outbox is the last report that was taken or the next
one that will be. `EdgeInv`: the reporter in memory is the one of the outbox, or
continues the current boot at the sequence the server expects, or succeeds it with a
boot nobody knows. `CallInv` keeps what `accept_ack` knows between its three writes,
and this is what a crash between any two of them has to leave true of `FilesInv`. With
`FeedInv` (what is issued and not applied is the event in the outbox) every step is a
step of the feed or a stutter.

### Revisions and stream

`RevisionsInv` is inductive as it stands, so the log's proof is about the operators
that write it. `RecordKeepsTheLog` is recordPublicRevision, under flags that are the
mount's consent from this transaction on: the new row is next to the head, it is no
earlier (`ProjectionIsLater`), and where something is taken back the rows that show it
are gone. `RetainKeepsTheLog` is the retention job, which keeps a suffix with the head
in it, and `ShownIsMonotone` is why a mount that shows more may keep its past. What the
tick has read early is no part of the invariant: it only decides whether the tick writes,
and what it then writes is the consent as it stands under the lock, at a time no earlier
than the current projection's.

The stream is proved in two layers over the log.

* `PumpInv` adds to `RevisionsInv` the shape of a stream, `LeasesAreGivenBack`, and
  `PageOK`: a page never tells of revisions there are not, and a page that is held to be
  written is what the office would still answer. Every writer takes the office row FOR
  UPDATE, so `OfficeMoves` shows that none commits while a lease is held, and `PageOK`
  survives from the read to the COMMIT; that is where `DisclosureIsConsented` and the
  feed's `Tell` come from. `RunIsInterval` is the counting argument behind queueEvent:
  the frames that are written are as many as the page has without a gap, and therefore
  those.
* `WakeInv` adds `AwakeOK`: a page that is held names the head; a turn that ends with
  nothing pending has told the head under a valid token, which is still so when its
  COMMIT ends; and a sleeper is up to date unless a notification is under way or the
  session is not up. `WritersNotify` shows that whoever changes the head or takes a
  token away notifies (retention changes neither, and running out notifies nobody, which
  is why the property asks only that the token is not revoked).

Each step is one lemma about what a stream becomes, under an office that stands still
(`PumpStep`, `AwakeOK`), and one that lifts it to all streams (`OneStream`,
`OneIsAwake`).

### Pages

`PageGood` says that a fetch of the current generation and an event source exclude
each other: while the fetch is under way nothing else moves the display, so the
snapshot it brings cannot be older than what is shown, although office.js compares
revisions only when events arrive. The start page needs in addition that a pairing
it knows of has been created. `PageReadsTheFeed` is the simulation that lets the
page stand on the feed the stream implements.

### Scoring

`ScoringInv` is about sums over sets and about counting, where the prover has neither
induction over data nor the library's induction theorems. What it has is that every
non-empty set of numbers has a least element: `NaturalsByInduction` says so of a set
that contains 0 and every successor, `SubsetsByInduction` of a set of subsets that
contains {} and every set with one more element. Over these, `SumExists` shows that
the function `Total` chooses is there, and `FoldIsTotal` that it is what the folds of
the community modules compute. `Dominated` then compares two sums by an injection
that need only be one where something is paid.

* `IslandsAreRuns`: the islands of the statement, found by counting how many islands
  have started so far, are the maximal runs of instants that segments join.
  `SameIsland` says when two segments are counted to one island, `IslandIsRun` that
  their span is a run, and `SameRun` that runs which share an instant are one.
* `ReachedIsFirst`: cutting the ledger at t cuts its runs (`CutRuns`), a run has paid
  all it pays from `ReachedAt` on and not before (`PaidSince`), so the score is there
  at the latest of those instants and at none before it.
* `ScoreGrows`: segments that cover others score no less; they may prolong runs, add
  some, and join several into one that pays a single grace. By induction on the
  instant, the runs of the smaller ledger that have ended by t have paid no more than
  the runs of the larger have paid by t; a run that ends lies in one run of the
  larger, which pays at least what two stretches within it pay (`PaidTogether`).
  `ScoreNeverFalls` needs no more than that later segments cover earlier ones
  (`SegmentsGrow`).

`DayInv` adds to the types that the clock is within the instants of the reference.

### Settlement

`SegmentsAgree` shows that the segments of a finished day depend only on the starts
and the ends of activities and qualifications, the ends cut at the end of the day, and
`StandingStays` that reports received after it, sweeps and changes of consent after it
leave those alone - a sweep closes an activity at the lease, where the statement ended
it already. What is left is who may still write with an earlier time. `LockOK` (in
`TInv`) says that who has seen the mounts waits for the office or holds it; so while
the tick holds it nobody who was seen to take part is between drawing a time and
writing (`TickerAlone`), and nobody of them who has drawn one before the settlement
writes after it (`WatchedHold`). The one hole is an agent that opted in after its
report had read the mounts: it holds no lock, and its report may write into a finished
and settled day.

There are two ways to close it. `SettledForGood` and `WatermarkIsHeld` take
`NoOptInOvertakes` as a hypothesis over the behaviour. `SettledWithinGrace` has no
such hypothesis and lets the report write. `ConsentOK` says what it may find: some u
since the transaction began, at which it read that the agent took no part, so that no
qualification crosses u, and it is received no earlier than u. It changes nothing that
begins before u (`ReportKeeps`, `BeginsBefore`). What begins later has less than the
time the transaction was open until the end of the day, which is not enough to pay,
and as nothing crosses u it prolongs no run that does (`GraceKeepsScore`): the score
and the instant it was reached stand, although the ledger does not. The bound cannot
be improved: with `MaxOpen = (Grace + 1) * Second` TLC finds `SettledMatchesLedger`
violated (`Second = 2`, `Grace = 0`, `MaxOpen = 2`, `Opening = 0`, `Closing = 3`,
`LeaseTtl = 2`, `MaxTime = 5`, `MaxReports = 3`, `MaxOptIns = 2`). It is an assumption
about the deployment, 15 minutes and a second; the repository sets no time-out on a
statement or an idle transaction.

### Core machine

`CInv` says what the two times stand for that survive a forgotten session.
`KeptInv`: the sessions kept are the live entries among all ever heard.
`EligibleInv`: the start of the eligible interval is the greatest of the first
signal, the end of the last blocking one, and the ends of the blocking states that
have decayed since. `IdleInv`: `idle_display_since` is no less than any forgotten
session's fall to Idle, and greater than all of them only while a live session is
there to fall later - which is what `prune_idle` may do and a snapshot never shows.
Each is carried over an event and over the silence before it separately.

### Spool

`LockInv` and `RoomInv` speak of undisturbed runs. The order does not depend on the
lock: `LinesInv` says that a record is accepted where its line ends, so the order of
lines in a file is the order of acceptance even when two hooks append to it, and
`OrderInv` that whatever lies beyond the watcher's offset comes after all that was
applied. The watcher's loop over a chunk is defined by the ascending sequence of the
line ends in it (`Ascending`), whose existence is proved from well-foundedness of <.

### Approval

`TokenInv` counts the one sender of a request: it is in the map, in the hand of one
`resolve`, or spent. `WayInv`: what is on its way to the hook was delivered. `EventInv`:
the window hears of a request once that it is asked and later that it is done, and of
one that has gone it has heard, or will hear, the latter.

### Pairing

`OursInv`: a code over which anything was ever done was won by this desktop with the
key it has stored. `CallInv` is what pair() knows where it stands, `OrderInv` that
what is accepted over the connection on disk grows. `CalmInv` holds without a fault:
a code that is used is not paired again, since its seed has been dropped, and the
server's current boot is what envelope, connection and reporter say.

### Only model-checked

* Liveness, which needs fairness and ENABLED: `DueLeaseIsSettled`,
  `EverythingIsDelivered`, `ProjectionIsRefreshed`, `StreamMovesOn`,
  `ClaimOpensTheOffice`, `PageCatchesUp`, `WrittenDayIsSettled`,
  `EveryRecordIsApplied`, `EveryHookEnds`, `ReporterSwitches`.

The modules have no RECURSIVE operators, of which nothing could be proved.

## 5. Where the code and its words differ

One run keeps such a difference in view:

* **Display states** (`delivery_poison`): the core sends "thinking" and
  "review", the schema and the database refuse them, and the report stays in
  the outbox.

The others were met while modelling. Each is reproduced by giving TLC the
property and the change named.

* **A clock that is set back** (`MCEdgeIngestStepBack` with `LeaseTtl = 2`,
  `NoIntegrityFault`): after the sweep closed a lease at L, a database clock below
  L makes ingestion take the lease for live although `lease_closed_at` is set. A
  heartbeat then revives the presence without an interval, and every later close
  throws "Expected exactly one open activity interval". The properties of `clock`
  hold even so.
* **A newer state lost behind an older one** (`MCEdgeDelivery`,
  `NothingToSendMeansCurrent`): publishing B fails while A is pending; the
  heartbeat delivers A and clears `state_needs_send`. The next change, or the
  256-event rotation, repairs it.
* **Restart** (`MCEdgeDelivery`, `RestartDropsOutbox`): the design brief drops the
  old boot's outbox; the code resumes it. The code has it right: with the
  documented rule a report the server committed without being heard would leave
  the connection file one boot behind and the next boot refused as stale (this is
  the seeded defect `LoadableFresh`).
* **A failed COMMIT behind the first page** (`MCOfficeStream`, with `Subscribed`
  in place of `Served`): `public-office-routes.ts:359` awaits the release outside
  the pump's `catch`. The handler ends before `initialReplayComplete` is set:
  wake-ups only set a flag, no timer runs, the response and its stream slot stay
  open, and the client hears of no other revision until it leaves.
* **A process clock ahead of the database** (`MCSettlement` with `Skew = 1`,
  `Second = 1`, `SettledMatchesLedger`): `main.ts:69` passes `new Date()`; the day
  is settled before it is over, and what is received in the remainder is in the
  ledger and not in the result.
* **The watermark** (`MCSettlement`, `WatermarkHolds`): the comment above
  `lockAffectedOffices` says that a report commits before the settlement or is
  stamped after it. The mounts are read before the offices are locked, so an
  opt-in that commits in between leaves a report that locks nothing. By
  `WatermarkIsHeld` this is the only way. By `SettledWithinGrace` what is settled
  is still what the ledger scores as long as no transaction stays open for the
  grace of 15 minutes and a second: time before the opt-in does not count, and what
  is left between the opt-in and the end of the day earns nothing. With a
  transaction that does stay open for so long (the constants are in section 4), TLC
  finds `SettledMatchesLedger` violated as well.
* **Rotation between two polls** (`MCEventSpool`, `EveryRecordIsApplied` without
  `Readable`): what was appended after the last poll goes to spool.1 and is never
  read, although README.md calls the watcher safe against rotation.
* **A stale lock removed twice** (`MCEventSpool`, `LockIsExclusive` without
  `Undisturbed`): `removeStaleLock` looks and then unlinks the path; between the
  two another hook may have replaced the lock.
* **A torn line** (same run, records whose append returned true): a write that
  fails half-way leaves a head without a newline, and the next record, appended
  with success, continues that line and cannot be parsed.
* **A decision nobody prints** (`MCApproval`, `DeliveredIsHonoured`): between the
  end of `recv_timeout` and the lock, and after the hook has ended, `resolve` still
  finds the sender and returns true. A request that waited in the bubble's queue
  gets a full countdown when its own time is almost over.
* **The same code paired again** (`MCPairing`, `NeverFencedOut`): after reports
  were accepted, a crash or a keyring refusal behind the first claim lets the user
  pair again; the server answers with the same enrolment, `pair()` writes
  `last_accepted_boot_id: None`, and every later boot is refused as stale.
* **The start page** (`MCOfficeVisit`): an answer that comes after the visitor
  started over is taken for the pairing now on screen; and a claim in the interval
  in which the countdown ends is not asked for any more (`ClaimOpensTheOffice`
  without its last disjunct).

## 6. Not modelled

* Ingress verification and rate limits: a request that is refused there changes
  no state the other parts read but its own counter; the refusals are among the
  failing requests of `EdgeDelivery`, `Pairing` and `StartPage`. Stream slots are
  taken with the connection and released by the same `cleanup` that sets `closed`
  (`over`), so they are what `StreamInv` and `StreamMovesOn` say of streams.
* The credential re-check under the instance lock, and credentials that are
  revoked; a sweep over several instances, where a throw on one ends the round.
* Of a public snapshot: people, assets, ranks and layout. More than one mount per
  agent, and schedules with more than one occurrence a day.
* Migrations (ordered by an advisory lock and content hashes), start-up and
  shutdown, the desktop shell, the bridge, rendering, asset tools and CI.

## 7. Plan

Done: all the modules of section 2 with their runs, and the proofs of section 4.

Next, in this order:

1. Several instances in one sweep, and the credential re-check under the lock.
2. A settlement by a clock that is ahead: by how much the result may then differ
   from the ledger.
3. The liveness properties, should a prover for ENABLED become available.
