-------------------------- MODULE OfficeRevisions --------------------------
(***************************************************************************)
(* The public revisions of one office in the database: the office row, the *)
(* retained revision events, the current projection, its public-view token *)
(* and the consent of a mount, with the transactions that change them.     *)
(*                                                                         *)
(* Every writer takes the office row FOR UPDATE in its first statement and *)
(* holds it to its commit, so a writer is one step; it waits while some    *)
(* stream holds the row FOR SHARE (`leases').  What a writer read before   *)
(* it got the lock is a step of its own (the projection tick).             *)
(***************************************************************************)
EXTENDS Integers, FiniteSetsExt

CONSTANTS
    Flag,          \* the consents of the mount: among "presence", "stats", "poster"
    Stream,        \* the streams that may hold a page of events
    None,
    Interval,      \* minimumIntervalSeconds of the projection tick
    MaxReplay,     \* maxReplayRevisions of the retention
    Ahead,         \* how far a caller's changedAt may be ahead of the database
    MaxRevision,   \* bound on the revisions
    MaxToken,      \* bound on the tokens drawn
    MaxTime        \* bound on the clock

ASSUME OfficeAssumption ==
    /\ Interval \in Nat \ {0}
    /\ MaxReplay \in Nat \ {0}
    /\ Ahead \in Nat
    /\ MaxRevision \in Nat \ {0}
    /\ MaxToken \in Nat \ {0}
    /\ MaxTime \in Nat

VARIABLES
    now,      \* clock_timestamp()
    consent,  \* the flags of the mount that are set
    office,   \* revision and minimum_replay_revision
    events,   \* office_revision_events: what each retained revision shows
    current,  \* office_current_public_projections
    token,    \* the last token drawn and whether it still opens the office
    leases,   \* the streams that hold the office row FOR SHARE
    broker,   \* lost | listening | up: the LISTEN session of the broker
    mail,     \* a notification is on its way to that session
    tick      \* the projection tick that is under way

officeVars == <<now, consent, office, events, current, token, leases, broker, mail, tick>>

\* What a snapshot says of a mount, and the consents it needs for that: its place
\* in the roster, its idle stage there, its score of the day and its award.
Needs == [roster |-> {"presence"}, stage |-> {"presence", "stats"},
          score |-> {"stats"}, award |-> {"stats"}]

\* buildPublicOfficeSnapshot
Shown(flags) == {part \in DOMAIN Needs : Needs[part] \subseteq flags}

Event == [shows : SUBSET DOMAIN Needs, at : Nat]
Tick == [stage : {"candidate", "locking"}, asOf : Nat, due : BOOLEAN]

OfficeTypeOK ==
    /\ now \in Nat
    /\ consent \in SUBSET Flag
    /\ office \in [revision : Nat, minimum : Nat]
    /\ DOMAIN events \subseteq Nat
    /\ \A r \in DOMAIN events : events[r] \in Event
    /\ current \in [revision : Nat, shows : SUBSET DOMAIN Needs, at : Nat]
    /\ token \in [n : Nat, state : {"valid", "expired", "revoked"}]
    /\ leases \subseteq Stream
    /\ broker \in {"lost", "listening", "up"}
    /\ mail \in BOOLEAN
    /\ tick \in Tick \cup {None}

\* An office as onboarding leaves it: its first revision is published.
OfficeInit ==
    /\ now = 0
    /\ consent \in SUBSET Flag
    /\ office = [revision |-> 1, minimum |-> 0]
    /\ events = [r \in {1} |-> [shows |-> Shown(consent), at |-> 0]]
    /\ current = [revision |-> 1, shows |-> Shown(consent), at |-> 0]
    /\ token = [n |-> 1, state |-> "valid"]
    /\ leases = {}
    /\ broker = "up"
    /\ mail = FALSE
    /\ tick = None

\* FOR UPDATE is granted.
Unlocked == leases = {}

\* pg_notify reaches the sessions that LISTEN when it commits.
Notify == mail' = (broker # "lost")

\* Seeded defect: the projection does not remember when it was generated last.
ProjectionAtNoFloor(at) == Max({now, at})

ProjectionAt(at) == Max({now, at, current.at})

(***************************************************************************)
(* recordPublicRevision: one more revision that shows what the flags admit *)
(* now.  A lowering drops every older event and every older replay cursor. *)
(***************************************************************************)
\* Seeded defect: the lowering moves the minimum and keeps the old events.
RecordKeepsHistory(flags, at, lowers) ==
    LET r == office.revision + 1
        event == [shows |-> Shown(flags), at |-> ProjectionAt(at)]
    IN /\ office.revision < MaxRevision
       /\ office' = [revision |-> r,
                     minimum |-> IF lowers THEN r - 1 ELSE office.minimum]
       /\ events' = [q \in DOMAIN events \cup {r} |->
                        IF q = r THEN event ELSE events[q]]
       /\ current' = [revision |-> r, shows |-> event.shows, at |-> event.at]
       /\ Notify

Record(flags, at, lowers) ==
    LET r == office.revision + 1
        event == [shows |-> Shown(flags), at |-> ProjectionAt(at)]
        kept == IF lowers THEN {} ELSE DOMAIN events
    IN /\ office.revision < MaxRevision
       /\ office' = [revision |-> r,
                     minimum |-> IF lowers THEN r - 1 ELSE office.minimum]
       /\ events' = [q \in kept \cup {r} |-> IF q = r THEN event ELSE events[q]]
       /\ current' = [revision |-> r, shows |-> event.shows, at |-> event.at]
       /\ Notify

\* Seeded defect: a change that also grants something is not a lowering.
LowersUnlessGrants(next) == next \subseteq consent /\ next # consent

Lowers(next) == ~(consent \subseteq next)

\* changeMountConsent, for a change; the time is the caller's.
ChangeConsent ==
    /\ Unlocked
    /\ \E next \in SUBSET Flag \ {consent}, changedAt \in now .. now + Ahead :
          /\ consent' = next
          /\ Record(next, changedAt, Lowers(next))
    /\ UNCHANGED <<now, token, leases, broker, tick>>

\* A report or the lease sweep changed what the office shows (EdgeIngest).
PresenceRevision ==
    /\ Unlocked
    /\ Record(consent, now, FALSE)
    /\ UNCHANGED <<now, consent, token, leases, broker, tick>>

(***************************************************************************)
(* tickPublicOffices for this office.  The candidate query is not locked;  *)
(* the statement that locks the row reads the projection and the token as  *)
(* of its start, before it waits for the lock.                             *)
(***************************************************************************)
Due(asOf) == token.state = "valid" /\ current.at + Interval <= asOf

TickCandidate ==
    /\ tick = None
    /\ Due(now)
    /\ tick' = [stage |-> "candidate", asOf |-> now, due |-> TRUE]
    /\ UNCHANGED <<now, consent, office, events, current, token, leases, broker, mail>>

TickReads ==
    /\ tick # None
    /\ tick.stage = "candidate"
    /\ tick' = [tick EXCEPT !.stage = "locking", !.due = Due(tick.asOf)]
    /\ UNCHANGED <<now, consent, office, events, current, token, leases, broker, mail>>

\* Seeded defect: the tick locks, finds the office due and records nothing.
TickCommitsNothing ==
    /\ tick # None
    /\ tick.stage = "locking"
    /\ Unlocked
    /\ tick' = None
    /\ UNCHANGED <<now, consent, office, events, current, token, leases, broker, mail>>

TickCommits ==
    /\ tick # None
    /\ tick.stage = "locking"
    /\ Unlocked
    /\ IF tick.due THEN Record(consent, tick.asOf, FALSE)
                   ELSE UNCHANGED <<office, events, current, mail>>
    /\ tick' = None
    /\ UNCHANGED <<now, consent, token, leases, broker>>

\* The failure of one office is reported and its transaction rolled back.
TickFails ==
    /\ tick # None
    /\ tick.stage = "locking"
    /\ tick' = None
    /\ UNCHANGED <<now, consent, office, events, current, token, leases, broker, mail>>

(***************************************************************************)
(* retainOneOffice.  Every revision's outbox row is published by the       *)
(* transaction that inserts it, so no pending row ever bounds the cutoff.  *)
(***************************************************************************)
\* Seeded defect: the cutoff takes one revision too many.
CutoffTooFar == office.revision - MaxReplay + 1

Cutoff == office.revision - MaxReplay

\* Seeded defect: the retention runs whether or not there is something to retire.
RetainAlways ==
    /\ Unlocked
    /\ events' = [r \in {q \in DOMAIN events : q > Cutoff} |-> events[r]]
    /\ office' = [office EXCEPT !.minimum = Cutoff]
    /\ UNCHANGED <<now, consent, current, token, leases, broker, mail, tick>>

Retain ==
    /\ Unlocked
    /\ Cutoff > office.minimum
    /\ events' = [r \in {q \in DOMAIN events : q > Cutoff} |-> events[r]]
    /\ office' = [office EXCEPT !.minimum = Cutoff]
    /\ UNCHANGED <<now, consent, current, token, leases, broker, mail, tick>>

\* rotatePublicViewToken
RotateToken ==
    /\ Unlocked
    /\ token.n < MaxToken
    /\ token' = [n |-> token.n + 1, state |-> "valid"]
    /\ Notify
    /\ UNCHANGED <<now, consent, office, events, current, leases, broker, tick>>

\* revokePublicViewToken; expires_at does not make a row less revocable.
RevokeToken ==
    /\ Unlocked
    /\ token.state # "revoked"
    /\ token' = [token EXCEPT !.state = "revoked"]
    /\ Notify
    /\ UNCHANGED <<now, consent, office, events, current, leases, broker, tick>>

\* The clock passes expires_at: no transaction, no notification.
ExpireToken ==
    /\ token.state = "valid"
    /\ token' = [token EXCEPT !.state = "expired"]
    /\ UNCHANGED <<now, consent, office, events, current, leases, broker, mail, tick>>

PassTime ==
    /\ now < MaxTime
    /\ now' = now + 1
    /\ UNCHANGED <<consent, office, events, current, token, leases, broker, mail, tick>>

OfficeNext ==
    \/ ChangeConsent
    \/ PresenceRevision
    \/ TickCandidate
    \/ TickReads
    \/ TickCommits
    \/ TickFails
    \/ Retain
    \/ RotateToken
    \/ RevokeToken
    \/ ExpireToken
    \/ PassTime

OfficeSpec == OfficeInit /\ [][OfficeNext]_officeVars

\* The timer of main.ts comes round again; a tick that fails is repeated at
\* the next one, and does not fail for ever.
OfficeFairness ==
    /\ WF_officeVars(TickCandidate)
    /\ WF_officeVars(TickReads)
    /\ SF_officeVars(TickCommits)

FairOfficeSpec == OfficeSpec /\ OfficeFairness

----------------------------------------------------------------------------
(* What is retained: exactly the revisions after the minimum replay cursor, *)
(* the current one among them.  A cursor the reader does not call a gap can *)
(* therefore be continued without a missing revision, whatever retention    *)
(* and privacy lowering did, and a page is never empty below the head (the  *)
(* pump would spin for ever).                                               *)
HistoryIsContiguous ==
    /\ DOMAIN events = office.minimum + 1 .. office.revision
    /\ office.minimum < office.revision
    /\ current.revision = office.revision
    /\ current.shows = events[office.revision].shows
    /\ current.at = events[office.revision].at

(* "Lowering any consent creates a removal revision and invalidates unsafe  *)
(* historical replay": no retained event and no current projection shows    *)
(* what the mount has not consented to, at any moment between transactions. *)
RetainedIsConsented ==
    /\ current.shows \subseteq Shown(consent)
    /\ \A r \in DOMAIN events : events[r].shows \subseteq Shown(consent)

(* The generation times of the retained revisions never go back, although a *)
(* consent change brings the time of its caller, which may be ahead of the  *)
(* database: the stages and rankings derived from them only move forward.   *)
TimesAreMonotone ==
    \A q, r \in DOMAIN events : q <= r => events[q].at <= events[r].at

(* What readers of the office rely on between any two transactions: a log   *)
(* without holes, in the order of its times, that shows only what is        *)
(* consented to.                                                            *)
RevisionsInv ==
    /\ OfficeTypeOK
    /\ HistoryIsContiguous
    /\ RetainedIsConsented
    /\ TimesAreMonotone

(* Retention never takes a revision from a client that is at most MaxReplay *)
(* behind, and nothing but a lowering of consent does.                      *)
OnlyOldIsRetired ==
    [][\A r \in DOMAIN events \ DOMAIN events' :
          \/ r <= office'.revision - MaxReplay
          \/ ~(consent \subseteq consent')]_officeVars

Stale == token.state = "valid" /\ current.at + Interval <= now

(* An office that somebody may look at is projected again once Interval has *)
(* passed, also when the tick's reads were stale or one attempt failed.     *)
ProjectionIsRefreshed ==
    Stale ~> (~Stale \/ office.revision = MaxRevision)
============================================================================
