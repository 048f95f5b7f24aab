------------------------ MODULE OfficeStream_proofs ------------------------
(***************************************************************************)
(* Proofs about OfficeStream: for any streams, page lengths, consents and  *)
(* bounds, and however the writers of the office, the broker and the       *)
(* clients interleave, nothing is written that is not consented to at that *)
(* moment, no lock stays behind, and the stream implements OfficeFeed.     *)
(* The revision log it reads comes first, by itself (OfficeRevisions).     *)
(*                                                                         *)
(* What carries the proof is the page between its read and its COMMIT: as  *)
(* long as a lease is held no writer commits, so what the page said of the *)
(* office when it was read is still true when it is written (PageOK).      *)
(***************************************************************************)
EXTENDS OfficeStream, FiniteSetTheorems, SequenceTheorems, TLAPS

-----------------------------------------------------------------------------
(***************************************************************************)
(* The revision log by itself: for any consents, intervals, retention and  *)
(* callers' times, it has no hole, goes forward in time, and shows only    *)
(* what is consented to; and nothing but a lowering of consent takes a     *)
(* revision from a client that is at most MaxReplay behind.                *)
(*                                                                         *)
(* RevisionsInv is inductive as it stands.  There is one lemma for each    *)
(* operation that writes the log, all through Record or Retain.            *)
(***************************************************************************)

\* A snapshot time is that of the projection it replaces, or later.
LEMMA ProjectionIsLater ==
    ASSUME NEW a \in Nat, OfficeTypeOK
    PROVE  ProjectionAt(a) \in Nat /\ ProjectionAt(a) >= current.at
<1> DEFINE S == {now, a, current.at}
<1>1. S \subseteq Nat
  BY DEF OfficeTypeOK
<1>2. \E x \in S : \A y \in S : x >= y
  <2>1. CASE now >= a /\ now >= current.at
    BY <1>1, <2>1
  <2>2. CASE a >= now /\ a >= current.at
    BY <1>1, <2>2
  <2>3. CASE current.at >= now /\ current.at >= a
    BY <1>1, <2>3
  <2> QED
    BY <1>1, <2>1, <2>2, <2>3
<1>3. Max(S) \in S /\ \A y \in S : Max(S) >= y
  BY <1>2 DEF Max
<1> QED
  BY <1>1, <1>3 DEF ProjectionAt

\* Whoever consents to more is shown with more.
LEMMA ShownIsMonotone ==
    ASSUME NEW f, NEW g, f \subseteq g
    PROVE  Shown(f) \subseteq Shown(g)
  BY DEF Shown

LEMMA ShownIsParts ==
    ASSUME NEW f
    PROVE  Shown(f) \subseteq DOMAIN Needs
  BY DEF Shown

-----------------------------------------------------------------------------
(***************************************************************************)
(* The two ways the log is written.                                        *)
(***************************************************************************)

\* What recordPublicRevision leaves behind, under flags that are the consent of the
\* mount from this transaction on, and that take nothing back unless it says so.
LEMMA RecordKeepsTheLog ==
    ASSUME RevisionsInv, NEW flags, NEW at \in Nat, NEW lowers \in BOOLEAN,
           Record(flags, at, lowers),
           consent' = flags, ~lowers => consent \subseteq flags
    PROVE  /\ office' \in [revision : Nat, minimum : Nat]
           /\ DOMAIN events' \subseteq Nat
           /\ \A r \in DOMAIN events' : events'[r] \in Event
           /\ current' \in [revision : Nat, shows : SUBSET DOMAIN Needs, at : Nat]
           /\ mail' \in BOOLEAN
           /\ HistoryIsContiguous'
           /\ RetainedIsConsented'
           /\ TimesAreMonotone'
<1> DEFINE r == office.revision + 1
           event == [shows |-> Shown(flags), at |-> ProjectionAt(at)]
           kept == IF lowers THEN {} ELSE DOMAIN events
<1>1. /\ office \in [revision : Nat, minimum : Nat]
      /\ DOMAIN events = office.minimum + 1 .. office.revision
      /\ office.minimum < office.revision
      /\ \A q \in DOMAIN events : events[q] \in Event
  BY DEF RevisionsInv, OfficeTypeOK, HistoryIsContiguous
<1>2. /\ office' = [revision |-> r, minimum |-> IF lowers THEN r - 1 ELSE office.minimum]
      /\ events' = [q \in kept \cup {r} |-> IF q = r THEN event ELSE events[q]]
      /\ current' = [revision |-> r, shows |-> event.shows, at |-> event.at]
      /\ mail' \in BOOLEAN
  BY DEF Record, Notify
<1>3. event \in Event /\ event.at >= current.at
  BY ProjectionIsLater, ShownIsParts DEF RevisionsInv, Event
<1>4. /\ office' \in [revision : Nat, minimum : Nat]
      /\ DOMAIN events' = kept \cup {r} /\ DOMAIN events' \subseteq Nat
      /\ \A q \in DOMAIN events' : events'[q] \in Event
      /\ current' \in [revision : Nat, shows : SUBSET DOMAIN Needs, at : Nat]
  <2>1. office' \in [revision : Nat, minimum : Nat]
    BY <1>1, <1>2
  <2>2. DOMAIN events' = kept \cup {r} /\ DOMAIN events' \subseteq Nat
    BY <1>1, <1>2
  <2>3. \A q \in DOMAIN events' : events'[q] \in Event
    BY <1>1, <1>2, <1>3, <2>2
  <2>4. event.shows \in SUBSET DOMAIN Needs /\ event.at \in Nat
    BY <1>3 DEF Event
  <2>5. current' \in [revision : Nat, shows : SUBSET DOMAIN Needs, at : Nat]
    BY <1>1, <1>2, <2>4
  <2> QED
    BY <2>1, <2>2, <2>3, <2>5
<1>5. HistoryIsContiguous'
  <2>1. DOMAIN events' = office'.minimum + 1 .. office'.revision
    BY <1>1, <1>2
  <2> QED
    BY <1>1, <1>2, <2>1 DEF HistoryIsContiguous
<1>6. RetainedIsConsented'
  <2>1. \A q \in kept : events[q].shows \subseteq Shown(flags)
    <3>1. ~lowers => Shown(consent) \subseteq Shown(flags)
      BY ShownIsMonotone
    <3> QED
      BY <3>1 DEF RevisionsInv, RetainedIsConsented
  <2> QED
    BY <1>2, <2>1 DEF RetainedIsConsented
<1>7. TimesAreMonotone'
  <2>1. \A q \in kept : q < r /\ events[q].at <= event.at
    <3>1. office.revision \in DOMAIN events /\ current.at = events[office.revision].at
      BY <1>1 DEF RevisionsInv, HistoryIsContiguous
    <3>2. \A q \in DOMAIN events : q <= office.revision /\ events[q].at <= current.at
      BY <1>1, <3>1 DEF RevisionsInv, TimesAreMonotone
    <3> QED
      BY <1>1, <1>3, <3>1, <3>2 DEF Event
  <2>2. r \notin kept
    BY <1>1, <2>1
  <2>3. SUFFICES ASSUME NEW p \in DOMAIN events', NEW q \in DOMAIN events', p <= q
                 PROVE  events'[p].at <= events'[q].at
    BY DEF TimesAreMonotone
  <2>4. CASE p = r
    BY <1>1, <1>2, <1>3, <1>4, <2>1, <2>3, <2>4 DEF Event
  <2>5. CASE p # r /\ q = r
    BY <1>2, <1>4, <2>1, <2>3, <2>5
  <2>6. CASE p # r /\ q # r
    BY <1>1, <1>2, <1>4, <2>3, <2>6 DEF RevisionsInv, TimesAreMonotone
  <2> QED
    BY <2>4, <2>5, <2>6
<1> QED
  BY <1>2, <1>4, <1>5, <1>6, <1>7

\* Retention leaves the newest MaxReplay revisions, the current one among them.
LEMMA RetainKeepsTheLog ==
    ASSUME RevisionsInv, Retain
    PROVE  RevisionsInv'
<1>1. /\ MaxReplay \in Nat \ {0}
      /\ office \in [revision : Nat, minimum : Nat]
      /\ DOMAIN events = office.minimum + 1 .. office.revision
      /\ Cutoff \in Nat /\ office.minimum < Cutoff /\ Cutoff < office.revision
  BY OfficeAssumption DEF RevisionsInv, OfficeTypeOK, HistoryIsContiguous, Retain, Cutoff
<1>2. /\ office' = [revision |-> office.revision, minimum |-> Cutoff]
      /\ events' = [r \in {q \in DOMAIN events : q > Cutoff} |-> events[r]]
      /\ DOMAIN events' = Cutoff + 1 .. office.revision
  BY <1>1 DEF Retain
<1>3. OfficeTypeOK'
  BY <1>1, <1>2 DEF RevisionsInv, OfficeTypeOK, Retain
<1>4. HistoryIsContiguous'
  BY <1>1, <1>2 DEF RevisionsInv, HistoryIsContiguous, Retain
<1>5. RetainedIsConsented'
  BY <1>1, <1>2 DEF RevisionsInv, RetainedIsConsented, Retain
<1>6. TimesAreMonotone'
  BY <1>1, <1>2 DEF RevisionsInv, TimesAreMonotone
<1> QED
  BY <1>3, <1>4, <1>5, <1>6 DEF RevisionsInv

\* What the log consists of, left alone with the consent it is compared with.
LEMMA QuietKeepsTheLog ==
    ASSUME RevisionsInv, OfficeTypeOK', UNCHANGED <<consent, office, events, current>>
    PROVE  RevisionsInv'
  BY DEF RevisionsInv, HistoryIsContiguous, RetainedIsConsented, TimesAreMonotone

-----------------------------------------------------------------------------
LEMMA LogInit == OfficeInit => RevisionsInv
<1> SUFFICES ASSUME OfficeInit
             PROVE  RevisionsInv
  OBVIOUS
<1>1. OfficeTypeOK
  <2>1. Shown(consent) \in SUBSET DOMAIN Needs
    BY ShownIsParts
  <2>2. DOMAIN events = {1} /\ \A r \in DOMAIN events : events[r] \in Event
    BY <2>1 DEF OfficeInit, Event
  <2>3. current \in [revision : Nat, shows : SUBSET DOMAIN Needs, at : Nat]
    BY <2>1 DEF OfficeInit
  <2> QED
    BY <2>2, <2>3 DEF OfficeInit, OfficeTypeOK
<1>2. HistoryIsContiguous
  BY DEF OfficeInit, HistoryIsContiguous
<1>3. RetainedIsConsented /\ TimesAreMonotone
  BY DEF OfficeInit, RetainedIsConsented, TimesAreMonotone
<1> QED
  BY <1>1, <1>2, <1>3 DEF RevisionsInv

LEMMA LogNext ==
    ASSUME RevisionsInv, [OfficeNext]_officeVars
    PROVE  RevisionsInv'
<1>1. CASE ChangeConsent
  <2>1. PICK next \in SUBSET Flag, changedAt \in now .. now + Ahead :
             consent' = next /\ Record(next, changedAt, Lowers(next))
    BY <1>1 DEF ChangeConsent
  <2>2. changedAt \in Nat /\ Lowers(next) \in BOOLEAN /\ (~Lowers(next) => consent \subseteq next)
    BY OfficeAssumption DEF RevisionsInv, OfficeTypeOK, Lowers
  <2>3. UNCHANGED <<now, token, leases, broker, tick>> /\ consent' \in SUBSET Flag
    BY <1>1, <2>1 DEF ChangeConsent
  <2>4. PICK lowers \in BOOLEAN : lowers = Lowers(next)
    BY <2>2
  <2>5. Record(next, changedAt, lowers) /\ (~lowers => consent \subseteq next)
    BY <2>1, <2>2, <2>4
  <2>6. /\ office' \in [revision : Nat, minimum : Nat]
        /\ DOMAIN events' \subseteq Nat
        /\ \A r \in DOMAIN events' : events'[r] \in Event
        /\ current' \in [revision : Nat, shows : SUBSET DOMAIN Needs, at : Nat]
        /\ mail' \in BOOLEAN
        /\ HistoryIsContiguous' /\ RetainedIsConsented' /\ TimesAreMonotone'
    BY <2>1, <2>2, <2>5, RecordKeepsTheLog
  <2> QED
    BY <2>3, <2>6 DEF RevisionsInv, OfficeTypeOK
<1>2. CASE PresenceRevision
  <2>1. now \in Nat /\ Record(consent, now, FALSE)
    BY <1>2 DEF PresenceRevision, RevisionsInv, OfficeTypeOK
  <2>2. UNCHANGED <<now, consent, token, leases, broker, tick>>
    BY <1>2 DEF PresenceRevision
  <2> QED
    BY <2>1, <2>2, RecordKeepsTheLog DEF RevisionsInv, OfficeTypeOK
<1>3. CASE TickCandidate
  BY <1>3, QuietKeepsTheLog DEF TickCandidate, RevisionsInv, OfficeTypeOK, Tick
<1>4. CASE TickReads
  <2>1. tick \in Tick /\ Due(tick.asOf) \in BOOLEAN
    BY <1>4 DEF TickReads, RevisionsInv, OfficeTypeOK, Due
  <2>2. tick' \in Tick
    <3> DEFINE waiting == [tick EXCEPT !.stage = "locking"]
               due == Due(tick.asOf)
    <3>1. waiting \in Tick
      BY <2>1 DEF Tick
    <3>2. tick' = [waiting EXCEPT !.due = due]
      BY <1>4 DEF TickReads
    <3> HIDE DEF waiting, due
    <3>3. due \in BOOLEAN
      BY <2>1 DEF due
    <3> QED
      BY <3>1, <3>2, <3>3 DEF Tick
  <2> QED
    BY <1>4, <2>2, QuietKeepsTheLog DEF TickReads, RevisionsInv, OfficeTypeOK
<1>5. CASE TickCommits
  <2>1. tick \in Tick /\ tick' = None /\ UNCHANGED <<now, consent, token, leases, broker>>
    BY <1>5 DEF TickCommits, RevisionsInv, OfficeTypeOK
  <2>2. CASE tick.due
    <3>1. tick.asOf \in Nat /\ Record(consent, tick.asOf, FALSE)
      BY <1>5, <2>1, <2>2 DEF TickCommits, Tick
    <3> QED
      BY <2>1, <3>1, RecordKeepsTheLog DEF RevisionsInv, OfficeTypeOK
  <2>3. CASE ~tick.due
    BY <1>5, <2>1, <2>3, QuietKeepsTheLog DEF TickCommits, RevisionsInv, OfficeTypeOK
  <2> QED
    BY <2>2, <2>3
<1>6. CASE TickFails
  BY <1>6, QuietKeepsTheLog DEF TickFails, RevisionsInv, OfficeTypeOK
<1>7. CASE Retain
  BY <1>7, RetainKeepsTheLog
<1>8. CASE RotateToken \/ RevokeToken \/ ExpireToken
  <2>1. token' \in [n : Nat, state : {"valid", "expired", "revoked"}]
    BY <1>8 DEF RotateToken, RevokeToken, ExpireToken, RevisionsInv, OfficeTypeOK
  <2>2. UNCHANGED <<now, consent, office, events, current, leases, broker, tick>> /\ mail' \in BOOLEAN
    BY <1>8 DEF RotateToken, RevokeToken, ExpireToken, Notify, RevisionsInv, OfficeTypeOK
  <2> QED
    BY <2>1, <2>2, QuietKeepsTheLog DEF RevisionsInv, OfficeTypeOK
<1>9. CASE PassTime
  BY <1>9, QuietKeepsTheLog DEF PassTime, RevisionsInv, OfficeTypeOK
<1>10. CASE UNCHANGED officeVars
  BY <1>10, QuietKeepsTheLog DEF officeVars, RevisionsInv, OfficeTypeOK
<1> QED
  BY <1>1, <1>2, <1>3, <1>4, <1>5, <1>6, <1>7, <1>8, <1>9, <1>10 DEF OfficeNext

\* The revision log of an office at any moment between two transactions: no hole
\* between the minimum replay cursor and the head, times that never go back, and
\* nothing in it that the mount does not consent to now.
THEOREM LogIsSound == OfficeSpec => []RevisionsInv
  BY LogInit, LogNext, PTL DEF OfficeSpec

\* A revision that disappears is more than MaxReplay - 1 behind the head, or its office
\* has just been shown less.
THEOREM OnlyOldRetires == OfficeSpec => OnlyOldIsRetired
<1>1. ASSUME RevisionsInv, [OfficeNext]_officeVars, NEW r \in DOMAIN events \ DOMAIN events'
      PROVE  r <= office'.revision - MaxReplay \/ ~(consent \subseteq consent')
  <2>1. \A flags, at : Record(flags, at, FALSE) => DOMAIN events \subseteq DOMAIN events'
    BY DEF Record
  <2>2. CASE ChangeConsent
    <3>1. PICK next \in SUBSET Flag, changedAt \in now .. now + Ahead :
               consent' = next /\ Record(next, changedAt, Lowers(next))
      BY <2>2 DEF ChangeConsent
    <3>2. CASE Lowers(next)
      BY <3>1, <3>2 DEF Lowers
    <3>3. CASE ~Lowers(next)
      BY <1>1, <3>1, <3>3 DEF Record
    <3> QED
      BY <3>2, <3>3
  <2>3. CASE PresenceRevision
    BY <1>1, <2>1, <2>3 DEF PresenceRevision
  <2>4. CASE TickCommits
    BY <1>1, <2>1, <2>4 DEF TickCommits
  <2>5. CASE Retain
    <3>1. /\ office'.revision = office.revision
          /\ DOMAIN events' = {q \in DOMAIN events : q > office.revision - MaxReplay}
      BY <2>5 DEF Retain, Cutoff, RevisionsInv, OfficeTypeOK
    <3>2. r \in Nat /\ office.revision \in Nat /\ MaxReplay \in Nat
      BY <1>1, OfficeAssumption DEF RevisionsInv, OfficeTypeOK
    <3> QED
      BY <1>1, <3>1, <3>2
  <2>6. CASE UNCHANGED events
    BY <1>1, <2>6
  <2>7. \/ ChangeConsent \/ PresenceRevision \/ TickCommits \/ Retain \/ UNCHANGED events
    BY <1>1 DEF OfficeNext, TickCandidate, TickReads, TickFails, RotateToken, RevokeToken,
                ExpireToken, PassTime, officeVars
  <2> QED
    BY <2>2, <2>3, <2>4, <2>5, <2>6, <2>7
<1>2. RevisionsInv /\ [OfficeNext]_officeVars =>
        [\A r \in DOMAIN events \ DOMAIN events' :
            \/ r <= office'.revision - MaxReplay
            \/ ~(consent \subseteq consent')]_officeVars
  BY <1>1
<1> QED
  BY <1>2, LogIsSound, PTL DEF OfficeSpec, OnlyOldIsRetired

-----------------------------------------------------------------------------
(* The invariant of the streams.                                            *)

\* The events of a page.
Log == UNION {[D -> SUBSET DOMAIN Needs] : D \in SUBSET (1 .. MaxRevision)}

Page == [status : {"not_found", "gap", "ok"}, current : 0 .. MaxRevision, events : Log]

Pump == [step : Step, live : BOOLEAN, over : BOOLEAN, left : BOOLEAN,
         token : 1 .. MaxToken, lastSent : 0 .. MaxRevision + 1, pending : BOOLEAN,
         page : Page, after : {"loop", "drain", "end"},
         wire : Seq(1 .. MaxRevision), ending : Ending]

\* A page tells of revisions there are; and one that is held to be written is as
\* the office would answer now, to a cursor it can still continue.
PageOK(S) ==
    /\ S.page.current <= office.revision
    /\ DOMAIN S.page.events \subseteq 1 .. office.revision
    /\ S.step = "write" /\ S.page.status = "ok" =>
          /\ Opens(S)
          /\ office.minimum <= S.lastSent
          /\ \A r \in DOMAIN S.page.events : S.page.events[r] \subseteq Shown(consent)

PumpInv ==
    /\ RevisionsInv
    /\ office.revision <= MaxRevision
    /\ token.n \in 1 .. MaxToken
    /\ stream \in [Stream -> Pump]
    /\ LeasesAreGivenBack
    /\ \A s \in Stream : PageOK(stream[s])

\* Where the feed sees a stream, and the ways it may see it move.
Pos(S) == IF Subscribed(S) THEN S.lastSent ELSE -1

Moves(S, T) ==
    \/ Pos(T) = Pos(S)
    \/ Pos(T) = -1
    \/ Pos(S) = -1 /\ Pos(T) \in 0 .. office.revision
    \/ /\ Pos(S) # -1 /\ Pos(S) >= office.minimum
       /\ Pos(T) \in Pos(S) + 1 .. office.revision

\* What is written, if anything is, may be written.
Discloses(S, T) ==
    T.lastSent > S.lastSent /\ S.step = "write" =>
       /\ Opens(S)
       /\ \A r \in S.lastSent + 1 .. T.lastSent :
             S.page.events[r] \subseteq Shown(consent)

\* What holds of every step a stream makes under an office that stands still.
PumpStep(S, T) == T \in Pump /\ PageOK(T) /\ Moves(S, T) /\ Discloses(S, T)

Holds(S) == S.step \in {"write", "release"}

-----------------------------------------------------------------------------
(* Pages.                                                                   *)

LEMMA NoPageIsPage == NoPage \in Page /\ DOMAIN NoPage.events = {}
<1>1. << >> \in [{} -> SUBSET DOMAIN Needs] /\ DOMAIN << >> = {}
  OBVIOUS
<1>2. << >> \in Log
  BY <1>1 DEF Log
<1>3. MaxRevision \in Nat
  BY OfficeAssumption
<1> QED
  BY <1>1, <1>2, <1>3 DEF NoPage, Page

LEMMA PageAfterIsPage ==
    ASSUME RevisionsInv, office.revision <= MaxRevision, NEW c \in Nat, NEW t, NEW n
    PROVE  /\ PageAfter(c, t, n) \in Page
           /\ PageAfter(c, t, n).current <= office.revision
           /\ DOMAIN PageAfter(c, t, n).events \subseteq 1 .. office.revision
           /\ PageAfter(c, t, n).status = "ok" =>
                 /\ t = token.n /\ token.state # "revoked"
                 /\ office.minimum <= c
                 /\ \A r \in DOMAIN PageAfter(c, t, n).events :
                       PageAfter(c, t, n).events[r] \subseteq Shown(consent)
<1> DEFINE log == [r \in PageEvents(c, n) |-> events[r].shows]
<1>1. /\ office \in [revision : Nat, minimum : Nat]
      /\ DOMAIN events = office.minimum + 1 .. office.revision
      /\ \A r \in DOMAIN events : events[r] \in Event
      /\ \A r \in DOMAIN events : events[r].shows \subseteq Shown(consent)
      /\ MaxRevision \in Nat
  BY OfficeAssumption DEF RevisionsInv, OfficeTypeOK, HistoryIsContiguous, RetainedIsConsented
<1>2. PageEvents(c, n) \subseteq DOMAIN events
  BY DEF PageEvents, After
<1>3. PageEvents(c, n) \subseteq 1 .. office.revision
  BY <1>1, <1>2
<1>4. log \in Log /\ DOMAIN log \subseteq 1 .. office.revision
  <2>1. log \in [PageEvents(c, n) -> SUBSET DOMAIN Needs]
    BY <1>1, <1>2 DEF Event
  <2>2. PageEvents(c, n) \in SUBSET (1 .. MaxRevision)
    BY <1>1, <1>3
  <2> QED
    BY <1>3, <2>1, <2>2 DEF Log
<1>5. \A r \in DOMAIN log : log[r] \subseteq Shown(consent)
  BY <1>1, <1>2
<1>6. CASE t # token.n \/ token.state # "valid"
  BY <1>1, <1>6, NoPageIsPage DEF PageAfter, NoPage
<1>7. CASE t = token.n /\ token.state = "valid" /\ c < office.minimum
  <2>1. << >> \in Log /\ DOMAIN << >> = {}
    BY NoPageIsPage DEF NoPage, Page
  <2> QED
    BY <1>1, <1>7, <2>1 DEF PageAfter, Page
<1>8. CASE t = token.n /\ token.state = "valid" /\ ~(c < office.minimum)
  <2>1. PageAfter(c, t, n) = [status |-> "ok", current |-> office.revision, events |-> log]
    BY <1>8 DEF PageAfter
  <2> HIDE DEF log
  <2> QED
    BY <1>1, <1>4, <1>5, <1>8, <2>1 DEF Page
<1> QED
  BY <1>6, <1>7, <1>8

-----------------------------------------------------------------------------
(* What the handler does with a stream, operator by operator.               *)

\* A page that is written no more, or none at all.
LEMMA QuietPage ==
    ASSUME RevisionsInv, NEW S \in Pump, PageOK(S), NEW T \in Pump,
           T.page = S.page \/ T.page = NoPage, T.step # "write"
    PROVE  PageOK(T)
<1>1. office.revision \in Nat
  BY DEF RevisionsInv, OfficeTypeOK
<1>2. DOMAIN NoPage.events = {} /\ NoPage.current = 0
  BY NoPageIsPage DEF NoPage
<1> QED
  BY <1>1, <1>2 DEF PageOK

LEMMA EndedIsPump ==
    ASSUME NEW S \in Pump
    PROVE  /\ Ended(S) \in Pump /\ Ended(S).over
           /\ Ended(S).step = S.step /\ Ended(S).page = S.page
           /\ Ended(S).lastSent = S.lastSent /\ Ended(S).token = S.token
  BY DEF Ended, Pump, Ending

LEMMA AbsentIsPump == Absent \in Pump /\ ~Holds(Absent)
<1>1. << >> \in Seq(1 .. MaxRevision)
  OBVIOUS
<1>2. MaxRevision \in Nat /\ MaxToken \in Nat \ {0}
  BY OfficeAssumption
<1> QED
  BY <1>1, <1>2, NoPageIsPage DEF Absent, Pump, Step, Ending, Holds

LEMMA DoneIsStep ==
    ASSUME RevisionsInv, NEW S \in Pump, PageOK(S)
    PROVE  PumpStep(S, Done(S)) /\ ~Holds(Done(S))
<1>1. CASE S.left
  <2>1. Done(S) = Absent /\ Absent.step = "none" /\ Absent.lastSent = 0 /\ Absent.page = NoPage
    BY <1>1 DEF Done, Absent
  <2>2. PageOK(Absent)
    BY <2>1, AbsentIsPump, QuietPage
  <2>3. Pos(Absent) = -1
    BY <2>1 DEF Pos, Subscribed
  <2>4. ~(0 > S.lastSent)
    BY OfficeAssumption DEF Pump
  <2> QED
    BY <2>1, <2>2, <2>3, <2>4, AbsentIsPump DEF PumpStep, Moves, Discloses
<1>2. CASE ~S.left
  <2> DEFINE E == Ended(S)
             T == [E EXCEPT !.step = "closed", !.page = NoPage]
  <2>1. E \in Pump /\ E.over /\ E.lastSent = S.lastSent
    BY EndedIsPump
  <2>2. T \in Pump /\ T.step = "closed" /\ T.over /\ T.lastSent = S.lastSent /\ T.page = NoPage
    <3> HIDE DEF E
    <3> QED
      BY <2>1, NoPageIsPage DEF Pump, Step
  <2>3. Done(S) = T
    BY <1>2 DEF Done
  <2> HIDE DEF E, T
  <2>4. PageOK(T)
    BY <2>2, QuietPage
  <2>5. Pos(T) = -1
    BY <2>2 DEF Pos, Subscribed
  <2>6. ~(T.lastSent > S.lastSent)
    BY <2>2, OfficeAssumption DEF Pump
  <2> QED
    BY <2>2, <2>3, <2>4, <2>5, <2>6 DEF PumpStep, Moves, Discloses, Holds
<1> QED
  BY <1>1, <1>2

\* A step that keeps the cursor and does not read.
LEMMA QuietStep ==
    ASSUME RevisionsInv, NEW S \in Pump, PageOK(S), NEW T \in Pump,
           T.page = S.page \/ T.page = NoPage, T.step # "write",
           T.lastSent = S.lastSent, Subscribed(T) => Subscribed(S)
    PROVE  PumpStep(S, T)
<1>1. PageOK(T)
  BY QuietPage
<1>2. ~(T.lastSent > S.lastSent)
  BY OfficeAssumption DEF Pump
<1> QED
  BY <1>1, <1>2 DEF PumpStep, Moves, Discloses, Pos

LEMMA LoopIsStep ==
    ASSUME RevisionsInv, NEW S \in Pump, PageOK(S), S.step \in {"release", "drain"}
    PROVE  PumpStep(S, Loop(S)) /\ ~Holds(Loop(S))
<1>1. CASE S.over
  BY <1>1, DoneIsStep DEF Loop
<1>2. CASE ~S.over
  <2> DEFINE T == [S EXCEPT !.live = TRUE, !.page = NoPage, !.pending = FALSE,
                            !.step = IF S.pending THEN "acquire" ELSE "idle"]
  <2>1. /\ T \in Pump /\ T.page = NoPage /\ T.step \in {"acquire", "idle"}
        /\ T.lastSent = S.lastSent
    BY NoPageIsPage DEF Pump, Step
  <2>2. Loop(S) = T
    BY <1>2 DEF Loop
  <2>3. Subscribed(S)
    BY <1>2 DEF Subscribed
  <2> HIDE DEF T
  <2>4. PumpStep(S, T)
    BY <2>1, <2>3, QuietStep
  <2> QED
    BY <2>1, <2>2, <2>4 DEF Holds
<1> QED
  BY <1>1, <1>2

LEMMA ReleasedIsStep ==
    ASSUME RevisionsInv, NEW S \in Pump, PageOK(S), S.step = "release"
    PROVE  PumpStep(S, Released(S)) /\ ~Holds(Released(S))
<1>1. CASE S.after = "end"
  BY <1>1, DoneIsStep DEF Released
<1>2. CASE S.after = "drain" /\ ~S.over
  <2> DEFINE T == [S EXCEPT !.step = "drain", !.page = NoPage]
  <2>1. T \in Pump /\ T.page = NoPage /\ T.step = "drain" /\ T.lastSent = S.lastSent
    BY NoPageIsPage DEF Pump, Step
  <2>2. Released(S) = T
    BY <1>2 DEF Released
  <2>3. Subscribed(S)
    BY <1>2 DEF Subscribed
  <2> HIDE DEF T
  <2>4. PumpStep(S, T)
    BY <2>1, <2>3, QuietStep
  <2> QED
    BY <2>1, <2>2, <2>4 DEF Holds
<1>3. CASE S.after # "end" /\ ~(S.after = "drain" /\ ~S.over)
  BY <1>3, LoopIsStep DEF Released
<1> QED
  BY <1>1, <1>2, <1>3

-----------------------------------------------------------------------------
(* A page that is written.                                                  *)

LEMMA PumpFacts ==
    ASSUME NEW S \in Pump
    PROVE  /\ S.lastSent \in Nat /\ MaxRevision \in Nat /\ S.lastSent <= MaxRevision + 1
           /\ S.wire \in Seq(1 .. MaxRevision)
           /\ DOMAIN S.page.events \subseteq 1 .. MaxRevision
<1>1. S.page \in Page /\ S.lastSent \in 0 .. MaxRevision + 1 /\ S.wire \in Seq(1 .. MaxRevision)
  BY DEF Pump
<1>2. S.page.events \in Log
  BY <1>1 DEF Page
<1>3. DOMAIN S.page.events \subseteq 1 .. MaxRevision
  BY <1>2 DEF Log
<1> QED
  BY <1>1, <1>3, OfficeAssumption

\* An interval's worth of numbers after n, as many as there are in R, is in R, if R
\* leaves none out.
LEMMA RunIsInterval ==
    ASSUME NEW n \in Nat, NEW m \in Nat, NEW R \in SUBSET (n + 1 .. m),
           \A r \in R : n + 1 .. r \subseteq R
    PROVE  /\ Cardinality(R) \in Nat
           /\ n + 1 .. n + Cardinality(R) \subseteq R
<1>1. IsFiniteSet(R) /\ Cardinality(R) \in Nat
  <2>1. IsFiniteSet(n + 1 .. m)
    BY FS_Interval
  <2> QED
    BY <2>1, FS_Subset, FS_CardinalityType
<1>2. SUFFICES ASSUME NEW x \in n + 1 .. n + Cardinality(R), x \notin R
               PROVE  FALSE
  BY <1>1
<1>3. R \subseteq n + 1 .. x - 1
  <2>1. SUFFICES ASSUME NEW r \in R, r >= x
                 PROVE  FALSE
    BY <1>1
  <2>2. x \in n + 1 .. r
    BY <1>1, <2>1
  <2> QED
    BY <1>2, <2>2
<1>4. IsFiniteSet(n + 1 .. x - 1) /\ Cardinality(n + 1 .. x - 1) = x - 1 - n
  <2>1. n + 1 \in Int /\ x - 1 \in Int /\ n + 1 <= x
    BY <1>1
  <2>2. IsFiniteSet(n + 1 .. x - 1)
        /\ Cardinality(n + 1 .. x - 1) = IF n + 1 > x - 1 THEN 0 ELSE (x - 1) - (n + 1) + 1
    BY <2>1, FS_Interval
  <2> QED
    BY <2>1, <2>2
<1>5. Cardinality(R) <= x - 1 - n
  BY <1>3, <1>4, FS_Subset
<1> QED
  BY <1>1, <1>5

\* Everything up to the last of the run is on the page.
LEMMA RunIsOnPage ==
    ASSUME NEW S \in Pump
    PROVE  /\ LastOfRun(S) \in Nat /\ LastOfRun(S) >= S.lastSent
           /\ S.lastSent + 1 .. LastOfRun(S) \subseteq DOMAIN S.page.events
           /\ \A to \in Run(S) : to \in Nat /\ to > S.lastSent
                 /\ S.lastSent + 1 .. to \subseteq DOMAIN S.page.events
<1>1. /\ S.lastSent \in Nat /\ MaxRevision \in Nat
      /\ DOMAIN S.page.events \subseteq 1 .. MaxRevision
  BY PumpFacts
<1>2. /\ Run(S) \in SUBSET (S.lastSent + 1 .. MaxRevision)
      /\ Run(S) \subseteq DOMAIN S.page.events
  BY <1>1 DEF Run
<1>3. ASSUME NEW r \in Run(S)
      PROVE  S.lastSent + 1 .. r \subseteq Run(S)
  <2>1. SUFFICES ASSUME NEW q \in S.lastSent + 1 .. r
                 PROVE  q \in Run(S)
    OBVIOUS
  <2>2. S.lastSent + 1 .. r \subseteq DOMAIN S.page.events
    BY DEF Run
  <2>3. S.lastSent + 1 .. q \subseteq S.lastSent + 1 .. r
    BY <1>1, <1>2
  <2> QED
    BY <1>1, <2>2, <2>3 DEF Run
<1>4. Cardinality(Run(S)) \in Nat
      /\ S.lastSent + 1 .. S.lastSent + Cardinality(Run(S)) \subseteq Run(S)
  BY <1>1, <1>2, <1>3, RunIsInterval
<1> QED
  BY <1>1, <1>2, <1>4 DEF LastOfRun, Run

LEMMA QueuedIsPump ==
    ASSUME NEW S \in Pump, NEW to \in Nat, to >= S.lastSent,
           S.lastSent + 1 .. to \subseteq DOMAIN S.page.events
    PROVE  /\ Queued(S, to) \in Pump
           /\ Queued(S, to).lastSent = to /\ Queued(S, to).page = S.page
           /\ Queued(S, to).over = S.over
<1>1. /\ S.lastSent \in Nat /\ MaxRevision \in Nat /\ S.lastSent <= MaxRevision + 1
      /\ DOMAIN S.page.events \subseteq 1 .. MaxRevision
      /\ S.wire \in Seq(1 .. MaxRevision)
  BY PumpFacts
<1>2. to \in 0 .. MaxRevision + 1
  <2>1. CASE to = S.lastSent
    BY <1>1, <2>1
  <2>2. CASE to > S.lastSent
    <3>1. to \in S.lastSent + 1 .. to
      BY <1>1, <2>2
    <3> QED
      BY <1>1, <3>1
  <2> QED
    BY <1>1, <2>1, <2>2
<1> DEFINE frames == [i \in 1 .. to - S.lastSent |-> S.lastSent + i]
<1>3. frames \in Seq(1 .. MaxRevision)
  <2>1. ASSUME NEW i \in 1 .. to - S.lastSent
        PROVE  S.lastSent + i \in 1 .. MaxRevision
    <3>1. S.lastSent + i \in S.lastSent + 1 .. to
      BY <1>1
    <3> QED
      BY <1>1, <3>1
  <2>2. to - S.lastSent \in Nat
    BY <1>1
  <2>3. frames \in [1 .. to - S.lastSent -> 1 .. MaxRevision]
    BY <2>1
  <2>4. PICK n \in Nat : n = to - S.lastSent
    BY <2>2
  <2>5. frames \in [1 .. n -> 1 .. MaxRevision]
    BY <2>3, <2>4
  <2> HIDE DEF frames
  <2> QED
    BY <2>5, SeqDef
<1>4. S.wire \o frames \in Seq(1 .. MaxRevision)
  BY <1>1, <1>3, ConcatProperties
<1> DEFINE wire == S.wire \o frames
<1>5. Queued(S, to) = [S EXCEPT !.lastSent = to, !.wire = wire]
  BY DEF Queued
<1> HIDE DEF frames, wire
<1>6. wire \in Seq(1 .. MaxRevision)
  BY <1>4 DEF wire
<1> QED
  BY <1>2, <1>5, <1>6 DEF Pump

LEMMA ReleasingIsPump ==
    ASSUME NEW S \in Pump, NEW after \in {"loop", "drain", "end"}
    PROVE  /\ Releasing(S, after) \in Pump /\ Releasing(S, after).step = "release"
           /\ Releasing(S, after).page = S.page /\ Releasing(S, after).over = S.over
           /\ Releasing(S, after).lastSent = S.lastSent
  BY DEF Releasing, Pump, Step

LEMMA ResyncedIsPump ==
    ASSUME NEW S \in Pump
    PROVE  /\ Resynced(S) \in Pump /\ Resynced(S).over
           /\ Resynced(S).page = S.page /\ Resynced(S).lastSent = S.lastSent
  BY DEF Resynced, Pump, Ending

\* A written page: what has been queued was on it, and it was as the office answers.
LEMMA WrittenIsStep ==
    ASSUME RevisionsInv, NEW S \in Pump, PageOK(S), S.step = "write",
           NEW T \in Pump, T.page = S.page, T.step = "release", ~S.over,
           \/ T.lastSent = S.lastSent
           \/ /\ S.page.status = "ok" /\ T.lastSent > S.lastSent
              /\ S.lastSent + 1 .. T.lastSent \subseteq DOMAIN S.page.events
    PROVE  PumpStep(S, T)
<1>1. Subscribed(S)
  BY DEF Subscribed
<1>2. CASE T.lastSent = S.lastSent
  BY <1>1, <1>2, QuietStep
<1>3. CASE /\ S.page.status = "ok" /\ T.lastSent > S.lastSent
           /\ S.lastSent + 1 .. T.lastSent \subseteq DOMAIN S.page.events
  <2>1. S.lastSent \in Nat /\ T.lastSent \in Nat
    BY OfficeAssumption DEF Pump
  <2>2. PageOK(T)
    BY QuietPage
  <2>3. T.lastSent \in S.lastSent + 1 .. office.revision /\ S.lastSent >= office.minimum
    BY <1>3, <2>1 DEF PageOK, RevisionsInv, OfficeTypeOK
  <2>4. Moves(S, T)
    BY <1>1, <2>1, <2>3 DEF Moves, Pos
  <2>5. Discloses(S, T)
    BY <1>3 DEF Discloses, PageOK
  <2> QED
    BY <2>2, <2>4, <2>5 DEF PumpStep
<1> QED
  BY <1>2, <1>3

LEMMA WriteAllIsStep ==
    ASSUME RevisionsInv, NEW S \in Pump, PageOK(S), S.step = "write",
           S.page.status = "ok", ~S.over
    PROVE  PumpStep(S, WriteAll(S)) /\ WriteAll(S).step = "release"
<1> DEFINE to == LastOfRun(S)
           Q == Queued(S, to)
           P == [Q EXCEPT !.pending = @ \/ Q.lastSent < S.page.current]
<1>1. /\ to \in Nat /\ to >= S.lastSent
      /\ S.lastSent + 1 .. to \subseteq DOMAIN S.page.events
      /\ S.lastSent \in Nat
  BY RunIsOnPage, PumpFacts
<1>2. Q \in Pump /\ Q.lastSent = to /\ Q.page = S.page
  BY <1>1, QueuedIsPump
<1> HIDE DEF Q, to
<1>3. \/ to = S.lastSent
      \/ to > S.lastSent /\ S.lastSent + 1 .. to \subseteq DOMAIN S.page.events
  BY <1>1
<1>4. CASE Run(S) # Fresh(S)
  <2> DEFINE T == Releasing(Resynced(Q), "end")
  <2>1. Resynced(Q) \in Pump /\ Resynced(Q).page = S.page /\ Resynced(Q).lastSent = to
    BY <1>2, ResyncedIsPump
  <2>2. T \in Pump /\ T.step = "release" /\ T.page = S.page /\ T.lastSent = to
    BY <2>1, ReleasingIsPump
  <2>3. WriteAll(S) = T
    BY <1>4 DEF WriteAll, Q, to
  <2> HIDE DEF T
  <2>4. PumpStep(S, T)
    BY <1>3, <2>2, WrittenIsStep
  <2> QED
    BY <2>2, <2>3, <2>4
<1>5. CASE Run(S) = Fresh(S)
  <2> DEFINE T == Releasing(P, "loop")
  <2>1. P \in Pump /\ P.page = S.page /\ P.lastSent = to
    BY <1>2 DEF Pump
  <2> HIDE DEF P
  <2>2. T \in Pump /\ T.step = "release" /\ T.page = S.page /\ T.lastSent = to
    BY <2>1, ReleasingIsPump
  <2>3. WriteAll(S) = T
    BY <1>5 DEF WriteAll, P, Q, to
  <2> HIDE DEF T
  <2>4. PumpStep(S, T)
    BY <1>3, <2>2, WrittenIsStep
  <2> QED
    BY <2>2, <2>3, <2>4
<1> QED
  BY <1>4, <1>5

-----------------------------------------------------------------------------
(* One stream moves under an office that stands still.                      *)

LEMMA OneStream ==
    ASSUME PumpInv, NEW s \in Stream,
           stream' = [stream EXCEPT ![s] = stream'[s]],
           UNCHANGED <<now, consent, office, events, current, token, broker, mail, tick>>,
           PumpStep(stream[s], stream'[s]),
           leases' \ {s} = leases \ {s},
           s \in leases' <=> Holds(stream'[s])
    PROVE  /\ PumpInv'
           /\ [Feed!Next]_(Feed!feedVars)
           /\ \A t \in Stream : Discloses(stream[t], stream'[t])
<1>1. \A t \in Stream : t # s => stream'[t] = stream[t]
  BY DEF PumpInv
<1>2. RevisionsInv'
  <2>1. leases' \subseteq Stream
    BY DEF PumpInv, LeasesAreGivenBack
  <2>2. OfficeTypeOK'
    BY <2>1 DEF PumpInv, RevisionsInv, OfficeTypeOK
  <2> QED
    BY <2>2, QuietKeepsTheLog DEF PumpInv
<1>3. stream' \in [Stream -> Pump]
  BY <1>1 DEF PumpInv, PumpStep
<1>4. LeasesAreGivenBack'
  BY <1>1 DEF PumpInv, LeasesAreGivenBack, Holds
<1>5. \A t \in Stream : PageOK(stream[t])'
  BY <1>1 DEF PumpInv, PumpStep, PageOK, Opens, Shown
<1>6. ASSUME NEW t \in Stream
      PROVE  Discloses(stream[t], stream'[t])
  <2>1. CASE t = s
    BY <2>1 DEF PumpStep
  <2>2. CASE t # s
    <3>1. stream[t] \in Pump
      BY DEF PumpInv
    <3>2. ~(stream[t].lastSent > stream[t].lastSent)
      BY <3>1, PumpFacts
    <3> QED
      BY <1>1, <2>2, <3>2 DEF Discloses
  <2> QED
    BY <2>1, <2>2
<1>7. [Feed!Next]_(Feed!feedVars)
  <2> DEFINE pos == [t \in Stream |-> Pos(stream[t])]
  <2>1. pos' = [pos EXCEPT ![s] = Pos(stream'[s])]
    BY <1>1 DEF Pos, Subscribed
  <2>2. office' = office /\ Moves(stream[s], stream'[s])
    BY DEF PumpStep
  <2>3. pos[s] = Pos(stream[s])
    OBVIOUS
  <2>4. pos = [t \in Stream |-> IF Subscribed(stream[t]) THEN stream[t].lastSent ELSE -1]
    BY DEF Pos
  <2>5. pos' = [t \in Stream |-> IF Subscribed(stream[t]) THEN stream[t].lastSent ELSE -1]'
    BY DEF Pos, Subscribed
  <2> HIDE DEF pos
  <2>6. CASE Pos(stream'[s]) = Pos(stream[s])
    <3>1. pos' = pos
      BY <2>1, <2>3, <2>6, <2>4
    <3> QED
      BY <2>2, <2>4, <2>5, <3>1 DEF Feed!feedVars
  <2>7. CASE Pos(stream'[s]) = -1 /\ Pos(stream[s]) # -1
    <3>1. Feed!Leave(s)
      BY <2>1, <2>2, <2>3, <2>4, <2>5, <2>7 DEF Feed!Leave, Feed!Away
    <3> QED
      BY <3>1 DEF Feed!Next
  <2>8. CASE Pos(stream[s]) = -1 /\ Pos(stream'[s]) \in 0 .. office.revision
    <3>1. Feed!Join(s)
      BY <2>1, <2>2, <2>3, <2>4, <2>5, <2>8 DEF Feed!Join, Feed!Away
    <3> QED
      BY <3>1 DEF Feed!Next
  <2>9. CASE /\ Pos(stream[s]) # -1 /\ Pos(stream[s]) >= office.minimum
             /\ Pos(stream'[s]) \in Pos(stream[s]) + 1 .. office.revision
    <3>1. Feed!Tell(s)
      BY <2>1, <2>2, <2>3, <2>4, <2>5, <2>9 DEF Feed!Tell, Feed!Away
    <3> QED
      BY <3>1 DEF Feed!Next
  <2> QED
    BY <2>2, <2>6, <2>7, <2>8, <2>9 DEF Moves
<1> QED
  BY <1>2, <1>3, <1>4, <1>5, <1>6, <1>7 DEF PumpInv

\* What every step of the system does: it keeps the invariant, it is a step of the
\* feed or none, and what it writes may be written.
Good ==
    /\ PumpInv'
    /\ [Feed!Next]_(Feed!feedVars)
    /\ \A t \in Stream : Discloses(stream[t], stream'[t])

LEMMA BecomesIsGood ==
    ASSUME PumpInv, NEW s \in Stream, NEW T, Becomes(s, T),
           PumpStep(stream[s], T), Holds(T) <=> Holds(stream[s])
    PROVE  Good
<1>1. stream' = [stream EXCEPT ![s] = T] /\ stream'[s] = T /\ UNCHANGED officeVars
  BY DEF Becomes, PumpInv
<1>2. s \in leases' <=> Holds(T)
  BY <1>1 DEF PumpInv, LeasesAreGivenBack, Holds, officeVars
<1> QED
  BY <1>1, <1>2, OneStream DEF Good, officeVars

\* A step beside the place where the handler stands.
LEMMA AsideStep ==
    ASSUME RevisionsInv, NEW S \in Pump, PageOK(S), NEW T \in Pump,
           T.step = S.step, T.page = S.page, T.lastSent = S.lastSent, T.token = S.token,
           S.over => T.over
    PROVE  PumpStep(S, T)
<1>1. PageOK(T)
  BY DEF PageOK, Opens
<1>2. ~(T.lastSent > S.lastSent)
  BY PumpFacts
<1>3. Subscribed(T) => Subscribed(S)
  BY DEF Subscribed, Pump
<1> QED
  BY <1>1, <1>2, <1>3 DEF PumpStep, Moves, Discloses, Pos

LEMMA OfPump ==
    ASSUME PumpInv, NEW s \in Stream
    PROVE  stream[s] \in Pump /\ PageOK(stream[s]) /\ RevisionsInv
  BY DEF PumpInv

LEMMA ConnectIsGood ==
    ASSUME PumpInv, NEW s \in Stream, NEW t \in 1 .. token.n,
           NEW c \in 0 .. office.revision + 1, Connect(s, t, c)
    PROVE  Good
<1> DEFINE T == [Absent EXCEPT !.step = "preflight", !.token = t, !.lastSent = c]
<1>1. /\ token.n \in Nat /\ token.n <= MaxToken /\ MaxToken \in Nat
      /\ office.revision \in Nat /\ office.revision <= MaxRevision /\ MaxRevision \in Nat
  BY OfficeAssumption DEF PumpInv, RevisionsInv, OfficeTypeOK
<1>2. t \in 1 .. MaxToken /\ c \in 0 .. MaxRevision + 1
  BY <1>1
<1>3. T \in Pump /\ T.step = "preflight" /\ T.page = NoPage
  <2>1. Absent \in Pump /\ Absent.page = NoPage
    BY AbsentIsPump DEF Absent
  <2> QED
    BY <1>2, <2>1 DEF Pump, Step
<1>4. stream[s].step = "none" /\ Becomes(s, T)
  BY DEF Connect
<1> HIDE DEF T
<1>5. PumpStep(stream[s], T)
  <2>1. PageOK(T)
    BY <1>3, OfPump, QuietPage
  <2>2. Pos(T) = -1 /\ Pos(stream[s]) = -1
    BY <1>3, <1>4 DEF Pos, Subscribed
  <2> QED
    BY <1>3, <1>4, <2>1, <2>2 DEF PumpStep, Moves, Discloses
<1> QED
  BY <1>3, <1>4, <1>5, BecomesIsGood DEF Holds

LEMMA PreflightIsGood ==
    ASSUME PumpInv, NEW s \in Stream, Preflight(s)
    PROVE  Good
<1> DEFINE S == stream[s]
<1>1. S \in Pump /\ PageOK(S) /\ RevisionsInv /\ S.step = "preflight" /\ S.lastSent \in Nat
  BY OfPump, PumpFacts DEF Preflight
<1>2. PICK n \in 1 .. PageLimit :
           Becomes(s, [S EXCEPT !.step = "subscribe",
                                !.page = PageAfter(S.lastSent, S.token, n)])
  BY DEF Preflight
<1> DEFINE page == PageAfter(S.lastSent, S.token, n)
           T == [S EXCEPT !.step = "subscribe", !.page = page]
<1>3. /\ page \in Page /\ page.current <= office.revision
      /\ DOMAIN page.events \subseteq 1 .. office.revision
  BY <1>1, PageAfterIsPage DEF PumpInv
<1> HIDE DEF page
<1>4. T \in Pump /\ T.step = "subscribe" /\ T.page = page
  BY <1>1, <1>3 DEF Pump, Step
<1>5. Becomes(s, T)
  BY <1>2 DEF page
<1> HIDE DEF T
<1>6. PumpStep(S, T)
  <2>1. PageOK(T)
    BY <1>3, <1>4 DEF PageOK
  <2>2. Pos(T) = -1
    BY <1>4 DEF Pos, Subscribed
  <2> QED
    BY <1>1, <1>4, <2>1, <2>2 DEF PumpStep, Moves, Discloses
<1> QED
  BY <1>1, <1>4, <1>5, <1>6, BecomesIsGood DEF Holds

\* A stream joins the feed where its first page continues its cursor.
LEMMA SubscribeIsGood ==
    ASSUME PumpInv, NEW s \in Stream, Subscribe(s)
    PROVE  Good
<1> DEFINE S == stream[s]
           T == [S EXCEPT !.step = "acquire", !.page = NoPage]
<1>1. S \in Pump /\ PageOK(S) /\ RevisionsInv /\ S.step = "subscribe" /\ S.lastSent \in Nat
  BY OfPump, PumpFacts DEF Subscribe
<1>2. CASE S.left \/ ~Accepted(S)
  BY <1>1, <1>2, DoneIsStep, BecomesIsGood DEF Subscribe, Holds
<1>3. CASE ~(S.left \/ ~Accepted(S))
  <2>1. T \in Pump /\ T.step = "acquire" /\ T.page = NoPage /\ T.lastSent = S.lastSent
    BY <1>1, NoPageIsPage DEF Pump, Step
  <2>2. Becomes(s, T)
    BY <1>3 DEF Subscribe
  <2>3. S.lastSent <= S.page.current /\ S.page.current <= office.revision
    BY <1>1, <1>3 DEF Accepted, PageOK
  <2>4. S.page.current \in Nat /\ office.revision \in Nat
    BY <1>1, PumpFacts DEF Pump, Page, RevisionsInv, OfficeTypeOK
  <2> HIDE DEF T
  <2>5. PumpStep(S, T)
    <3>1. PageOK(T)
      BY <1>1, <2>1, QuietPage
    <3>2. Pos(S) = -1 /\ (Pos(T) = -1 \/ Pos(T) \in 0 .. office.revision)
      BY <1>1, <2>1, <2>3, <2>4 DEF Pos, Subscribed
    <3> QED
      BY <1>1, <2>1, <3>1, <3>2 DEF PumpStep, Moves, Discloses
  <2> QED
    BY <1>1, <2>1, <2>2, <2>5, BecomesIsGood DEF Holds
<1> QED
  BY <1>2, <1>3

\* The page is read under the lock, and the lock is held from then on.
LEMMA AcquireIsGood ==
    ASSUME PumpInv, NEW s \in Stream, Acquire(s)
    PROVE  Good
<1> DEFINE S == stream[s]
<1>1. S \in Pump /\ PageOK(S) /\ RevisionsInv /\ S.step = "acquire" /\ S.lastSent \in Nat
  BY OfPump, PumpFacts DEF Acquire
<1>2. PICK n \in 1 .. PageLimit :
           stream' = [stream EXCEPT ![s].step = "write",
                                    ![s].page = PageAfter(S.lastSent, S.token, n)]
  BY DEF Acquire
<1> DEFINE page == PageAfter(S.lastSent, S.token, n)
           T == [S EXCEPT !.step = "write", !.page = page]
<1>3. /\ page \in Page /\ page.current <= office.revision
      /\ DOMAIN page.events \subseteq 1 .. office.revision
      /\ page.status = "ok" =>
            /\ S.token = token.n /\ token.state # "revoked"
            /\ office.minimum <= S.lastSent
            /\ \A r \in DOMAIN page.events : page.events[r] \subseteq Shown(consent)
  BY <1>1, PageAfterIsPage DEF PumpInv
<1>4. stream' = [stream EXCEPT ![s] = T] /\ stream'[s] = T
  BY <1>2 DEF PumpInv
<1> HIDE DEF page
<1>5. /\ T \in Pump /\ T.step = "write" /\ T.page = page /\ T.lastSent = S.lastSent
      /\ T.token = S.token /\ T.over = S.over
  BY <1>1, <1>3 DEF Pump, Step
<1> HIDE DEF T
<1>6. PumpStep(S, T)
  <2>1. PageOK(T)
    BY <1>3, <1>5 DEF PageOK, Opens
  <2>2. Subscribed(T) => Subscribed(S)
    BY <1>1, <1>5 DEF Subscribed
  <2> QED
    BY <1>1, <1>5, <2>1, <2>2 DEF PumpStep, Moves, Discloses, Pos
<1>7. /\ leases' = leases \cup {s}
      /\ UNCHANGED <<now, consent, office, events, current, token, broker, mail, tick>>
  BY DEF Acquire
<1> QED
  BY <1>4, <1>5, <1>6, <1>7, OneStream DEF Good, Holds

LEMMA WriteIsGood ==
    ASSUME PumpInv, NEW s \in Stream, Write(s)
    PROVE  Good
<1> DEFINE S == stream[s]
<1>1. S \in Pump /\ PageOK(S) /\ RevisionsInv /\ S.step = "write" /\ Holds(S)
  BY OfPump DEF Write, Holds
<1>2. CASE Becomes(s, Releasing(S, "end"))
  <2> DEFINE T == Releasing(S, "end")
  <2>1. /\ T \in Pump /\ T.step = "release" /\ T.page = S.page /\ T.lastSent = S.lastSent
        /\ T.over = S.over
    BY <1>1, ReleasingIsPump
  <2>2. Becomes(s, T)
    BY <1>2
  <2> HIDE DEF T
  <2>3. Subscribed(T) => Subscribed(S)
    BY <1>1, <2>1 DEF Subscribed
  <2>4. PumpStep(S, T)
    BY <1>1, <2>1, <2>3, QuietStep
  <2> QED
    BY <1>1, <2>1, <2>2, <2>4, BecomesIsGood DEF Holds
<1>3. CASE Becomes(s, Releasing(Resynced(S), "end"))
  <2> DEFINE T == Releasing(Resynced(S), "end")
  <2>1. Resynced(S) \in Pump /\ Resynced(S).over
        /\ Resynced(S).page = S.page /\ Resynced(S).lastSent = S.lastSent
    BY <1>1, ResyncedIsPump
  <2>2. /\ T \in Pump /\ T.step = "release" /\ T.page = S.page /\ T.lastSent = S.lastSent
        /\ T.over
    BY <2>1, ReleasingIsPump
  <2>3. Becomes(s, T)
    BY <1>3
  <2> HIDE DEF T
  <2>4. PumpStep(S, T)
    BY <1>1, <2>2, QuietStep DEF Subscribed
  <2> QED
    BY <1>1, <2>2, <2>3, <2>4, BecomesIsGood DEF Holds
<1>4. CASE S.page.status = "ok" /\ ~S.over /\ Becomes(s, WriteAll(S))
  BY <1>1, <1>4, WriteAllIsStep, BecomesIsGood DEF Holds
<1>5. ASSUME S.page.status = "ok", ~S.over, NEW to \in Run(S),
             Becomes(s, Releasing(Queued(S, to), "drain"))
      PROVE  Good
  <2> DEFINE Q == Queued(S, to)
             T == Releasing(Q, "drain")
  <2>1. to \in Nat /\ to > S.lastSent /\ S.lastSent + 1 .. to \subseteq DOMAIN S.page.events
    BY <1>1, RunIsOnPage
  <2>2. to >= S.lastSent
    BY <1>1, <2>1, PumpFacts
  <2>3. Q \in Pump /\ Q.lastSent = to /\ Q.page = S.page
    BY <1>1, <2>1, <2>2, QueuedIsPump
  <2> HIDE DEF Q
  <2>4. T \in Pump /\ T.step = "release" /\ T.page = S.page /\ T.lastSent = to
    BY <2>3, ReleasingIsPump
  <2>5. Becomes(s, T)
    BY <1>5 DEF Q
  <2> HIDE DEF T
  <2>6. PumpStep(S, T)
    BY <1>1, <1>5, <2>1, <2>4, WrittenIsStep
  <2> QED
    BY <1>1, <2>4, <2>5, <2>6, BecomesIsGood DEF Holds
<1> QED
  BY <1>2, <1>3, <1>4, <1>5 DEF Write

LEMMA ReleaseIsGood ==
    ASSUME PumpInv, NEW s \in Stream, Release(s)
    PROVE  Good
<1>1. /\ stream[s] \in Pump /\ PageOK(stream[s]) /\ RevisionsInv
      /\ stream[s].step = "release"
  BY OfPump DEF Release
<1>2. PumpStep(stream[s], Released(stream[s])) /\ ~Holds(Released(stream[s]))
  BY <1>1, ReleasedIsStep
<1>3. stream' = [stream EXCEPT ![s] = Released(stream[s])] /\ stream'[s] = Released(stream[s])
  BY DEF Release, PumpInv
<1>4. /\ leases' = leases \ {s}
      /\ UNCHANGED <<now, consent, office, events, current, token, broker, mail, tick>>
  BY DEF Release
<1> QED
  BY <1>2, <1>3, <1>4, OneStream DEF Good

LEMMA ReleaseFailsIsGood ==
    ASSUME PumpInv, NEW s \in Stream, ReleaseFails(s)
    PROVE  Good
<1> DEFINE S == stream[s]
           T == [S EXCEPT !.step = "stuck", !.page = NoPage]
<1>1. S \in Pump /\ PageOK(S) /\ RevisionsInv /\ S.step = "release"
  BY OfPump DEF ReleaseFails
<1>2. /\ leases' = leases \ {s}
      /\ UNCHANGED <<now, consent, office, events, current, token, broker, mail, tick>>
  BY DEF ReleaseFails
<1>3. CASE S.live \/ S.over \/ S.after = "end"
  <2>1. stream' = [stream EXCEPT ![s] = Done(S)] /\ stream'[s] = Done(S)
    BY <1>3 DEF ReleaseFails, PumpInv
  <2> QED
    BY <1>1, <1>2, <2>1, DoneIsStep, OneStream DEF Good
<1>4. CASE ~(S.live \/ S.over \/ S.after = "end")
  <2>1. /\ T \in Pump /\ T.step = "stuck" /\ T.page = NoPage /\ T.lastSent = S.lastSent
        /\ T.over = S.over
    BY <1>1, NoPageIsPage DEF Pump, Step
  <2>2. stream' = [stream EXCEPT ![s] = T] /\ stream'[s] = T
    BY <1>4 DEF ReleaseFails, PumpInv
  <2> HIDE DEF T
  <2>3. Subscribed(T) => Subscribed(S)
    BY <1>1, <2>1 DEF Subscribed
  <2>4. PumpStep(S, T)
    BY <1>1, <2>1, <2>3, QuietStep
  <2> QED
    BY <1>2, <2>1, <2>2, <2>4, OneStream DEF Good, Holds
<1> QED
  BY <1>3, <1>4

LEMMA DrainedIsGood ==
    ASSUME PumpInv, NEW s \in Stream, Drained(s)
    PROVE  Good
<1> DEFINE S == stream[s]
           P == [S EXCEPT !.pending = TRUE]
<1>1. S \in Pump /\ PageOK(S) /\ RevisionsInv /\ S.step = "drain"
  BY OfPump DEF Drained
<1>2. /\ P \in Pump /\ P.step = "drain" /\ P.page = S.page /\ P.lastSent = S.lastSent
      /\ P.over = S.over /\ P.token = S.token
  BY <1>1 DEF Pump
<1>3. Becomes(s, Loop(P))
  BY DEF Drained
<1> HIDE DEF P
<1>4. PageOK(P)
  BY <1>1, <1>2 DEF PageOK
<1>5. PumpStep(P, Loop(P)) /\ ~Holds(Loop(P))
  BY <1>1, <1>2, <1>4, LoopIsStep
<1>6. Pos(P) = Pos(S)
  BY <1>1, <1>2 DEF Pos, Subscribed
<1>7. PumpStep(S, Loop(P))
  BY <1>1, <1>5, <1>6 DEF PumpStep, Moves, Discloses
<1> QED
  BY <1>1, <1>3, <1>5, <1>7, BecomesIsGood DEF Holds

-----------------------------------------------------------------------------
(* What others do to a stream: wake-ups, the timer, the client.             *)

LEMMA WokenFacts ==
    ASSUME NEW S \in Pump
    PROVE  /\ Woken(S) \in Pump
           /\ Woken(S).page = S.page /\ Woken(S).lastSent = S.lastSent
           /\ Woken(S).token = S.token /\ Woken(S).over = S.over
           /\ Woken(S).step = "write" <=> S.step = "write"
           /\ Holds(Woken(S)) <=> Holds(S)
           /\ Subscribed(Woken(S)) <=> Subscribed(S)
<1>1. CASE ~Subscribed(S)
  BY <1>1 DEF Woken
<1>2. CASE Subscribed(S) /\ S.step = "idle"
  BY <1>2 DEF Woken, Pump, Step, Holds, Subscribed
<1>3. CASE Subscribed(S) /\ S.step # "idle"
  BY <1>3 DEF Woken, Pump, Holds, Subscribed
<1> QED
  BY <1>1, <1>2, <1>3

LEMMA WokenIsStep ==
    ASSUME RevisionsInv, NEW S \in Pump, PageOK(S)
    PROVE  PumpStep(S, Woken(S))
<1>1. PageOK(Woken(S))
  BY WokenFacts DEF PageOK, Opens
<1>2. ~(Woken(S).lastSent > S.lastSent)
  BY WokenFacts, PumpFacts
<1> QED
  BY <1>1, <1>2, WokenFacts DEF PumpStep, Moves, Discloses, Pos

LEMMA FallbackIsGood ==
    ASSUME PumpInv, NEW s \in Stream, Fallback(s)
    PROVE  Good
  BY OfPump, WokenFacts, WokenIsStep, BecomesIsGood DEF Fallback

LEMMA FallbackClosesIsGood ==
    ASSUME PumpInv, NEW s \in Stream, FallbackCloses(s)
    PROVE  Good
<1> DEFINE S == stream[s]
<1>1. S \in Pump /\ PageOK(S) /\ RevisionsInv
  BY OfPump
<1>2. CASE S.step \in {"idle", "drain"}
  BY <1>1, <1>2, DoneIsStep, BecomesIsGood DEF FallbackCloses, Holds
<1>3. CASE S.step \notin {"idle", "drain"}
  <2>1. Becomes(s, Ended(S))
    BY <1>3 DEF FallbackCloses
  <2>2. PumpStep(S, Ended(S))
    BY <1>1, EndedIsPump, AsideStep
  <2> QED
    BY <1>1, <2>1, <2>2, EndedIsPump, BecomesIsGood DEF Holds
<1> QED
  BY <1>2, <1>3

LEMMA ReceiveIsGood ==
    ASSUME PumpInv, NEW s \in Stream, Receive(s)
    PROVE  Good
<1> DEFINE S == stream[s]
           wire == Tail(S.wire)
           T == [S EXCEPT !.wire = wire]
<1>1. S \in Pump /\ PageOK(S) /\ RevisionsInv
  BY OfPump
<1>2. wire \in Seq(1 .. MaxRevision)
  BY <1>1, PumpFacts, HeadTailProperties DEF Receive
<1>3. Becomes(s, T)
  BY DEF Receive
<1> HIDE DEF wire
<1>4. /\ T \in Pump /\ T.step = S.step /\ T.page = S.page /\ T.lastSent = S.lastSent
      /\ T.over = S.over /\ T.token = S.token
  BY <1>1, <1>2 DEF Pump
<1> HIDE DEF T
<1>5. PumpStep(S, T)
  BY <1>1, <1>4, AsideStep
<1> QED
  BY <1>3, <1>4, <1>5, BecomesIsGood DEF Holds

LEMMA DisconnectIsGood ==
    ASSUME PumpInv, NEW s \in Stream, Disconnect(s)
    PROVE  Good
<1> DEFINE S == stream[s]
           T == [S EXCEPT !.left = TRUE, !.over = TRUE, !.wire = << >>]
<1>1. S \in Pump /\ PageOK(S) /\ RevisionsInv
  BY OfPump
<1>2. CASE S.step \in {"idle", "drain", "stuck", "closed"}
  <2>1. Absent.step = "none" /\ Absent.lastSent = 0 /\ Absent.page = NoPage
    BY DEF Absent
  <2>2. PageOK(Absent)
    BY <1>1, <2>1, AbsentIsPump, QuietPage
  <2>3. Pos(Absent) = -1
    BY <2>1 DEF Pos, Subscribed
  <2>4. PumpStep(S, Absent)
    BY <1>2, <2>2, <2>3, AbsentIsPump DEF PumpStep, Moves, Discloses
  <2> QED
    BY <1>2, <2>4, AbsentIsPump, BecomesIsGood DEF Disconnect, Holds
<1>3. CASE S.step \notin {"idle", "drain", "stuck", "closed"}
  <2>1. << >> \in Seq(1 .. MaxRevision)
    BY EmptySeq
  <2>2. /\ T \in Pump /\ T.step = S.step /\ T.page = S.page /\ T.lastSent = S.lastSent
        /\ T.over /\ T.token = S.token
    BY <1>1, <2>1 DEF Pump
  <2>3. Becomes(s, T)
    BY <1>3 DEF Disconnect
  <2> HIDE DEF T
  <2>4. PumpStep(S, T)
    BY <1>1, <2>2, AsideStep
  <2> QED
    BY <2>2, <2>3, <2>4, BecomesIsGood DEF Holds
<1> QED
  BY <1>2, <1>3

LEMMA WakeIsGood ==
    ASSUME PumpInv, WakeAll, OfficeTypeOK',
           UNCHANGED <<consent, office, events, current, token, leases>>
    PROVE  Good
<1>1. \A t \in Stream : stream'[t] = Woken(stream[t])
  BY DEF WakeAll
<1>2. \A t \in Stream : PumpStep(stream[t], stream'[t])
  BY <1>1, OfPump, WokenIsStep
<1>3. RevisionsInv'
  BY QuietKeepsTheLog DEF PumpInv
<1>4. stream' \in [Stream -> Pump]
  BY <1>1, OfPump, WokenFacts DEF WakeAll
<1>5. LeasesAreGivenBack'
  BY <1>1, OfPump, WokenFacts DEF PumpInv, LeasesAreGivenBack, Holds
<1>6. \A t \in Stream : PageOK(stream[t])'
  BY <1>2 DEF PumpStep, PageOK, Opens, Shown
<1>7. UNCHANGED Feed!feedVars
  <2>1. \A t \in Stream : Subscribed(stream'[t]) <=> Subscribed(stream[t])
    BY <1>1, OfPump, WokenFacts
  <2>2. \A t \in Stream : stream'[t].lastSent = stream[t].lastSent
    BY <1>1, OfPump, WokenFacts
  <2> QED
    BY <2>1, <2>2 DEF Feed!feedVars, Subscribed
<1> QED
  BY <1>2, <1>3, <1>4, <1>5, <1>6, <1>7 DEF Good, PumpInv, PumpStep

LEMMA StillIsGood ==
    ASSUME PumpInv, OfficeTypeOK',
           UNCHANGED <<consent, office, events, current, token, leases, stream>>
    PROVE  Good
<1>1. RevisionsInv'
  BY QuietKeepsTheLog DEF PumpInv
<1>2. PumpInv'
  BY <1>1 DEF PumpInv, PageOK, Opens, Shown, LeasesAreGivenBack
<1>3. \A t \in Stream : ~(stream[t].lastSent > stream[t].lastSent)
  BY OfPump, PumpFacts
<1> QED
  BY <1>2, <1>3 DEF Good, Discloses, Feed!feedVars, Subscribed

LEMMA BrokerIsGood ==
    ASSUME PumpInv, BrokerNext
    PROVE  Good
<1>1. OfficeTypeOK' /\ UNCHANGED <<consent, office, events, current, token, leases>>
  BY DEF BrokerNext, Deliver, BrokerLost, BrokerListens, BrokerUp, PumpInv, RevisionsInv,
         OfficeTypeOK
<1>2. CASE WakeAll
  BY <1>1, <1>2, WakeIsGood
<1>3. CASE UNCHANGED stream
  BY <1>1, <1>3, StillIsGood
<1> QED
  BY <1>2, <1>3 DEF BrokerNext, Deliver, BrokerLost, BrokerListens, BrokerUp

-----------------------------------------------------------------------------
(* What the writers of the office do to the streams.                        *)

\* A writer publishes one revision, which may take back the older ones, or withdraws
\* some; and while a lease is held it does nothing of the kind.
LEMMA OfficeMoves ==
    ASSUME RevisionsInv, office.revision <= MaxRevision, token.n \in 1 .. MaxToken,
           [OfficeNext]_officeVars
    PROVE  /\ leases' = leases
           /\ office'.revision <= MaxRevision /\ token'.n \in 1 .. MaxToken
           /\ \/ office' = office
              \/ /\ office'.revision = office.revision + 1
                 /\ office'.minimum \in {office.minimum, office.revision}
              \/ /\ office'.revision = office.revision
                 /\ office'.minimum \in office.minimum + 1 .. office.revision - 1
           /\ leases # {} =>
                 /\ office' = office /\ consent' = consent /\ token'.n = token.n
                 /\ token.state # "revoked" => token'.state # "revoked"
<1>1. /\ office \in [revision : Nat, minimum : Nat] /\ office.minimum < office.revision
      /\ token \in [n : Nat, state : {"valid", "expired", "revoked"}]
      /\ MaxReplay \in Nat \ {0} /\ MaxRevision \in Nat /\ MaxToken \in Nat
  BY OfficeAssumption DEF RevisionsInv, OfficeTypeOK, HistoryIsContiguous
<1>2. ASSUME NEW flags, NEW at, NEW lowers, Record(flags, at, lowers)
      PROVE  /\ office'.revision = office.revision + 1 /\ office'.revision <= MaxRevision
             /\ office'.minimum \in {office.minimum, office.revision}
  BY <1>1, <1>2 DEF Record
<1>3. CASE ChangeConsent
  <2>1. PICK next \in SUBSET Flag, changedAt \in now .. now + Ahead :
             Record(next, changedAt, Lowers(next))
    BY <1>3 DEF ChangeConsent
  <2> QED
    BY <1>2, <1>3, <2>1 DEF ChangeConsent, Unlocked
<1>4. CASE PresenceRevision
  BY <1>2, <1>4 DEF PresenceRevision, Unlocked
<1>5. CASE TickCommits
  BY <1>2, <1>5 DEF TickCommits, Unlocked
<1>6. CASE Retain
  <2>1. /\ office' = [office EXCEPT !.minimum = Cutoff] /\ leases = {}
        /\ UNCHANGED <<consent, token, leases>> /\ Cutoff > office.minimum
    BY <1>6 DEF Retain, Unlocked
  <2>2. Cutoff \in office.minimum + 1 .. office.revision - 1
    BY <1>1, <2>1 DEF Cutoff
  <2> QED
    BY <1>1, <2>1, <2>2
<1>7. CASE RotateToken
  <2>1. /\ token.n < MaxToken /\ token'.n = token.n + 1 /\ leases = {}
        /\ UNCHANGED <<office, leases>>
    BY <1>7 DEF RotateToken, Unlocked
  <2> QED
    BY <1>1, <2>1
<1>8. CASE RevokeToken
  BY <1>1, <1>8 DEF RevokeToken, Unlocked
<1>9. CASE ExpireToken
  BY <1>1, <1>9 DEF ExpireToken
<1>10. CASE TickCandidate \/ TickReads \/ TickFails \/ PassTime \/ UNCHANGED officeVars
  BY <1>10 DEF TickCandidate, TickReads, TickFails, PassTime, officeVars
<1> QED
  BY <1>3, <1>4, <1>5, <1>6, <1>7, <1>8, <1>9, <1>10 DEF OfficeNext

LEMMA OfficeIsGood ==
    ASSUME PumpInv, [OfficeNext]_officeVars, UNCHANGED stream
    PROVE  Good
<1>1. RevisionsInv /\ RevisionsInv' /\ office.revision <= MaxRevision /\ token.n \in 1 .. MaxToken
  BY LogNext DEF PumpInv
<1>2. /\ leases' = leases
      /\ office'.revision <= MaxRevision /\ token'.n \in 1 .. MaxToken
      /\ \/ office' = office
         \/ /\ office'.revision = office.revision + 1
            /\ office'.minimum \in {office.minimum, office.revision}
         \/ /\ office'.revision = office.revision
            /\ office'.minimum \in office.minimum + 1 .. office.revision - 1
      /\ leases # {} =>
            /\ office' = office /\ consent' = consent /\ token'.n = token.n
            /\ token.state # "revoked" => token'.state # "revoked"
  BY <1>1, OfficeMoves
<1>3. office.revision \in Nat /\ office'.revision \in Nat /\ office'.revision >= office.revision
  BY <1>1, <1>2 DEF RevisionsInv, OfficeTypeOK
<1>4. ASSUME NEW s \in Stream
      PROVE  PageOK(stream[s])'
  <2> DEFINE S == stream[s]
  <2>1. S \in Pump /\ PageOK(S) /\ stream'[s] = S
    BY OfPump
  <2>2. S.page.current \in Nat /\ S.page.current <= office'.revision
    BY <1>3, <2>1 DEF PageOK, Pump, Page
  <2>3. DOMAIN S.page.events \subseteq 1 .. office'.revision
    BY <1>3, <2>1 DEF PageOK
  <2>4. CASE S.step = "write"
    <3>1. leases # {}
      BY <2>4 DEF PumpInv, LeasesAreGivenBack
    <3> QED
      BY <1>2, <2>1, <2>2, <2>3, <3>1 DEF PageOK, Opens, Shown
  <2>5. CASE S.step # "write"
    BY <2>1, <2>2, <2>3, <2>5 DEF PageOK
  <2> QED
    BY <2>4, <2>5
<1>5. PumpInv'
  BY <1>1, <1>2, <1>4 DEF PumpInv, LeasesAreGivenBack
<1>6. [Feed!Next]_(Feed!feedVars)
  <2> DEFINE pos == [t \in Stream |-> IF Subscribed(stream[t]) THEN stream[t].lastSent ELSE -1]
  <2>1. pos' = pos
    BY DEF Subscribed
  <2> HIDE DEF pos
  <2>2. CASE office' = office
    BY <2>1, <2>2 DEF Feed!feedVars, pos
  <2>3. CASE /\ office'.revision = office.revision + 1
             /\ office'.minimum \in {office.minimum, office.revision}
    BY <2>1, <2>3 DEF Feed!Next, Feed!Publish, pos
  <2>4. CASE /\ office'.revision = office.revision
             /\ office'.minimum \in office.minimum + 1 .. office.revision - 1
    BY <2>1, <2>4 DEF Feed!Next, Feed!Trim, pos
  <2> QED
    BY <1>2, <2>2, <2>3, <2>4
<1>7. \A t \in Stream : ~(stream[t].lastSent > stream[t].lastSent)
  BY OfPump, PumpFacts
<1> QED
  BY <1>5, <1>6, <1>7 DEF Good, Discloses

-----------------------------------------------------------------------------
LEMMA PumpInit == StreamInit => PumpInv /\ Feed!Init
<1> SUFFICES ASSUME StreamInit
             PROVE  PumpInv /\ Feed!Init
  OBVIOUS
<1>1. RevisionsInv
  BY LogInit DEF StreamInit
<1>2. \A s \in Stream : stream[s] = Absent
  BY DEF StreamInit
<1>3. Absent.step = "none" /\ Absent.page = NoPage
  BY DEF Absent
<1>4. PageOK(Absent)
  BY <1>1, <1>3, NoPageIsPage DEF PageOK, NoPage, RevisionsInv, OfficeTypeOK
<1>5. stream \in [Stream -> Pump]
  BY AbsentIsPump DEF StreamInit
<1>6. LeasesAreGivenBack
  BY <1>2, <1>3 DEF LeasesAreGivenBack, StreamInit, OfficeInit
<1>7. office.revision <= MaxRevision /\ token.n \in 1 .. MaxToken
  BY OfficeAssumption DEF StreamInit, OfficeInit
<1>8. Feed!Init
  BY <1>2, <1>3 DEF Feed!Init, Feed!Away, StreamInit, OfficeInit, Subscribed
<1> QED
  BY <1>1, <1>2, <1>4, <1>5, <1>6, <1>7, <1>8 DEF PumpInv

LEMMA EveryStepIsGood ==
    ASSUME PumpInv, [StreamNext]_streamVars
    PROVE  Good
<1>1. CASE OfficeNext /\ UNCHANGED stream
  BY <1>1, OfficeIsGood
<1>2. CASE BrokerNext
  BY <1>2, BrokerIsGood
<1>3. ASSUME NEW s \in Stream, Handler(s)
      PROVE  Good
  <2>1. CASE PreflightFails(s) \/ AcquireFails(s) \/ DrainTimesOut(s)
    BY <2>1, OfPump, DoneIsStep, BecomesIsGood
       DEF PreflightFails, AcquireFails, DrainTimesOut, Holds
  <2> QED
    BY <1>3, <2>1, PreflightIsGood, SubscribeIsGood, AcquireIsGood, WriteIsGood,
       ReleaseIsGood, ReleaseFailsIsGood, DrainedIsGood, FallbackIsGood,
       FallbackClosesIsGood DEF Handler
<1>4. CASE UNCHANGED streamVars
  BY <1>4, OfficeIsGood DEF streamVars
<1> QED
  BY <1>1, <1>2, <1>3, <1>4, ConnectIsGood, ReceiveIsGood, DisconnectIsGood DEF StreamNext

LEMMA PumpIsTyped == PumpInv => StreamInv
<1> SUFFICES ASSUME PumpInv
             PROVE  StreamInv
  OBVIOUS
<1>1. OfficeTypeOK /\ LeasesAreGivenBack
  BY DEF PumpInv, RevisionsInv
<1>2. ASSUME NEW s \in Stream
      PROVE  LET S == stream[s] IN
             /\ S.step \in Step
             /\ {S.live, S.over, S.left, S.pending} \subseteq BOOLEAN
             /\ S.token \in 1 .. MaxToken
             /\ S.lastSent \in 0 .. MaxRevision + 1
             /\ S.page.status \in {"not_found", "gap", "ok"}
             /\ S.page.current \in 0 .. MaxRevision
             /\ DOMAIN S.page.events \subseteq 1 .. MaxRevision
             /\ \A i \in DOMAIN S.wire : S.wire[i] \in 1 .. MaxRevision
             /\ S.ending \in Ending
             /\ S.after \in {"loop", "drain", "end"}
  <2>1. stream[s] \in Pump
    BY OfPump
  <2>2. \A i \in DOMAIN stream[s].wire : stream[s].wire[i] \in 1 .. MaxRevision
    BY <2>1, PumpFacts
  <2>3. DOMAIN stream[s].page.events \subseteq 1 .. MaxRevision
    BY <2>1, PumpFacts
  <2> QED
    BY <2>1, <2>2, <2>3 DEF Pump, Page
<1> QED
  BY <1>1, <1>2 DEF StreamInv, StreamTypeOK

\* The invariant that carries the three theorems.
LEMMA PumpAlways == StreamSpec => []PumpInv
<1>1. PumpInv /\ [StreamNext]_streamVars => PumpInv'
  BY EveryStepIsGood DEF Good
<1> QED
  BY <1>1, PumpInit, PTL DEF StreamSpec

\* Whichever way a handler leaves, the lock it takes for a page is given back with it,
\* and its cursors stay those of revisions there are.
THEOREM LocksAreGivenBack == StreamSpec => []StreamInv
  BY PumpAlways, PumpIsTyped, PTL

\* Whatever a stream writes, the mount consents to at that moment, and the token has
\* not been revoked: writers wait for the lease, and the lease covers the write.
THEOREM OnlyConsentedIsWritten == StreamSpec => DisclosureIsConsented
<1>1. PumpInv /\ [StreamNext]_streamVars =>
         [\A s \in Stream :
            LET S == stream[s] IN
            stream'[s].lastSent > S.lastSent /\ S.step = "write" =>
               /\ Opens(S)
               /\ \A r \in S.lastSent + 1 .. stream'[s].lastSent :
                     S.page.events[r] \subseteq Shown(consent)]_streamVars
  BY EveryStepIsGood DEF Good, Discloses
<1> QED
  BY <1>1, PumpAlways, PTL DEF StreamSpec, DisclosureIsConsented

\* The handlers, their locked pages and the writers together do what OfficeFeed says:
\* every reader is told one revision after the other, none of them withdrawn.
THEOREM StreamImplementsFeed == StreamSpec => StreamFollowsLog
<1>1. PumpInv /\ [StreamNext]_streamVars => [Feed!Next]_(Feed!feedVars)
  BY EveryStepIsGood DEF Good
<1> QED
  BY <1>1, PumpInit, PumpAlways, PTL DEF StreamSpec, StreamFollowsLog, Feed!Spec

-----------------------------------------------------------------------------
(***************************************************************************)
(* No wake-up is lost: a stream that waits while the broker's session is   *)
(* up and nothing is on its way to it has told the head.                   *)
(*                                                                         *)
(* A stream may only go to sleep after a COMMIT, and until that COMMIT no  *)
(* writer commits: what it knows of the head is true when it lies down.    *)
(* From then on every writer notifies, and a session that was lost wakes   *)
(* everyone when it is back.                                               *)
(***************************************************************************)

\* Told everything, with a token that still opens the office.
Current(S) == S.lastSent = office.revision /\ Opens(S)

\* A stream that has joined is not ahead; a page that is held names the head; a turn
\* that ends without more to do, and a sleep, are those of a stream that is current.
AwakeOK(S) ==
    /\ Subscribed(S) => S.lastSent <= office.revision
    /\ S.step = "write" /\ S.page.status = "ok" => S.page.current = office.revision
    /\ S.step = "release" /\ S.after = "loop" /\ ~S.over /\ ~S.pending => Current(S)
    /\ S.step = "idle" => ~S.over /\ (broker = "up" /\ ~mail => Current(S))

WakeInv == PumpInv /\ \A s \in Stream : AwakeOK(stream[s])

-----------------------------------------------------------------------------
(* The handler's operators.                                                 *)

\* A step to where nothing but the cursor matters.
LEMMA BusyIsAwake ==
    ASSUME NEW S, AwakeOK(S), NEW T, T.step \notin {"write", "release", "idle"},
           T.lastSent = S.lastSent, Subscribed(T) => Subscribed(S)
    PROVE  AwakeOK(T)
  BY DEF AwakeOK

\* A step beside the place where the handler stands, unless it sleeps and is not ended.
LEMMA AsideIsAwake ==
    ASSUME NEW S \in Pump, AwakeOK(S), NEW T \in Pump,
           T.step = S.step, T.page = S.page, T.lastSent = S.lastSent, T.token = S.token,
           T.after = S.after, S.over => T.over, S.pending => T.pending,
           S.step = "idle" => ~T.over
    PROVE  AwakeOK(T)
<1>1. Subscribed(T) => Subscribed(S)
  BY DEF Subscribed, Pump
<1> QED
  BY <1>1 DEF AwakeOK, Current, Opens, Pump

LEMMA DoneIsAwake ==
    ASSUME NEW S \in Pump
    PROVE  AwakeOK(Done(S))
<1>1. CASE S.left
  BY <1>1 DEF Done, Absent, AwakeOK, Subscribed
<1>2. CASE ~S.left
  <2> DEFINE E == Ended(S)
             T == [E EXCEPT !.step = "closed", !.page = NoPage]
  <2>1. E \in Pump
    BY EndedIsPump
  <2>2. T.step = "closed"
    <3> HIDE DEF E
    <3> QED
      BY <2>1 DEF Pump
  <2>3. Done(S) = T
    BY <1>2 DEF Done
  <2> HIDE DEF T
  <2> QED
    BY <2>2, <2>3 DEF AwakeOK, Subscribed
<1> QED
  BY <1>1, <1>2

LEMMA LoopIsAwake ==
    ASSUME NEW S \in Pump, AwakeOK(S), S.step \in {"release", "drain"},
           ~S.over /\ ~S.pending => Current(S)
    PROVE  AwakeOK(Loop(S))
<1>1. CASE S.over
  BY <1>1, DoneIsAwake DEF Loop
<1>2. CASE ~S.over
  <2> DEFINE T == [S EXCEPT !.live = TRUE, !.page = NoPage, !.pending = FALSE,
                            !.step = IF S.pending THEN "acquire" ELSE "idle"]
  <2>1. /\ T.step = IF S.pending THEN "acquire" ELSE "idle"
        /\ T.lastSent = S.lastSent /\ T.token = S.token /\ T.over = S.over
    BY DEF Pump
  <2>2. Loop(S) = T
    BY <1>2 DEF Loop
  <2>3. Subscribed(S)
    BY <1>2 DEF Subscribed
  <2> HIDE DEF T
  <2>4. AwakeOK(T)
    BY <1>2, <2>1, <2>3 DEF AwakeOK, Current, Opens
  <2> QED
    BY <2>2, <2>4
<1> QED
  BY <1>1, <1>2

LEMMA ReleasedIsAwake ==
    ASSUME NEW S \in Pump, AwakeOK(S), S.step = "release"
    PROVE  AwakeOK(Released(S))
<1>1. CASE S.after = "end"
  BY <1>1, DoneIsAwake DEF Released
<1>2. CASE S.after = "drain" /\ ~S.over
  <2> DEFINE T == [S EXCEPT !.step = "drain", !.page = NoPage]
  <2>1. T.step = "drain" /\ T.lastSent = S.lastSent
    BY DEF Pump
  <2>2. Released(S) = T
    BY <1>2 DEF Released
  <2>3. Subscribed(S)
    BY <1>2 DEF Subscribed
  <2> HIDE DEF T
  <2> QED
    BY <2>1, <2>2, <2>3, BusyIsAwake
<1>3. CASE S.after # "end" /\ ~(S.after = "drain" /\ ~S.over)
  <2>1. ~S.over => S.after = "loop"
    BY <1>3 DEF Pump
  <2>2. ~S.over /\ ~S.pending => Current(S)
    BY <2>1 DEF AwakeOK
  <2>3. Released(S) = Loop(S)
    BY <1>3 DEF Released
  <2> QED
    BY <2>2, <2>3, LoopIsAwake
<1> QED
  BY <1>1, <1>2, <1>3

\* A turn that writes the whole page wants another one, or has told the head.
LEMMA WriteAllIsAwake ==
    ASSUME RevisionsInv, NEW S \in Pump, PageOK(S), AwakeOK(S), S.step = "write",
           S.page.status = "ok", ~S.over
    PROVE  AwakeOK(WriteAll(S))
<1> DEFINE to == LastOfRun(S)
           Q == Queued(S, to)
           P == [Q EXCEPT !.pending = @ \/ Q.lastSent < S.page.current]
<1>1. /\ to \in Nat /\ to >= S.lastSent
      /\ S.lastSent + 1 .. to \subseteq DOMAIN S.page.events
      /\ S.lastSent \in Nat /\ S.lastSent <= office.revision /\ office.revision \in Nat
      /\ S.page.current = office.revision
  BY RunIsOnPage, PumpFacts DEF AwakeOK, Subscribed, RevisionsInv, OfficeTypeOK
<1>2. to <= office.revision
  <2>1. CASE to = S.lastSent
    BY <1>1, <2>1
  <2>2. CASE to > S.lastSent
    <3>1. to \in DOMAIN S.page.events
      BY <1>1, <2>2
    <3> QED
      BY <1>1, <3>1 DEF PageOK
  <2> QED
    BY <1>1, <2>1, <2>2
<1>3. /\ Q \in Pump /\ Q.lastSent = to /\ Q.page = S.page /\ Q.token = S.token
  BY <1>1, QueuedIsPump DEF Queued, Pump
<1> HIDE DEF Q, to
<1>4. CASE Run(S) # Fresh(S)
  <2> DEFINE T == Releasing(Resynced(Q), "end")
  <2>1. Resynced(Q) \in Pump /\ Resynced(Q).over /\ Resynced(Q).lastSent = to
    BY <1>3, ResyncedIsPump
  <2>2. T.step = "release" /\ T.over
    BY <2>1, ReleasingIsPump
  <2>3. WriteAll(S) = T
    BY <1>4 DEF WriteAll, Q, to
  <2> HIDE DEF T
  <2> QED
    BY <2>2, <2>3 DEF AwakeOK, Subscribed
<1>5. CASE Run(S) = Fresh(S)
  <2> DEFINE T == Releasing(P, "loop")
  <2>1. /\ P \in Pump /\ P.lastSent = to /\ P.token = S.token
        /\ to < office.revision => P.pending
    BY <1>1, <1>3 DEF Pump
  <2> HIDE DEF P
  <2>2. /\ T.step = "release" /\ T.lastSent = to /\ T.token = S.token
        /\ to < office.revision => T.pending
    BY <2>1 DEF Releasing, Pump
  <2>3. WriteAll(S) = T
    BY <1>5 DEF WriteAll, P, Q, to
  <2>4. Opens(S)
    BY DEF PageOK
  <2> HIDE DEF T
  <2>5. ~T.pending => Current(T)
    BY <1>1, <1>2, <2>2, <2>4 DEF Current, Opens
  <2>6. AwakeOK(T)
    BY <1>2, <2>2, <2>5 DEF AwakeOK
  <2> QED
    BY <2>3, <2>6
<1> QED
  BY <1>4, <1>5

-----------------------------------------------------------------------------
(* The handler, action by action.                                           *)

AllAwake == \A t \in Stream : AwakeOK(stream[t])'

LEMMA OneIsAwake ==
    ASSUME WakeInv, NEW s \in Stream,
           stream' = [stream EXCEPT ![s] = stream'[s]],
           UNCHANGED <<office, token, broker, mail>>, AwakeOK(stream'[s])
    PROVE  AllAwake
<1>1. \A t \in Stream : t # s => stream'[t] = stream[t]
  BY DEF WakeInv, PumpInv
<1> QED
  BY <1>1 DEF WakeInv, AllAwake, AwakeOK, Current, Opens, Subscribed

LEMMA BecomesIsAwake ==
    ASSUME WakeInv, NEW s \in Stream, NEW T, Becomes(s, T), AwakeOK(T)
    PROVE  AllAwake
<1>1. stream' = [stream EXCEPT ![s] = T] /\ stream'[s] = T /\ UNCHANGED officeVars
  BY DEF Becomes, WakeInv, PumpInv
<1> QED
  BY <1>1, OneIsAwake DEF officeVars

LEMMA OfWake ==
    ASSUME WakeInv, NEW s \in Stream
    PROVE  /\ stream[s] \in Pump /\ PageOK(stream[s]) /\ AwakeOK(stream[s])
           /\ PumpInv /\ RevisionsInv
  BY DEF WakeInv, PumpInv

LEMMA ConnectIsAwake ==
    ASSUME WakeInv, NEW s \in Stream, NEW t, NEW c, Connect(s, t, c)
    PROVE  AllAwake
<1> DEFINE T == [Absent EXCEPT !.step = "preflight", !.token = t, !.lastSent = c]
<1>1. Becomes(s, T) /\ T.step = "preflight"
  BY DEF Connect, Absent
<1> HIDE DEF T
<1>2. AwakeOK(T)
  BY <1>1 DEF AwakeOK, Subscribed
<1> QED
  BY <1>1, <1>2, BecomesIsAwake

LEMMA PreflightIsAwake ==
    ASSUME WakeInv, NEW s \in Stream, Preflight(s)
    PROVE  AllAwake
<1>1. PICK n \in 1 .. PageLimit :
           Becomes(s, [stream[s] EXCEPT
                          !.step = "subscribe",
                          !.page = PageAfter(stream[s].lastSent, stream[s].token, n)])
  BY DEF Preflight
<1> DEFINE T == [stream[s] EXCEPT
                    !.step = "subscribe",
                    !.page = PageAfter(stream[s].lastSent, stream[s].token, n)]
<1>2. T.step = "subscribe"
  BY OfWake DEF Pump
<1>3. Becomes(s, T)
  BY <1>1
<1> HIDE DEF T
<1>4. AwakeOK(T)
  BY <1>2 DEF AwakeOK, Subscribed
<1> QED
  BY <1>3, <1>4, BecomesIsAwake

LEMMA SubscribeIsAwake ==
    ASSUME WakeInv, NEW s \in Stream, Subscribe(s)
    PROVE  AllAwake
<1> DEFINE S == stream[s]
           T == [S EXCEPT !.step = "acquire", !.page = NoPage]
<1>1. S \in Pump /\ PageOK(S) /\ RevisionsInv /\ S.lastSent \in Nat
  BY OfWake, PumpFacts
<1>2. CASE S.left \/ ~Accepted(S)
  BY <1>1, <1>2, DoneIsAwake, BecomesIsAwake DEF Subscribe
<1>3. CASE ~(S.left \/ ~Accepted(S))
  <2>1. T.step = "acquire" /\ T.lastSent = S.lastSent
    BY <1>1 DEF Pump
  <2>2. Becomes(s, T)
    BY <1>3 DEF Subscribe
  <2>3. S.lastSent <= S.page.current /\ S.page.current <= office.revision
    BY <1>1, <1>3 DEF Accepted, PageOK
  <2>4. S.page.current \in Nat /\ office.revision \in Nat
    BY <1>1, PumpFacts DEF Pump, Page, RevisionsInv, OfficeTypeOK
  <2> HIDE DEF T
  <2>5. AwakeOK(T)
    BY <1>1, <2>1, <2>3, <2>4 DEF AwakeOK
  <2> QED
    BY <2>2, <2>5, BecomesIsAwake
<1> QED
  BY <1>2, <1>3

LEMMA AcquireIsAwake ==
    ASSUME WakeInv, NEW s \in Stream, Acquire(s)
    PROVE  AllAwake
<1> DEFINE S == stream[s]
<1>1. S \in Pump /\ AwakeOK(S) /\ S.step = "acquire"
  BY OfWake DEF Acquire
<1>2. PICK n \in 1 .. PageLimit :
           stream' = [stream EXCEPT ![s].step = "write",
                                    ![s].page = PageAfter(S.lastSent, S.token, n)]
  BY DEF Acquire
<1> DEFINE page == PageAfter(S.lastSent, S.token, n)
           T == [S EXCEPT !.step = "write", !.page = page]
<1>3. page.status = "ok" => page.current = office.revision
  BY DEF PageAfter, NoPage
<1>4. stream' = [stream EXCEPT ![s] = T] /\ stream'[s] = T
  BY <1>2 DEF WakeInv, PumpInv
<1> HIDE DEF page
<1>5. T.step = "write" /\ T.page = page /\ T.lastSent = S.lastSent /\ T.over = S.over
  BY <1>1 DEF Pump
<1> HIDE DEF T
<1>6. AwakeOK(T)
  BY <1>1, <1>3, <1>5 DEF AwakeOK, Subscribed
<1>7. UNCHANGED <<office, token, broker, mail>>
  BY DEF Acquire
<1> QED
  BY <1>4, <1>6, <1>7, OneIsAwake

LEMMA WriteIsAwake ==
    ASSUME WakeInv, NEW s \in Stream, Write(s)
    PROVE  AllAwake
<1> DEFINE S == stream[s]
<1>1. S \in Pump /\ PageOK(S) /\ AwakeOK(S) /\ RevisionsInv /\ S.step = "write"
  BY OfWake DEF Write
<1>2. CASE Becomes(s, Releasing(S, "end"))
  <2> DEFINE T == Releasing(S, "end")
  <2>1. T.step = "release" /\ T.after = "end" /\ T.lastSent = S.lastSent /\ T.over = S.over
    BY <1>1 DEF Releasing, Pump
  <2>2. Becomes(s, T)
    BY <1>2
  <2> HIDE DEF T
  <2>3. AwakeOK(T)
    BY <1>1, <2>1 DEF AwakeOK, Subscribed
  <2> QED
    BY <2>2, <2>3, BecomesIsAwake
<1>3. CASE Becomes(s, Releasing(Resynced(S), "end"))
  <2> DEFINE T == Releasing(Resynced(S), "end")
  <2>1. Resynced(S) \in Pump /\ Resynced(S).over
    BY <1>1, ResyncedIsPump
  <2>2. T.step = "release" /\ T.over
    BY <2>1, ReleasingIsPump
  <2>3. Becomes(s, T)
    BY <1>3
  <2> HIDE DEF T
  <2>4. AwakeOK(T)
    BY <2>2 DEF AwakeOK, Subscribed
  <2> QED
    BY <2>3, <2>4, BecomesIsAwake
<1>4. CASE S.page.status = "ok" /\ ~S.over /\ Becomes(s, WriteAll(S))
  BY <1>1, <1>4, WriteAllIsAwake, BecomesIsAwake
<1>5. ASSUME S.page.status = "ok", ~S.over, NEW to \in Run(S),
             Becomes(s, Releasing(Queued(S, to), "drain"))
      PROVE  AllAwake
  <2> DEFINE Q == Queued(S, to)
             T == Releasing(Q, "drain")
  <2>1. to \in Nat /\ to > S.lastSent /\ S.lastSent + 1 .. to \subseteq DOMAIN S.page.events
    BY <1>1, RunIsOnPage
  <2>2. to >= S.lastSent /\ to \in DOMAIN S.page.events
    BY <1>1, <2>1, PumpFacts DEF Run
  <2>3. Q \in Pump /\ Q.lastSent = to
    BY <1>1, <2>1, <2>2, QueuedIsPump
  <2> HIDE DEF Q
  <2>4. T.step = "release" /\ T.lastSent = to /\ T.after = "drain"
    BY <2>3 DEF Releasing, Pump
  <2>5. Becomes(s, T)
    BY <1>5 DEF Q
  <2> HIDE DEF T
  <2>6. to <= office.revision
    BY <1>1, <2>2 DEF PageOK
  <2>7. AwakeOK(T)
    BY <2>4, <2>6 DEF AwakeOK
  <2> QED
    BY <2>5, <2>7, BecomesIsAwake
<1> QED
  BY <1>2, <1>3, <1>4, <1>5 DEF Write

LEMMA ReleaseIsAwake ==
    ASSUME WakeInv, NEW s \in Stream, Release(s) \/ ReleaseFails(s)
    PROVE  AllAwake
<1> DEFINE S == stream[s]
           T == [S EXCEPT !.step = "stuck", !.page = NoPage]
<1>1. S \in Pump /\ AwakeOK(S) /\ S.step = "release"
  BY OfWake DEF Release, ReleaseFails
<1>2. UNCHANGED <<office, token, broker, mail>>
  BY DEF Release, ReleaseFails
<1>3. T.step = "stuck" /\ T.lastSent = S.lastSent /\ T.over = S.over
  BY <1>1 DEF Pump
<1> HIDE DEF T
<1>4. AwakeOK(T)
  BY <1>1, <1>3 DEF AwakeOK, Subscribed
<1>5. AwakeOK(Released(S)) /\ AwakeOK(Done(S))
  BY <1>1, ReleasedIsAwake, DoneIsAwake
<1>6. \/ stream' = [stream EXCEPT ![s] = Released(S)] /\ stream'[s] = Released(S)
      \/ stream' = [stream EXCEPT ![s] = Done(S)] /\ stream'[s] = Done(S)
      \/ stream' = [stream EXCEPT ![s] = T] /\ stream'[s] = T
  BY DEF Release, ReleaseFails, T, WakeInv, PumpInv
<1> QED
  BY <1>2, <1>4, <1>5, <1>6, OneIsAwake

LEMMA DrainedIsAwake ==
    ASSUME WakeInv, NEW s \in Stream, Drained(s)
    PROVE  AllAwake
<1> DEFINE S == stream[s]
           P == [S EXCEPT !.pending = TRUE]
<1>1. S \in Pump /\ AwakeOK(S) /\ S.step = "drain"
  BY OfWake DEF Drained
<1>2. P \in Pump /\ P.step = "drain" /\ P.pending /\ P.lastSent = S.lastSent /\ P.over = S.over
  BY <1>1 DEF Pump
<1>3. Becomes(s, Loop(P))
  BY DEF Drained
<1> HIDE DEF P
<1>4. AwakeOK(P)
  BY <1>1, <1>2 DEF AwakeOK, Subscribed
<1> QED
  BY <1>2, <1>3, <1>4, LoopIsAwake, BecomesIsAwake

-----------------------------------------------------------------------------
(* Wake-ups, the timer, the client.                                         *)

LEMMA WokenIsAwake ==
    ASSUME NEW S \in Pump, AwakeOK(S)
    PROVE  AwakeOK(Woken(S)) /\ Woken(S).step # "idle"
<1>1. CASE ~Subscribed(S)
  BY <1>1 DEF Woken, AwakeOK, Subscribed
<1>2. CASE Subscribed(S) /\ S.step = "idle"
  <2> DEFINE T == [S EXCEPT !.step = "acquire"]
  <2>1. T.step = "acquire" /\ T.lastSent = S.lastSent
    BY DEF Pump
  <2>2. Woken(S) = T
    BY <1>2 DEF Woken
  <2> HIDE DEF T
  <2> QED
    BY <1>2, <2>1, <2>2, BusyIsAwake
<1>3. CASE Subscribed(S) /\ S.step # "idle"
  <2> DEFINE T == [S EXCEPT !.pending = TRUE]
  <2>1. /\ T \in Pump /\ T.step = S.step /\ T.page = S.page /\ T.lastSent = S.lastSent
        /\ T.token = S.token /\ T.after = S.after /\ T.over = S.over /\ T.pending
    BY DEF Pump
  <2>2. Woken(S) = T
    BY <1>3 DEF Woken
  <2> HIDE DEF T
  <2> QED
    BY <1>3, <2>1, <2>2, AsideIsAwake
<1> QED
  BY <1>1, <1>2, <1>3

LEMMA FallbackClosesIsAwake ==
    ASSUME WakeInv, NEW s \in Stream, FallbackCloses(s)
    PROVE  AllAwake
<1> DEFINE S == stream[s]
<1>1. S \in Pump /\ AwakeOK(S)
  BY OfWake
<1>2. CASE S.step \in {"idle", "drain"}
  BY <1>1, <1>2, DoneIsAwake, BecomesIsAwake DEF FallbackCloses
<1>3. CASE S.step \notin {"idle", "drain"}
  <2>1. Becomes(s, Ended(S))
    BY <1>3 DEF FallbackCloses
  <2>2. Ended(S).after = S.after /\ Ended(S).pending = S.pending
    BY <1>1 DEF Ended, Pump
  <2>3. AwakeOK(Ended(S))
    BY <1>1, <1>3, <2>2, EndedIsPump, AsideIsAwake
  <2> QED
    BY <2>1, <2>3, BecomesIsAwake
<1> QED
  BY <1>2, <1>3

LEMMA ReceiveIsAwake ==
    ASSUME WakeInv, NEW s \in Stream, Receive(s)
    PROVE  AllAwake
<1> DEFINE S == stream[s]
           T == [S EXCEPT !.wire = Tail(@)]
<1>1. S \in Pump /\ AwakeOK(S)
  BY OfWake
<1>2. /\ T.step = S.step /\ T.page = S.page /\ T.lastSent = S.lastSent /\ T.over = S.over
      /\ T.token = S.token /\ T.after = S.after /\ T.pending = S.pending
  BY <1>1 DEF Pump
<1>3. Becomes(s, T)
  BY DEF Receive
<1> HIDE DEF T
<1>4. AwakeOK(T)
  BY <1>1, <1>2 DEF AwakeOK, Current, Opens, Subscribed
<1> QED
  BY <1>3, <1>4, BecomesIsAwake

LEMMA DisconnectIsAwake ==
    ASSUME WakeInv, NEW s \in Stream, Disconnect(s)
    PROVE  AllAwake
<1> DEFINE S == stream[s]
           T == [S EXCEPT !.left = TRUE, !.over = TRUE, !.wire = << >>]
<1>1. S \in Pump /\ AwakeOK(S)
  BY OfWake
<1>2. CASE S.step \in {"idle", "drain", "stuck", "closed"}
  <2>1. AwakeOK(Absent)
    BY DEF Absent, AwakeOK, Subscribed
  <2> QED
    BY <1>2, <2>1, BecomesIsAwake DEF Disconnect
<1>3. CASE S.step \notin {"idle", "drain", "stuck", "closed"}
  <2>1. T.step = S.step /\ T.page = S.page /\ T.over
    BY <1>1 DEF Pump
  <2>2. Becomes(s, T)
    BY <1>3 DEF Disconnect
  <2> HIDE DEF T
  <2>3. AwakeOK(T)
    BY <1>1, <1>3, <2>1 DEF AwakeOK, Subscribed
  <2> QED
    BY <2>2, <2>3, BecomesIsAwake
<1> QED
  BY <1>2, <1>3

\* A notification that arrives, and a session that is back, leave nobody asleep; while
\* there is no session, or while it is coming up, nothing is promised to a sleeper.
LEMMA BrokerIsAwake ==
    ASSUME WakeInv, BrokerNext
    PROVE  AllAwake
<1>1. UNCHANGED <<office, token>>
  BY DEF BrokerNext, Deliver, BrokerLost, BrokerListens, BrokerUp
<1>2. CASE WakeAll
  <2>1. \A t \in Stream : stream'[t] = Woken(stream[t])
    BY <1>2 DEF WakeAll
  <2>2. \A t \in Stream : AwakeOK(Woken(stream[t])) /\ Woken(stream[t]).step # "idle"
    BY OfWake, WokenIsAwake
  <2> QED
    BY <1>1, <2>1, <2>2 DEF AllAwake, AwakeOK, Current, Opens, Subscribed
<1>3. CASE UNCHANGED stream /\ broker' # "up"
  BY <1>1, <1>3, OfWake DEF AllAwake, AwakeOK, Current, Opens, Subscribed
<1> QED
  BY <1>2, <1>3 DEF BrokerNext, Deliver, BrokerLost, BrokerListens, BrokerUp

-----------------------------------------------------------------------------
(* The writers of the office.                                               *)

\* Whoever changes the head or takes the token away notifies.
LEMMA WritersNotify ==
    ASSUME RevisionsInv, [OfficeNext]_officeVars
    PROVE  /\ broker' = broker
           /\ \/ mail' = (broker # "lost")
              \/ /\ mail' = mail /\ office'.revision = office.revision
                 /\ token'.n = token.n
                 /\ token.state # "revoked" => token'.state # "revoked"
<1>1. /\ office \in [revision : Nat, minimum : Nat]
      /\ token \in [n : Nat, state : {"valid", "expired", "revoked"}]
  BY DEF RevisionsInv, OfficeTypeOK
<1>2. CASE ChangeConsent \/ PresenceRevision
  BY <1>2 DEF ChangeConsent, PresenceRevision, Record, Notify
<1>3. CASE TickCommits
  BY <1>3 DEF TickCommits, Record, Notify
<1>4. CASE Retain
  BY <1>1, <1>4 DEF Retain
<1>5. CASE RotateToken \/ RevokeToken
  BY <1>5 DEF RotateToken, RevokeToken, Notify
<1>6. CASE ExpireToken
  BY <1>1, <1>6 DEF ExpireToken
<1>7. CASE TickCandidate \/ TickReads \/ TickFails \/ PassTime \/ UNCHANGED officeVars
  BY <1>7 DEF TickCandidate, TickReads, TickFails, PassTime, officeVars
<1> QED
  BY <1>2, <1>3, <1>4, <1>5, <1>6, <1>7 DEF OfficeNext

LEMMA OfficeIsAwake ==
    ASSUME WakeInv, [OfficeNext]_officeVars, UNCHANGED stream
    PROVE  AllAwake
<1>1. RevisionsInv /\ office.revision <= MaxRevision /\ token.n \in 1 .. MaxToken
  BY DEF WakeInv, PumpInv
<1>2. /\ office.revision \in Nat /\ office'.revision \in Nat
      /\ office'.revision >= office.revision
      /\ leases # {} => /\ office' = office /\ token'.n = token.n
                        /\ token.state # "revoked" => token'.state # "revoked"
  BY <1>1, OfficeMoves DEF RevisionsInv, OfficeTypeOK
<1>3. ASSUME NEW t \in Stream
      PROVE  AwakeOK(stream[t])'
  <2> DEFINE S == stream[t]
  <2>1. S \in Pump /\ AwakeOK(S) /\ stream'[t] = S /\ S.lastSent \in Nat
    BY OfWake, PumpFacts
  <2>2. Subscribed(S) => S.lastSent <= office'.revision
    BY <1>2, <2>1 DEF AwakeOK
  <2>3. CASE S.step \in {"write", "release"}
    <3>1. leases # {}
      BY <2>3 DEF WakeInv, PumpInv, LeasesAreGivenBack
    <3> QED
      BY <1>2, <2>1, <2>2, <2>3, <3>1 DEF AwakeOK, Current, Opens, Subscribed
  <2>4. CASE S.step = "idle"
    <3>1. /\ broker' = broker
          /\ \/ mail' = (broker # "lost")
             \/ /\ mail' = mail /\ office'.revision = office.revision
                /\ token'.n = token.n
                /\ token.state # "revoked" => token'.state # "revoked"
      BY <1>1, WritersNotify
    <3>2. ~S.over /\ (broker = "up" /\ ~mail => Current(S))
      BY <2>1, <2>4 DEF AwakeOK
    <3>3. broker' = "up" /\ ~mail' => Current(S)'
      BY <2>1, <3>1, <3>2 DEF Current, Opens
    <3> QED
      BY <2>1, <2>2, <2>4, <3>2, <3>3 DEF AwakeOK, Current, Opens, Subscribed
  <2>5. CASE S.step \notin {"write", "release", "idle"}
    BY <2>1, <2>2, <2>5 DEF AwakeOK, Subscribed
  <2> QED
    BY <2>3, <2>4, <2>5
<1> QED
  BY <1>3 DEF AllAwake

-----------------------------------------------------------------------------
LEMMA EveryStepIsAwake ==
    ASSUME WakeInv, [StreamNext]_streamVars
    PROVE  AllAwake
<1>1. CASE OfficeNext /\ UNCHANGED stream
  BY <1>1, OfficeIsAwake
<1>2. CASE BrokerNext
  BY <1>2, BrokerIsAwake
<1>3. ASSUME NEW s \in Stream, Handler(s)
      PROVE  AllAwake
  <2>1. CASE PreflightFails(s) \/ AcquireFails(s) \/ DrainTimesOut(s)
    BY <2>1, OfWake, DoneIsAwake, BecomesIsAwake DEF PreflightFails, AcquireFails, DrainTimesOut
  <2>2. CASE Fallback(s)
    BY <2>2, OfWake, WokenIsAwake, BecomesIsAwake DEF Fallback
  <2> QED
    BY <1>3, <2>1, <2>2, PreflightIsAwake, SubscribeIsAwake, AcquireIsAwake, WriteIsAwake,
       ReleaseIsAwake, DrainedIsAwake, FallbackClosesIsAwake DEF Handler
<1>4. CASE UNCHANGED streamVars
  BY <1>4, OfficeIsAwake DEF streamVars
<1> QED
  BY <1>1, <1>2, <1>3, <1>4, ConnectIsAwake, ReceiveIsAwake, DisconnectIsAwake DEF StreamNext

\* A live stream that waits while the broker listens, with nothing on its way to it, has
\* told the head and its token is not revoked: no notification is slept through, however
\* it falls between the read of a page, its COMMIT and the end of a turn.
THEOREM NoWakeUpIsLost == StreamSpec => []NoLostWakeUp
<1>1. StreamInit => WakeInv
  <2>1. StreamInit => \A s \in Stream : AwakeOK(stream[s])
    BY DEF StreamInit, Absent, AwakeOK, Subscribed
  <2> QED
    BY <2>1, PumpInit DEF WakeInv
<1>2. WakeInv /\ [StreamNext]_streamVars => WakeInv'
  <2> SUFFICES ASSUME WakeInv, [StreamNext]_streamVars
               PROVE  WakeInv'
    OBVIOUS
  <2>1. PumpInv'
    BY EveryStepIsGood DEF Good, WakeInv
  <2>2. AllAwake
    BY EveryStepIsAwake
  <2> QED
    BY <2>1, <2>2 DEF WakeInv, AllAwake
<1>3. WakeInv => NoLostWakeUp
  BY DEF WakeInv, AwakeOK, Current, NoLostWakeUp
<1> QED
  BY <1>1, <1>2, <1>3, PTL DEF StreamSpec
=============================================================================
