---------------------------- MODULE OfficeStream ----------------------------
(***************************************************************************)
(* The event streams of one office: the handler of GET .../events and its  *)
(* pump, the locked pages it reads, and the broker that turns database     *)
(* notifications into wake-ups, over the transactions of OfficeRevisions.  *)
(*                                                                         *)
(* The control plane is one JavaScript thread: what runs between two       *)
(* awaits is one step.  `step' of a stream is the await it stands at:      *)
(*   none       no connection                                              *)
(*   preflight  the first getStreamPage                                    *)
(*   subscribe  its result has been read                                   *)
(*   acquire    acquireLockedStreamPage                                    *)
(*   write      the page and its lease are held, nothing is written yet    *)
(*   release    the COMMIT that gives the lease back                       *)
(*   drain      waitForDrain                                               *)
(*   idle       live, no pump runs                                         *)
(*   stuck      the handler ended with an exception, the response is open  *)
(*   closed     the server ended the response                              *)
(***************************************************************************)
EXTENDS OfficeRevisions, SequencesExt

CONSTANTS
    PageLimit,        \* the longest page (100 events or 1 MiB)
    ReleaseMayFail    \* whether a COMMIT may fail

ASSUME StreamAssumption ==
    /\ PageLimit \in Nat \ {0}
    /\ ReleaseMayFail \in BOOLEAN

VARIABLE stream

streamVars == <<officeVars, stream>>

Step == {"none", "preflight", "subscribe", "acquire", "write", "release",
         "drain", "idle", "stuck", "closed"}

\* What follows the frames on the wire: nothing yet, the end of the response,
\* or resync.required and the end.
Ending == {"open", "end", "resync"}

NoPage == [status |-> "not_found", current |-> 0, events |-> << >>]

Absent == [step |-> "none", live |-> FALSE, over |-> FALSE, left |-> FALSE,
           token |-> 1, lastSent |-> 0, pending |-> FALSE, page |-> NoPage,
           after |-> "loop", wire |-> << >>, ending |-> "open"]

StreamTypeOK ==
    /\ OfficeTypeOK
    /\ \A s \in Stream :
          LET S == stream[s] IN
          /\ S.step \in Step
          /\ {S.live, S.over, S.left, S.pending} \subseteq BOOLEAN
          /\ S.token \in 1 .. MaxToken
          /\ S.lastSent \in 0 .. MaxRevision + 1
          /\ S.page.status \in {"not_found", "gap", "ok"}
          /\ S.page.current \in 0 .. MaxRevision
          /\ DOMAIN S.page.events \subseteq 1 .. MaxRevision
          /\ \A i \in DOMAIN S.wire : S.wire[i] \in 1 .. MaxRevision
          /\ S.ending \in Ending
          /\ S.after \in {"loop", "drain", "end"}

StreamInit ==
    /\ OfficeInit
    /\ stream = [s \in Stream |-> Absent]

\* Only this stream, and no table, changes.
Becomes(s, S) ==
    /\ stream' = [stream EXCEPT ![s] = S]
    /\ UNCHANGED officeVars

\* close() and cleanup(): what the server does not write any more.  Once the
\* client has left there is nobody to write to.
Ended(S) == [S EXCEPT !.over = TRUE, !.ending = IF S.over THEN @ ELSE "end"]

\* The handler has returned.
Done(S) == IF S.left THEN Absent ELSE [Ended(S) EXCEPT !.step = "closed", !.page = NoPage]

(***************************************************************************)
(* A page of the reader: the token and the minimum are read under the      *)
(* lock, the events are the first retained ones after the cursor.          *)
(***************************************************************************)
After(cursor) == {r \in DOMAIN events : r > cursor}

PageEvents(cursor, n) ==
    {r \in After(cursor) : Cardinality({q \in After(cursor) : q <= r}) <= n}

PageAfter(cursor, t, n) ==
    IF t # token.n \/ token.state # "valid" THEN NoPage
    ELSE IF cursor < office.minimum
    THEN [status |-> "gap", current |-> office.revision, events |-> << >>]
    ELSE [status |-> "ok", current |-> office.revision,
          events |-> [r \in PageEvents(cursor, n) |-> events[r].shows]]

\* A stream is only opened where the first page continues the cursor.
Accepted(S) ==
    /\ S.page.status = "ok"
    /\ S.lastSent <= S.page.current
    /\ S.lastSent < S.page.current => S.lastSent + 1 \in DOMAIN S.page.events

(***************************************************************************)
(* Opening a stream: preflight, subscription, authoritative page.          *)
(***************************************************************************)
Connect(s, t, cursor) ==
    /\ stream[s].step = "none"
    /\ Becomes(s, [Absent EXCEPT !.step = "preflight", !.token = t, !.lastSent = cursor])

Preflight(s) ==
    /\ stream[s].step = "preflight"
    /\ \E n \in 1 .. PageLimit :
          Becomes(s, [stream[s] EXCEPT
                         !.step = "subscribe",
                         !.page = PageAfter(stream[s].lastSent, stream[s].token, n)])

PreflightFails(s) ==
    /\ stream[s].step = "preflight"
    /\ Becomes(s, Done(stream[s]))

Subscribe(s) ==
    /\ stream[s].step = "subscribe"
    /\ Becomes(s, IF stream[s].left \/ ~Accepted(stream[s])
                  THEN Done(stream[s])
                  ELSE [stream[s] EXCEPT !.step = "acquire", !.page = NoPage])

(***************************************************************************)
(* A locked page, for the initial replay (not live) and for the pump.      *)
(***************************************************************************)
\* Seeded defect: the lease is given back as soon as the page is read.
AcquireWithoutLease(s) ==
    /\ stream[s].step = "acquire"
    /\ \E n \in 1 .. PageLimit :
          Becomes(s, [stream[s] EXCEPT
                         !.step = "write",
                         !.page = PageAfter(stream[s].lastSent, stream[s].token, n)])

Acquire(s) ==
    /\ stream[s].step = "acquire"
    /\ \E n \in 1 .. PageLimit :
          stream' = [stream EXCEPT
                        ![s].step = "write",
                        ![s].page = PageAfter(stream[s].lastSent, stream[s].token, n)]
    /\ leases' = leases \cup {s}
    /\ UNCHANGED <<now, consent, office, events, current, token, broker, mail, tick>>

\* 503 before the stream has started, close() in the pump.
AcquireFails(s) ==
    /\ stream[s].step = "acquire"
    /\ Becomes(s, Done(stream[s]))

\* The events queueEvent would write one after the other, from lastSent + 1.
Run(S) == {r \in DOMAIN S.page.events : S.lastSent + 1 .. r \subseteq DOMAIN S.page.events
                                        /\ r > S.lastSent}
Fresh(S) == {r \in DOMAIN S.page.events : r > S.lastSent}

Releasing(S, after) == [S EXCEPT !.step = "release", !.after = after]

\* Seeded defect: the revision of the cursor is written once more.
QueuedFromCursor(S, to) ==
    [S EXCEPT !.lastSent = to,
              !.wire = @ \o [i \in 1 .. to - S.lastSent + 1 |-> S.lastSent + i - 1]]

\* The frames of the revisions after lastSent up to `to', in order.
Queued(S, to) ==
    [S EXCEPT !.lastSent = to,
              !.wire = @ \o [i \in 1 .. to - S.lastSent |-> S.lastSent + i]]

Resynced(S) == [S EXCEPT !.over = TRUE, !.ending = "resync"]

LastOfRun(S) == S.lastSent + Cardinality(Run(S))

\* Seeded defect: the last revision of a page is taken for the current one.
WriteAllWithoutMore(S) == Releasing(Queued(S, LastOfRun(S)), "loop")

WriteAll(S) ==
    LET Q == Queued(S, LastOfRun(S))
    IN IF Run(S) # Fresh(S) THEN Releasing(Resynced(Q), "end")
       ELSE Releasing([Q EXCEPT !.pending = @ \/ Q.lastSent < S.page.current], "loop")

\* What one turn of the thread does with the page it holds.
Write(s) ==
    LET S == stream[s] IN
    /\ S.step = "write"
    /\ \/ /\ S.over \/ (~S.live /\ ~Accepted(S)) \/ S.page.status = "not_found"
          /\ Becomes(s, Releasing(S, "end"))
       \/ /\ S.live /\ ~S.over /\ S.page.status = "gap"
          /\ Becomes(s, Releasing(Resynced(S), "end"))
       \/ /\ ~S.over /\ S.page.status = "ok" /\ (S.live \/ Accepted(S))
          /\ \/ Becomes(s, WriteAll(S))
             \/ \E to \in Run(S) : Becomes(s, Releasing(Queued(S, to), "drain"))

\* The loop of the pump, and the first pump of a stream that becomes live.
Loop(S) ==
    IF S.over THEN Done(S)
    ELSE [S EXCEPT !.live = TRUE, !.page = NoPage, !.pending = FALSE,
                   !.step = IF S.pending THEN "acquire" ELSE "idle"]

Released(S) ==
    CASE S.after = "end" -> Done(S)
      [] S.after = "drain" /\ ~S.over -> [S EXCEPT !.step = "drain", !.page = NoPage]
      [] OTHER -> Loop(S)

Release(s) ==
    /\ stream[s].step = "release"
    /\ leases' = leases \ {s}
    /\ stream' = [stream EXCEPT ![s] = Released(@)]
    /\ UNCHANGED <<now, consent, office, events, current, token, broker, mail, tick>>

\* Seeded defect: a connection whose COMMIT failed is kept, with its lock.
ReleaseFailsHolding(s) ==
    LET S == stream[s] IN
    /\ ReleaseMayFail
    /\ S.step = "release"
    /\ stream' = [stream EXCEPT ![s] =
                     IF S.live \/ S.over \/ S.after = "end" THEN Done(S)
                     ELSE [S EXCEPT !.step = "stuck", !.page = NoPage]]
    /\ UNCHANGED <<now, consent, office, events, current, token, leases, broker, mail, tick>>

\* The COMMIT fails: the pump closes the stream, the handler of a stream that
\* is not live yet ends with the exception and leaves the response open.
ReleaseFails(s) ==
    LET S == stream[s] IN
    /\ ReleaseMayFail
    /\ S.step = "release"
    /\ leases' = leases \ {s}
    /\ stream' = [stream EXCEPT ![s] =
                     IF S.live \/ S.over \/ S.after = "end" THEN Done(S)
                     ELSE [S EXCEPT !.step = "stuck", !.page = NoPage]]
    /\ UNCHANGED <<now, consent, office, events, current, token, broker, mail, tick>>

Drained(s) ==
    /\ stream[s].step = "drain"
    /\ Becomes(s, Loop([stream[s] EXCEPT !.pending = TRUE]))

DrainTimesOut(s) ==
    /\ stream[s].step = "drain"
    /\ Becomes(s, Done(stream[s]))

(***************************************************************************)
(* Wake-ups: notifications, a new LISTEN session, the fallback timer.      *)
(***************************************************************************)
Subscribed(S) ==
    ~S.over /\ S.step \in {"acquire", "write", "release", "drain", "idle", "stuck"}

Woken(S) ==
    IF ~Subscribed(S) THEN S
    ELSE IF S.step = "idle" THEN [S EXCEPT !.step = "acquire"]
    ELSE [S EXCEPT !.pending = TRUE]

WakeAll == stream' = [s \in Stream |-> Woken(stream[s])]

Deliver ==
    /\ broker # "lost"
    /\ mail
    /\ mail' = FALSE
    /\ WakeAll
    /\ UNCHANGED <<now, consent, office, events, current, token, leases, broker, tick>>

\* The session ends: what was on its way to it is lost.
BrokerLost ==
    /\ broker # "lost"
    /\ broker' = "lost"
    /\ mail' = FALSE
    /\ UNCHANGED <<now, consent, office, events, current, token, leases, tick, stream>>

\* LISTEN has taken effect in the database.
BrokerListens ==
    /\ broker = "lost"
    /\ broker' = "listening"
    /\ UNCHANGED <<now, consent, office, events, current, token, leases, mail, tick, stream>>

BrokerUp ==
    /\ broker = "listening"
    /\ broker' = "up"
    /\ WakeAll
    /\ UNCHANGED <<now, consent, office, events, current, token, leases, mail, tick>>

\* Seeded defect: the timer writes its keepalive and does not look for news.
FallbackOnlyPings(s) ==
    /\ stream[s].live
    /\ ~stream[s].over
    /\ Becomes(s, stream[s])

Fallback(s) ==
    /\ stream[s].live
    /\ ~stream[s].over
    /\ Becomes(s, Woken(stream[s]))

\* The keepalive finds the buffer of the response full.
FallbackCloses(s) ==
    LET S == stream[s] IN
    /\ S.live /\ ~S.over
    /\ Becomes(s, IF S.step \in {"idle", "drain"} THEN Done(S) ELSE Ended(S))

(***************************************************************************)
(* The client: it reads what was written, and it leaves.                   *)
(***************************************************************************)
Receive(s) ==
    /\ stream[s].wire # << >>
    /\ Becomes(s, [stream[s] EXCEPT !.wire = Tail(@)])

Disconnect(s) ==
    LET S == stream[s] IN
    /\ S.step # "none"
    /\ ~S.left
    /\ Becomes(s, IF S.step \in {"idle", "drain", "stuck", "closed"} THEN Absent
                  ELSE [S EXCEPT !.left = TRUE, !.over = TRUE, !.wire = << >>])

Handler(s) ==
    \/ Preflight(s) \/ PreflightFails(s) \/ Subscribe(s)
    \/ Acquire(s) \/ AcquireFails(s) \/ Write(s)
    \/ Release(s) \/ ReleaseFails(s) \/ Drained(s) \/ DrainTimesOut(s)
    \/ Fallback(s) \/ FallbackCloses(s)

BrokerNext == Deliver \/ BrokerLost \/ BrokerListens \/ BrokerUp

StreamNext ==
    \/ OfficeNext /\ UNCHANGED stream
    \/ BrokerNext
    \/ \E s \in Stream :
          \/ Handler(s)
          \/ \E t \in 1 .. token.n, c \in 0 .. office.revision + 1 : Connect(s, t, c)
          \/ Receive(s)
          \/ Disconnect(s)

StreamSpec == StreamInit /\ [][StreamNext]_streamVars

\* The awaits of a handler end; either outcome will do.  The timer comes round.
StreamFairness ==
    /\ \A s \in Stream :
          /\ WF_streamVars(Preflight(s))
          /\ WF_streamVars(Subscribe(s))
          /\ WF_streamVars(Acquire(s))
          /\ WF_streamVars(Write(s))
          /\ WF_streamVars(Release(s))
          /\ WF_streamVars(Drained(s) \/ DrainTimesOut(s))
          /\ WF_streamVars(Fallback(s))

FairStreamSpec == StreamSpec /\ StreamFairness

----------------------------------------------------------------------------
Opens(S) == S.token = token.n /\ token.state # "revoked"

(* "SSE replay holds a short shared database lock while each page of events *)
(* is queued, so consent withdrawal or token revocation has a defined       *)
(* ordering with disclosure": at the moment a revision is written, the      *)
(* mount consents to what it shows and the token has not been revoked.      *)
DisclosureIsConsented ==
    [][\A s \in Stream :
          LET S == stream[s] IN
          stream'[s].lastSent > S.lastSent /\ S.step = "write" =>
             /\ Opens(S)
             /\ \A r \in S.lastSent + 1 .. stream'[s].lastSent :
                   S.page.events[r] \subseteq Shown(consent)]_streamVars

(* No wake-up is lost: while the broker's session is up and nothing is on   *)
(* its way to it, a live stream that waits has told the current revision,   *)
(* and its token has not been revoked.  Only a token that runs out is left  *)
(* to the fallback timer.                                                   *)
NoLostWakeUp ==
    broker = "up" /\ ~mail =>
       \A s \in Stream : stream[s].step = "idle" =>
          stream[s].lastSent = office.revision /\ Opens(stream[s])

(* A lease is held between the read of a page and the end of its COMMIT and *)
(* at no other time, whichever way the handler leaves: a lease that stayed  *)
(* behind would block every writer of the office for ever.                  *)
LeasesAreGivenBack ==
    leases = {s \in Stream : stream[s].step \in {"write", "release"}}

(* The pump, await by await: its place and its cursors agree with each      *)
(* other, and with the office lock it holds.                                *)
StreamInv == StreamTypeOK /\ LeasesAreGivenBack

\* The stream as the abstract feed sees it.
Feed == INSTANCE OfficeFeed WITH
            Reader <- Stream,
            head <- office.revision,
            start <- office.minimum,
            pos <- [s \in Stream |-> IF Subscribed(stream[s])
                                     THEN stream[s].lastSent ELSE -1]

(* The stream tells every reader one revision after the other, and none     *)
(* that has been withdrawn at that moment.                                  *)
StreamFollowsLog == Feed!Spec

\* A handler that ended with an exception has left its response open: nobody
\* serves that stream any more, and only its client can end it.
Served(S) == Subscribed(S) /\ S.step # "stuck"

(* A served stream that is behind catches up or is closed, also when the    *)
(* notification was lost, and while the broker keeps losing its session.    *)
StreamCatchesUp ==
    \A s \in Stream :
       Served(stream[s]) /\ stream[s].lastSent < office.revision ~>
          ~Served(stream[s]) \/ stream[s].lastSent = office.revision

(* Rotating, revoking or running out ends the streams the token opened.     *)
RevokedStreamEnds ==
    \A s \in Stream :
       Served(stream[s]) /\ (stream[s].token # token.n \/ token.state # "valid") ~>
          ~Served(stream[s]) \/ (stream[s].token = token.n /\ token.state = "valid")

(* No stream stays as it is: one that is behind and one whose token is gone *)
(* both move, by catching up or by ending.                                  *)
StreamMovesOn == StreamCatchesUp /\ RevokedStreamEnds
============================================================================
