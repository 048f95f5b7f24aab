---------------------------- MODULE OfficeBrowser ----------------------------
(***************************************************************************)
(* The public page of an office (public/office.js): it fetches a snapshot, *)
(* follows the events after it, and starts over whenever something is      *)
(* missing.  The server is the feed that OfficeStream is shown to          *)
(* implement, each open EventSource one of its readers.                    *)
(*                                                                         *)
(* A page that starts over raises connectionGeneration; what an earlier    *)
(* fetch brings is for an older generation (`late').                       *)
(***************************************************************************)
EXTENDS OfficeFeed, Sequences, FiniteSets

CONSTANTS
    MaxHead,     \* bound on the revisions
    MaxLate      \* bound on the superseded fetches still under way

ASSUME BrowserAssumption ==
    /\ MaxHead \in Nat \ {0}
    /\ MaxLate \in Nat

VARIABLE page

browserVars == <<feedVars, page>>

\* fetch: none | sent | <<revision>> on its way back, of this generation.
Page == [open : BOOLEAN,                 \* the page has been loaded
         shown : Nat \cup {-1},          \* currentRevision
         fetch : {<<"none">>, <<"sent">>} \cup ({"got"} \X Nat),
         late : SUBSET Nat,              \* results for older generations
         source : BOOLEAN,               \* eventSource is not null
         wire : Seq(Nat),                \* frames on their way to it
         ending : {"open", "end", "resync"},
         timer : BOOLEAN,                \* retryTimer is set
         online : BOOLEAN]               \* as the browser last said

BrowserTypeOK ==
    /\ pos \in [Reader -> Nat \cup {Away}]
    /\ \A b \in Reader :
          /\ page[b] \in Page
          /\ ~page[b].source => /\ page[b].wire = << >>
                               /\ page[b].ending = "open"
                               /\ pos[b] = Away

\* Seeded defect: the closed source stays in eventSource with what it had received.
NoSourceKeepsWire(P) == [P EXCEPT !.source = FALSE]

NoSource(P) == [P EXCEPT !.source = FALSE, !.wire = << >>, !.ending = "open"]

\* The fetch of the generation that ends goes on, but for nothing: it does not
\* matter when the server reads for it.
Superseded(P) ==
    CASE P.fetch[1] = "got" -> P.late \cup {P.fetch[2]}
      [] P.fetch[1] = "sent" -> P.late \cup {head}
      [] OTHER -> P.late

\* refreshSnapshot, and recoverImmediately, which only resets the backoff.
Refreshed(P) ==
    [NoSource(P) EXCEPT !.fetch = <<"sent">>, !.late = Superseded(P), !.timer = FALSE]

\* scheduleRecovery
Recovering(P) == [NoSource(P) EXCEPT !.timer = TRUE]

BrowserInit ==
    /\ Init
    /\ page = [b \in Reader |->
                 [open |-> FALSE, shown |-> -1, fetch |-> <<"none">>, late |-> {},
                  source |-> FALSE, wire |-> << >>, ending |-> "open",
                  timer |-> FALSE, online |-> TRUE]]

\* The page changes; the server forgets a reader whose source is gone.
Turns(b, P) ==
    /\ page' = [page EXCEPT ![b] = P]
    /\ pos' = IF P.source THEN pos ELSE [pos EXCEPT ![b] = Away]
    /\ UNCHANGED <<head, start>>

\* The page is loaded, and asks for its first snapshot.
Loads(b) ==
    /\ ~page[b].open
    /\ Turns(b, [page[b] EXCEPT !.open = TRUE, !.fetch = <<"sent">>])

(***************************************************************************)
(* The snapshot.                                                           *)
(***************************************************************************)
\* The server reads the current projection for the fetch.
SnapshotRead(b) ==
    /\ page[b].fetch = <<"sent">>
    /\ Turns(b, [page[b] EXCEPT !.fetch = <<"got", head>>])

FetchFails(b) ==
    /\ page[b].fetch # <<"none">>
    /\ Turns(b, Recovering([page[b] EXCEPT !.fetch = <<"none">>]))

\* Seeded defect: a refused stream is not an error to the page.
JoinedWhateverComes(P, r) ==
    [P EXCEPT !.shown = r, !.fetch = <<"none">>, !.source = TRUE,
              !.wire = << >>, !.ending = "open"]

\* applySnapshot(snapshot, true) and connectEvents: the events after `r' are
\* asked for; the server refuses a cursor that was withdrawn meanwhile.
Joined(P, r) ==
    [P EXCEPT !.shown = r, !.fetch = <<"none">>, !.source = TRUE,
              !.wire = << >>, !.ending = IF r >= start THEN "open" ELSE "end"]

SnapshotArrives(b) ==
    LET r == page[b].fetch[2] IN
    /\ page[b].fetch[1] = "got"
    /\ page' = [page EXCEPT ![b] = Joined(@, r)]
    /\ pos' = [pos EXCEPT ![b] = IF r >= start THEN r ELSE Away]
    /\ UNCHANGED <<head, start>>

\* Seeded defect: the generation of a result is not compared.
LateArrivesApplied(b) ==
    \E r \in page[b].late :
       /\ page' = [page EXCEPT ![b] = Joined([@ EXCEPT !.late = @ \ {r}], r)]
       /\ pos' = [pos EXCEPT ![b] = IF r >= start THEN r ELSE Away]
       /\ UNCHANGED <<head, start>>

\* generation !== connectionGeneration
LateArrives(b) ==
    \E r \in page[b].late :
       Turns(b, [page[b] EXCEPT !.late = @ \ {r}])

(***************************************************************************)
(* The events.                                                             *)
(***************************************************************************)
Between(from, to) == [i \in 1 .. to - from |-> from + i]

\* The server writes the next revisions to the open source.
Told(b) ==
    /\ page[b].ending = "open"
    /\ Tell(b)
    /\ page' = [page EXCEPT ![b].wire = @ \o Between(pos[b], pos'[b])]

\* The server finds that what comes next was withdrawn.
StreamFindsGap(b) ==
    /\ page[b].ending = "open"
    /\ pos[b] # Away
    /\ pos[b] < start
    /\ page' = [page EXCEPT ![b].ending = "resync"]
    /\ pos' = [pos EXCEPT ![b] = Away]
    /\ UNCHANGED <<head, start>>

\* The server closes the stream, or the network fails and takes with it what
\* was on its way.
StreamEnds(b) ==
    /\ page[b].source
    /\ page[b].ending = "open"
    /\ \E kept \in {page[b].wire, << >>} :
          page' = [page EXCEPT ![b].ending = "end", ![b].wire = kept]
    /\ pos' = [pos EXCEPT ![b] = Away]
    /\ UNCHANGED <<head, start>>

EventArrives(b) ==
    LET P == [page[b] EXCEPT !.wire = Tail(@)]
        r == Head(page[b].wire)
    IN /\ page[b].wire # << >>
       /\ Turns(b, IF r <= P.shown THEN P
                   ELSE IF r = P.shown + 1 THEN [P EXCEPT !.shown = r]
                   ELSE Refreshed(P))

\* Seeded defect: an ended stream is closed and nothing is scheduled.
EndingArrivesForgotten(b) ==
    /\ page[b].wire = << >>
    /\ page[b].ending # "open"
    /\ Turns(b, NoSource(page[b]))

\* resync.required starts over at once, onerror after a while.
EndingArrives(b) ==
    /\ page[b].wire = << >>
    /\ page[b].ending # "open"
    /\ Turns(b, IF page[b].ending = "resync" THEN Refreshed(page[b])
                ELSE Recovering(page[b]))

(***************************************************************************)
(* Timer and window events.                                                *)
(***************************************************************************)
RetryFires(b) ==
    /\ page[b].timer
    /\ Turns(b, Refreshed(page[b]))

CanSupersede(P) == P.fetch # <<"none">> => Cardinality(P.late) < MaxLate

GoesOnline(b) ==
    /\ page[b].open /\ ~page[b].online
    /\ CanSupersede(page[b])
    /\ Turns(b, Refreshed([page[b] EXCEPT !.online = TRUE]))

GoesOffline(b) ==
    /\ page[b].open /\ page[b].online
    /\ Turns(b, NoSource([page[b] EXCEPT !.online = FALSE]))

BecomesVisible(b) ==
    /\ page[b].open /\ ~page[b].source
    /\ CanSupersede(page[b])
    /\ Turns(b, Refreshed(page[b]))

ServerMoves ==
    /\ \/ head < MaxHead /\ Publish
       \/ Trim
    /\ UNCHANGED page

BrowserNext ==
    \/ ServerMoves
    \/ \E b \in Reader :
          \/ SnapshotRead(b) \/ FetchFails(b) \/ SnapshotArrives(b) \/ LateArrives(b)
          \/ Told(b) \/ StreamFindsGap(b) \/ StreamEnds(b) \/ EventArrives(b) \/ EndingArrives(b)
          \/ RetryFires(b) \/ GoesOnline(b) \/ GoesOffline(b) \/ BecomesVisible(b)

\* The network works again and again, the server keeps telling (the streams
\* of OfficeStream catch up), timers fire, and the network comes back.
BrowserFairness ==
    \A b \in Reader :
       /\ SF_browserVars(SnapshotRead(b))
       /\ SF_browserVars(SnapshotArrives(b))
       /\ SF_browserVars(Told(b))
       /\ WF_browserVars(StreamFindsGap(b))
       /\ SF_browserVars(EventArrives(b))
       /\ WF_browserVars(EndingArrives(b))
       /\ WF_browserVars(RetryFires(b))
       /\ WF_browserVars(GoesOnline(b))

----------------------------------------------------------------------------
(* The page never shows an older revision than it has shown: not when the   *)
(* snapshot of a superseded fetch comes last, and not when a revision comes *)
(* both with the snapshot and as an event.                                  *)
DisplayNeverGoesBack ==
    [][\A b \in Reader : page'[b].shown >= page[b].shown]_browserVars

(* A loaded page is never stranded: unless the browser says it is offline,  *)
(* there is an open source, a fetch of this generation or a timer, from     *)
(* which it goes on without its visitor.                                    *)
NeverStranded ==
    \A b \in Reader :
       page[b].open /\ page[b].online =>
          page[b].source \/ page[b].timer \/ page[b].fetch # <<"none">>

(* A loaded page comes to show the current revision, whatever is lost       *)
(* between the snapshot and the connection, during it, and after it.        *)
PageCatchesUp ==
    \A b \in Reader :
       []<>(page[b].open => page[b].shown = head)
=============================================================================
