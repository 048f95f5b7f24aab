----------------------------- MODULE StartPage -----------------------------
(***************************************************************************)
(* The page /start (public/start.js): it creates an office, shows its      *)
(* pairing code, polls the status of the pairing until the desktop has     *)
(* claimed it and then opens the office.  The answer of a poll is awaited, *)
(* and in the meantime the countdown may end or the visitor start over.    *)
(***************************************************************************)
EXTENDS Integers, FiniteSets

CONSTANTS
    None,    \* no pairing
    Pairing, \* the pairings this page may create, one after the other
    Expires  \* whether the five minutes of a pairing may end

VARIABLES
    status,  \* server: each pairing is "unborn", "pending", "claimed" or "expired"
    ended,   \* the page's clock is past expiresAtMs of this pairing
    current, \* statusToken (and officeUrl)
    view,    \* "form", the "pairing" panel, or "gone" to the office
    state,   \* what the panel says: "pending", "claimed" or "expired"
    counting,\* countdownTimer is set
    timer,   \* pollTimer is set
    polls,   \* requests under way: [of, answer]; two alike count as one
    leaving  \* location.assign is due, 1.2 s after a success

panel == <<current, view, state, counting, timer, polls, leaving>>
startVars == <<status, ended, panel>>

Answer == {"none", "pending", "claimed", "expired", "error"}

ASSUME StartAssumption == Expires \in BOOLEAN /\ None \notin Pairing

----------------------------------------------------------------------------
(* The server and the clocks. *)

\* The desktop claims the code in time.
Claim(p) ==
    /\ status[p] = "pending"
    /\ status' = [status EXCEPT ![p] = "claimed"]
    /\ UNCHANGED <<ended, panel>>

ServerExpires(p) ==
    /\ Expires /\ status[p] = "pending"
    /\ status' = [status EXCEPT ![p] = "expired"]
    /\ UNCHANGED <<ended, panel>>

\* The page's clock is another one.
PageClockEnds(p) ==
    /\ Expires /\ status[p] # "unborn" /\ ~ended[p]
    /\ ended' = [ended EXCEPT ![p] = TRUE]
    /\ UNCHANGED <<status, panel>>

----------------------------------------------------------------------------
(* The page. *)

StopTimers == timer' = FALSE /\ counting' = FALSE

\* createPairing, when the server answers: the panel is shown, the first poll due.
Create(p) ==
    /\ view = "form" /\ status[p] = "unborn"
    /\ status' = [status EXCEPT ![p] = "pending"]
    /\ current' = p /\ view' = "pairing" /\ state' = "pending"
    /\ timer' = TRUE /\ counting' = TRUE
    /\ UNCHANGED <<ended, polls, leaving>>

\* Seeded defect: starting over leaves the timers of the old pairing running.
ResetTicking ==
    /\ view = "pairing"
    /\ current' = None /\ view' = "form"
    /\ UNCHANGED <<status, ended, state, counting, timer, polls, leaving>>

\* resetPairing.
Reset ==
    /\ view = "pairing"
    /\ current' = None /\ view' = "form"
    /\ StopTimers
    /\ UNCHANGED <<status, ended, state, polls, leaving>>

\* expirePairing.
Expired == state' = "expired" /\ StopTimers

\* pollPairing up to its await; the page's own clock comes first.
PollStarts ==
    /\ timer
    /\ \/ ended[current] /\ Expired /\ UNCHANGED polls
       \/ /\ ~ended[current]
          /\ polls' = polls \cup {[of |-> current, answer |-> "none"]}
          /\ timer' = FALSE
          /\ UNCHANGED <<state, counting>>
    /\ UNCHANGED <<status, ended, current, view, leaving>>

\* The server answers with what it has, or the request fails on the way.
PollAnswered(q) ==
    /\ q \in polls /\ q.answer = "none"
    /\ \E a \in {status[q.of], "error"} :
        polls' = (polls \ {q}) \cup {[of |-> q.of, answer |-> a]}
    /\ UNCHANGED <<status, ended, current, view, state, counting, timer, leaving>>

\* Seeded defect: the departure waits for a poll that is not made any more.
SucceedsStaying == state' = "claimed" /\ StopTimers /\ UNCHANGED leaving

\* claimPairing: the departure is scheduled if there is an office to go to.
Succeeds == state' = "claimed" /\ StopTimers /\ leaving' = (leaving \/ current # None)

\* Seeded defect: after a failed request the page does not ask again.
AsksAgainUnlessFailed(answer) ==
    /\ state' = "pending"
    /\ timer' = (timer \/ (current # None /\ answer = "pending"))
    /\ UNCHANGED <<counting, leaving>>

\* schedulePoll, unless there is nothing to ask about.
AsksAgain(answer) ==
    /\ state' = "pending"
    /\ timer' = (timer \/ current # None)
    /\ UNCHANGED <<counting, leaving>>

\* pollPairing after its await, whatever pairing the page has by now.
PollArrives(q) ==
    /\ q \in polls /\ q.answer # "none"
    /\ polls' = polls \ {q}
    /\ \/ q.answer = "claimed" /\ Succeeds
       \/ q.answer = "expired" /\ Expired /\ UNCHANGED leaving
       \/ q.answer \in {"pending", "error"} /\ AsksAgain(q.answer)
    /\ UNCHANGED <<status, ended, current, view>>

\* updateCountdown, every second while its timer is set.
CountdownEnds ==
    /\ counting /\ ended[current]
    /\ Expired
    /\ UNCHANGED <<status, ended, current, view, polls, leaving>>

\* The departure, if there still is an office to go to; its requests end with a page.
Depart ==
    /\ leaving
    /\ leaving' = FALSE
    /\ IF current = None THEN UNCHANGED <<view, counting, timer, polls>>
       ELSE view' = "gone" /\ StopTimers /\ polls' = {}
    /\ UNCHANGED <<status, ended, current, state>>

StartInit ==
    /\ status = [p \in Pairing |-> "unborn"] /\ ended = [p \in Pairing |-> FALSE]
    /\ current = None /\ view = "form" /\ state = "pending"
    /\ counting = FALSE /\ timer = FALSE /\ polls = {} /\ leaving = FALSE

PageStep ==
    \/ PollStarts \/ CountdownEnds \/ Depart
    \/ \E q \in polls : PollArrives(q)

StartNext ==
    \/ \E p \in Pairing : Create(p) \/ Claim(p) \/ ServerExpires(p) \/ PageClockEnds(p)
    \/ \E q \in polls : PollAnswered(q)
    \/ Reset
    \/ PageStep

\* A poll about p whose request and answer get through.
Asked(p) ==
    LET q == [of |-> p, answer |-> "none"]
    IN PollAnswered(q) /\ [of |-> p, answer |-> status[p]] \in polls'

\* The browser runs the page; each request ends, and not for ever with an error.
StartFairness ==
    /\ WF_startVars(PollStarts) /\ WF_startVars(CountdownEnds) /\ WF_startVars(Depart)
    /\ \A p \in Pairing, a \in Answer : WF_startVars(PollArrives([of |-> p, answer |-> a]))
    /\ \A p \in Pairing : WF_startVars(PollAnswered([of |-> p, answer |-> "none"])) /\ SF_startVars(Asked(p))

----------------------------------------------------------------------------
(* Properties. *)

StartTypeOK ==
    /\ status \in [Pairing -> {"unborn", "pending", "claimed", "expired"}]
    /\ current \in Pairing \cup {None}
    /\ view \in {"form", "pairing", "gone"} /\ state \in {"pending", "claimed", "expired"}
    /\ polls \subseteq [of : Pairing, answer : Answer]
    /\ view = "form" <=> current = None
    /\ timer \/ counting => current # None

\* The page never waits in silence: while it says that it is waiting there is a poll
\* due or under way, through failed requests, late answers and restarts.
KeepsAsking ==
    view = "pairing" /\ state = "pending" => timer \/ polls # {}

\* "The page automatically opens the Public Office after the device claims it.", unless
\* it has told its visitor that the pairing expired.
ClaimOpensTheOffice ==
    \A p \in Pairing :
       (status[p] = "claimed" /\ current = p) ~> (view = "gone" \/ current # p \/ state = "expired")
=============================================================================
