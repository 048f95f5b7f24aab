------------------------- MODULE OfficeVisit_proofs -------------------------
(***************************************************************************)
(* Proofs about OfficeVisit: for any pairings, visitors, bounds and losses *)
(* neither page is ever left waiting for nothing, the office that is shown *)
(* never goes back to an older revision, and the page does with the server *)
(* only what a reader of OfficeFeed may do.                                *)
(*                                                                         *)
(* The page compares revisions only when events arrive; that a snapshot    *)
(* never shows an older one rests on the two halves being exclusive: while *)
(* a fetch of the current generation is under way there is no source, so   *)
(* nothing moves the display until the fetch is back (PageGood).           *)
(***************************************************************************)
EXTENDS OfficeVisit, TLAPS, SequenceTheorems

-----------------------------------------------------------------------------
(* The page /start.                                                         *)

\* A pairing that the page knows of, or asks about, has been created.
StartInv ==
    /\ StartTypeOK
    /\ KeepsAsking
    /\ current # None => status[current] # "unborn"
    /\ \A q \in polls : status[q.of] # "unborn"

LEMMA StartBegins == StartInit => StartInv
<1> SUFFICES ASSUME StartInit PROVE StartInv
  OBVIOUS
<1>1. /\ status = [p \in Pairing |-> "unborn"]
      /\ current = None /\ view = "form" /\ state = "pending"
      /\ counting = FALSE /\ timer = FALSE /\ polls = {}
  BY DEF StartInit
<1> QED
  BY <1>1 DEF StartInv, StartTypeOK, KeepsAsking

LEMMA StartStutters ==
    ASSUME StartInv, UNCHANGED startVars PROVE StartInv'
<1>1. /\ status' = status /\ current' = current /\ view' = view /\ state' = state
      /\ counting' = counting /\ timer' = timer /\ polls' = polls
  BY DEF startVars, panel
<1> QED
  BY <1>1 DEF StartInv, StartTypeOK, KeepsAsking

\* What the server does to a pairing it knows.
LEMMA ServerSteps ==
    ASSUME StartInv, NEW p \in Pairing, Claim(p) \/ ServerExpires(p) \/ PageClockEnds(p)
    PROVE  StartInv'
<1>1. /\ current' = current /\ view' = view /\ state' = state
      /\ counting' = counting /\ timer' = timer /\ polls' = polls
  BY DEF Claim, ServerExpires, PageClockEnds, panel
<1>2. /\ status' \in [Pairing -> {"unborn", "pending", "claimed", "expired"}]
      /\ \A r \in Pairing : status[r] # "unborn" => status'[r] # "unborn"
  <2>1. CASE Claim(p)
    BY <2>1 DEF Claim, StartInv, StartTypeOK
  <2>2. CASE ServerExpires(p)
    BY <2>2 DEF ServerExpires, StartInv, StartTypeOK
  <2>3. CASE PageClockEnds(p)
    BY <2>3 DEF PageClockEnds, StartInv, StartTypeOK
  <2> QED BY <2>1, <2>2, <2>3
<1> QED
  BY <1>1, <1>2 DEF StartInv, StartTypeOK, KeepsAsking

LEMMA PollAnsweredIsGood ==
    ASSUME StartInv, NEW q \in polls, PollAnswered(q)
    PROVE  StartInv'
<1>1. PICK a \in {status[q.of], "error"} :
         polls' = (polls \ {q}) \cup {[of |-> q.of, answer |-> a]}
  BY DEF PollAnswered
<1>2. /\ status' = status /\ current' = current /\ view' = view /\ state' = state
      /\ counting' = counting /\ timer' = timer
  BY DEF PollAnswered
<1>3. q.of \in Pairing /\ status[q.of] # "unborn" /\ a \in Answer
  BY DEF StartInv, StartTypeOK, Answer
<1> DEFINE r == [of |-> q.of, answer |-> a]
<1>4. r \in [of : Pairing, answer : Answer] /\ r.of = q.of
  BY <1>3
<1> HIDE DEF r
<1>5. polls' \subseteq [of : Pairing, answer : Answer] /\ polls' # {}
  BY <1>1, <1>4 DEF StartInv, StartTypeOK, r
<1>6. \A x \in polls' : status'[x.of] # "unborn"
  BY <1>1, <1>2, <1>3, <1>4 DEF StartInv, r
<1> QED
  BY <1>2, <1>5, <1>6 DEF StartInv, StartTypeOK, KeepsAsking

LEMMA PollStartsIsGood ==
    ASSUME StartInv, PollStarts PROVE StartInv'
<1>1. status' = status /\ current' = current /\ view' = view /\ current \in Pairing
  BY DEF PollStarts, StartInv, StartTypeOK
<1>2. CASE ended[current] /\ Expired /\ UNCHANGED polls
  BY <1>1, <1>2 DEF Expired, StopTimers, StartInv, StartTypeOK, KeepsAsking
<1>3. CASE /\ polls' = polls \cup {[of |-> current, answer |-> "none"]}
           /\ timer' = FALSE /\ UNCHANGED <<state, counting>>
  <2> DEFINE r == [of |-> current, answer |-> "none"]
  <2>1. r \in [of : Pairing, answer : Answer] /\ r.of = current
    BY <1>1 DEF Answer
  <2> HIDE DEF r
  <2>2. polls' = polls \cup {r}
    BY <1>3 DEF r
  <2>3. polls' \subseteq [of : Pairing, answer : Answer] /\ polls' # {}
    BY <2>1, <2>2 DEF StartInv, StartTypeOK
  <2>4. \A x \in polls' : status'[x.of] # "unborn"
    BY <1>1, <2>1, <2>2, StartAssumption DEF StartInv, StartTypeOK
  <2>5. state' = state /\ counting' = counting /\ timer' = FALSE
    BY <1>3
  <2> QED
    BY <1>1, <2>3, <2>4, <2>5 DEF StartInv, StartTypeOK, KeepsAsking
<1> QED
  BY <1>2, <1>3 DEF PollStarts

LEMMA PollArrivesIsGood ==
    ASSUME StartInv, NEW q \in polls, PollArrives(q)
    PROVE  StartInv'
<1>1. /\ status' = status /\ current' = current /\ view' = view
      /\ polls' = polls \ {q}
  BY DEF PollArrives
<1>2. CASE Succeeds
  BY <1>1, <1>2 DEF Succeeds, StopTimers, StartInv, StartTypeOK, KeepsAsking
<1>3. CASE Expired
  BY <1>1, <1>3 DEF Expired, StopTimers, StartInv, StartTypeOK, KeepsAsking
<1>4. CASE AsksAgain(q.answer)
  <2>1. /\ state' = "pending" /\ counting' = counting
        /\ timer' <=> (timer \/ current # None)
    BY <1>4 DEF AsksAgain
  <2> QED
    BY <1>1, <2>1 DEF StartInv, StartTypeOK, KeepsAsking
<1> QED
  BY <1>2, <1>3, <1>4 DEF PollArrives

LEMMA VisitorSteps ==
    ASSUME StartInv, \/ \E p \in Pairing : Create(p)
                     \/ Reset
                     \/ CountdownEnds
                     \/ Depart
    PROVE  StartInv'
<1>1. ASSUME NEW p \in Pairing, Create(p) PROVE StartInv'
  <2>1. /\ status' = [status EXCEPT ![p] = "pending"]
        /\ current' = p /\ view' = "pairing" /\ state' = "pending"
        /\ timer' = TRUE /\ counting' = TRUE /\ polls' = polls
    BY <1>1 DEF Create
  <2>2. /\ status' \in [Pairing -> {"unborn", "pending", "claimed", "expired"}]
        /\ \A r \in Pairing : status[r] # "unborn" => status'[r] # "unborn"
        /\ status'[p] = "pending"
    BY <2>1 DEF StartInv, StartTypeOK
  <2> QED
    BY <2>1, <2>2, StartAssumption DEF StartInv, StartTypeOK, KeepsAsking
<1>2. CASE Reset
  BY <1>2 DEF Reset, StopTimers, StartInv, StartTypeOK, KeepsAsking
<1>3. CASE CountdownEnds
  BY <1>3 DEF CountdownEnds, Expired, StopTimers, StartInv, StartTypeOK, KeepsAsking
<1>4. CASE Depart
  <2>1. CASE current = None
    BY <1>4, <2>1 DEF Depart, StartInv, StartTypeOK, KeepsAsking
  <2>2. CASE current # None
    BY <1>4, <2>2 DEF Depart, StopTimers, StartInv, StartTypeOK, KeepsAsking
  <2> QED BY <2>1, <2>2
<1> QED
  BY <1>1, <1>2, <1>3, <1>4

LEMMA StartStep ==
    ASSUME StartInv, StartNext PROVE StartInv'
BY ServerSteps, PollAnsweredIsGood, PollStartsIsGood, PollArrivesIsGood, VisitorSteps
   DEF StartNext, PageStep

-----------------------------------------------------------------------------
(* The public page of the office.                                           *)

\* A page P whose source is at x of a feed with head h.
PageGood(P, x, h) ==
    /\ P \in Page
    /\ x \in Nat \cup {Away}
    /\ ~P.source => P.wire = << >> /\ P.ending = "open" /\ x = Away
    /\ ~P.open => ~P.source /\ ~P.timer /\ P.fetch = <<"none">>
    /\ P.fetch # <<"none">> => ~P.source
    /\ P.fetch[1] = "got" => P.shown <= P.fetch[2] /\ P.fetch[2] <= h
    /\ P.shown <= h
    /\ \A i \in 1 .. Len(P.wire) : P.wire[i] <= h
    /\ x <= h
    /\ P.open /\ P.online => P.source \/ P.timer \/ P.fetch # <<"none">>

PageInv ==
    /\ head \in Nat /\ start \in Nat
    /\ pos \in [Reader -> Nat \cup {Away}]
    /\ DOMAIN page = Reader
    /\ \A b \in Reader : PageGood(page[b], pos[b], head)

\* What a step of the page or the server has to show.
Good ==
    /\ PageInv'
    /\ \A b \in Reader : page'[b].shown >= page[b].shown
    /\ [Next]_feedVars

LEMMA FetchIs ==
    ASSUME NEW P \in Page
    PROVE  /\ P.fetch[1] = "got" => P.fetch = <<"got", P.fetch[2]>> /\ P.fetch[2] \in Nat
           /\ P.fetch = <<"none">> \/ P.fetch = <<"sent">> \/ P.fetch[1] = "got"
           /\ P.fetch = <<"none">> => P.fetch[1] = "none"
           /\ P.fetch = <<"sent">> => P.fetch[1] = "sent"
           /\ P.shown \in Int /\ P.late \subseteq Nat /\ P.wire \in Seq(Nat)
           /\ P.open \in BOOLEAN /\ P.source \in BOOLEAN /\ P.timer \in BOOLEAN
           /\ P.online \in BOOLEAN /\ P.ending \in {"open", "end", "resync"}
<1>1. P.fetch \in {<<"none">>, <<"sent">>} \cup ({"got"} \X Nat)
  BY DEF Page
<1>2. P.shown \in Int
  BY DEF Page
<1>3. /\ P.late \subseteq Nat /\ P.wire \in Seq(Nat)
      /\ P.open \in BOOLEAN /\ P.source \in BOOLEAN /\ P.timer \in BOOLEAN
      /\ P.online \in BOOLEAN /\ P.ending \in {"open", "end", "resync"}
  BY DEF Page
<1>4. /\ <<"none">>[1] = "none" /\ <<"sent">>[1] = "sent"
  OBVIOUS
<1>5. P.fetch \in {"got"} \X Nat =>
         P.fetch[1] = "got" /\ P.fetch = <<"got", P.fetch[2]>> /\ P.fetch[2] \in Nat
  OBVIOUS
<1> QED
  BY <1>1, <1>2, <1>3, <1>4, <1>5

\* One page changes, and its source with it.
LEMMA OnePage ==
    ASSUME PageInv, NEW b \in Reader, NEW P, NEW x, PageGood(P, x, head),
           P.shown >= page[b].shown,
           page' = [page EXCEPT ![b] = P], pos' = [pos EXCEPT ![b] = x],
           head' = head, start' = start,
           \/ x = Away
           \/ x = pos[b]
           \/ pos[b] = Away /\ x \in 0 .. head
           \/ pos[b] # Away /\ pos[b] >= start /\ x \in pos[b] + 1 .. head
    PROVE  Good
<1>1. \A c \in Reader : PageGood(page'[c], pos'[c], head')
  <2> TAKE c \in Reader
  <2>1. CASE c = b
    BY <2>1 DEF PageInv
  <2>2. CASE c # b
    BY <2>2 DEF PageInv
  <2> QED BY <2>1, <2>2
<1>2. pos' \in [Reader -> Nat \cup {Away}] /\ DOMAIN page' = Reader
  BY DEF PageInv, PageGood
<1>3. \A c \in Reader : page'[c].shown >= page[c].shown
  <2> TAKE c \in Reader
  <2>1. page[c].shown \in Int
    BY FetchIs DEF PageInv, PageGood
  <2>2. page'[c] = IF c = b THEN P ELSE page[c]
    BY DEF PageInv
  <2> QED BY <2>1, <2>2
<1>4. [Next]_feedVars
  <2>1. CASE x = Away /\ pos[b] # Away
    BY <2>1 DEF Next, Leave, PageInv
  <2>2. CASE x = pos[b]
    <3>1. pos' = pos
      BY <2>2 DEF PageInv
    <3> QED BY <3>1 DEF feedVars
  <2>3. CASE pos[b] = Away /\ x \in 0 .. head
    BY <2>3 DEF Next, Join
  <2>4. CASE pos[b] # Away /\ pos[b] >= start /\ x \in pos[b] + 1 .. head
    BY <2>4 DEF Next, Tell
  <2> QED BY <2>1, <2>2, <2>3, <2>4
<1>5. PageInv'
  <2>1. \A c \in Reader : PageGood(page[c], pos[c], head)'
    BY <1>1 DEF PageGood, Page, Away
  <2> QED BY <1>2, <2>1 DEF PageInv, Away
<1> QED
  BY <1>3, <1>4, <1>5 DEF Good

\* A turn of the page leaves its source where it is, or drops it.
LEMMA TurnIsGood ==
    ASSUME PageInv, NEW b \in Reader, NEW P,
           PageGood(P, IF P.source THEN pos[b] ELSE Away, head),
           P.shown >= page[b].shown, Turns(b, P)
    PROVE  Good
<1> DEFINE x == IF P.source THEN pos[b] ELSE Away
<1>1. pos' = [pos EXCEPT ![b] = x]
  BY DEF Turns, PageInv
<1>2. page' = [page EXCEPT ![b] = P] /\ head' = head /\ start' = start
  BY DEF Turns
<1>3. x = Away \/ x = pos[b]
  OBVIOUS
<1> HIDE DEF x
<1>4. PageGood(P, x, head)
  BY DEF x
<1> QED
  BY <1>1, <1>2, <1>3, <1>4, OnePage

\* The closed source takes everything with it that was on its way.
LEMMA NoSourceIs ==
    ASSUME NEW P \in Page
    PROVE  /\ NoSource(P) \in Page
           /\ NoSource(P).open = P.open /\ NoSource(P).shown = P.shown
           /\ NoSource(P).fetch = P.fetch /\ NoSource(P).late = P.late
           /\ NoSource(P).source = FALSE /\ NoSource(P).wire = << >>
           /\ NoSource(P).ending = "open"
           /\ NoSource(P).timer = P.timer /\ NoSource(P).online = P.online
<1> DEFINE N == NoSource(P)
<1>1. << >> \in Seq(Nat)
  OBVIOUS
<1>2. /\ N.open = P.open /\ N.shown = P.shown /\ N.fetch = P.fetch /\ N.late = P.late
      /\ N.source = FALSE /\ N.ending = "open"
      /\ N.timer = P.timer /\ N.online = P.online
  BY DEF NoSource, Page
<1>3. N.wire = << >>
  BY DEF NoSource, Page
<1>4. N \in Page
  BY <1>1 DEF NoSource, Page
<1> HIDE DEF N
<1> QED
  BY <1>2, <1>3, <1>4 DEF N

\* A page that starts over, or is about to, waits for something.
LEMMA RefreshedIsGood ==
    ASSUME NEW P, NEW h \in Nat, P \in Page, P.open, P.shown <= h, head \in Nat
    PROVE  /\ PageGood(Refreshed(P), Away, h)
           /\ Refreshed(P).shown = P.shown /\ Refreshed(P).source = FALSE
<1> DEFINE R == Refreshed(P)
<1>1. Superseded(P) \subseteq Nat
  <2>1. P.late \subseteq Nat /\ (P.fetch[1] = "got" => P.fetch[2] \in Nat)
    BY FetchIs
  <2>2. Superseded(P) = IF P.fetch[1] = "got" THEN P.late \cup {P.fetch[2]}
                        ELSE IF P.fetch[1] = "sent" THEN P.late \cup {head}
                        ELSE P.late
    BY DEF Superseded
  <2> QED BY <2>1, <2>2
<1>2. R = [NoSource(P) EXCEPT !.fetch = <<"sent">>, !.late = Superseded(P), !.timer = FALSE]
  BY DEF Refreshed
<1>3. /\ R.open = P.open /\ R.shown = P.shown /\ R.fetch = <<"sent">>
      /\ R.late = Superseded(P) /\ R.source = FALSE /\ R.wire = << >>
      /\ R.ending = "open" /\ R.timer = FALSE /\ R.online = P.online /\ R \in Page
  <2>1. /\ NoSource(P) \in Page
        /\ NoSource(P).open = P.open /\ NoSource(P).shown = P.shown
        /\ NoSource(P).source = FALSE /\ NoSource(P).wire = << >>
        /\ NoSource(P).ending = "open" /\ NoSource(P).online = P.online
    BY NoSourceIs
  <2> QED
    BY <1>1, <1>2, <2>1 DEF Page
<1>4. <<"sent">>[1] # "got" /\ <<"sent">> # <<"none">>
  OBVIOUS
<1>5. Len(<< >>) = 0
  OBVIOUS
<1> HIDE DEF R
<1> QED
  BY <1>3, <1>4, <1>5 DEF PageGood, Away, R

LEMMA RecoveringIsGood ==
    ASSUME NEW P, NEW h \in Nat, P \in Page, P.open, P.shown <= h,
           P.fetch[1] = "got" => P.shown <= P.fetch[2] /\ P.fetch[2] <= h
    PROVE  /\ PageGood(Recovering(P), Away, h)
           /\ Recovering(P).shown = P.shown /\ Recovering(P).source = FALSE
<1> DEFINE R == Recovering(P)
<1>1. /\ R.open = P.open /\ R.shown = P.shown /\ R.fetch = P.fetch
      /\ R.late = P.late /\ R.source = FALSE /\ R.wire = << >>
      /\ R.ending = "open" /\ R.timer = TRUE /\ R.online = P.online /\ R \in Page
  <2>1. /\ NoSource(P) \in Page
        /\ NoSource(P).open = P.open /\ NoSource(P).shown = P.shown
        /\ NoSource(P).fetch = P.fetch /\ NoSource(P).late = P.late
        /\ NoSource(P).source = FALSE /\ NoSource(P).wire = << >>
        /\ NoSource(P).ending = "open" /\ NoSource(P).online = P.online
    BY NoSourceIs
  <2> QED
    BY <2>1 DEF Recovering, Page
<1>2. Len(<< >>) = 0
  OBVIOUS
<1> HIDE DEF R
<1> QED
  BY <1>1, <1>2 DEF PageGood, Away, R

-----------------------------------------------------------------------------
(* One lemma for each step of the page.                                     *)

\* What a good page has, taken apart.
LEMMA PageParts ==
    ASSUME PageInv, NEW b \in Reader
    PROVE  /\ page[b] \in Page /\ PageGood(page[b], pos[b], head)
           /\ head \in Nat /\ start \in Nat /\ head \in Int
           /\ pos[b] \in Nat \cup {Away} /\ pos[b] \in Int /\ pos[b] <= head
           /\ page[b].shown \in Int /\ page[b].shown <= head
           /\ page[b].wire \in Seq(Nat)
           /\ page[b].fetch[1] = "got" =>
                /\ page[b].fetch[2] \in Nat
                /\ page[b].shown <= page[b].fetch[2] /\ page[b].fetch[2] <= head
           /\ ~page[b].source => page[b].wire = << >> /\ page[b].ending = "open" /\ pos[b] = Away
           /\ page[b].fetch # <<"none">> => ~page[b].source
           /\ page[b].source \/ page[b].timer \/ page[b].fetch # <<"none">> => page[b].open
           /\ \A i \in 1 .. Len(page[b].wire) : page[b].wire[i] \in Nat /\ page[b].wire[i] <= head
<1>1. PageGood(page[b], pos[b], head) /\ head \in Nat /\ start \in Nat
  BY DEF PageInv
<1>2. page[b] \in Page
  BY <1>1 DEF PageGood
<1>3. page[b].shown \in Int /\ page[b].wire \in Seq(Nat)
      /\ (page[b].fetch[1] = "got" => page[b].fetch[2] \in Nat)
  BY <1>2, FetchIs
<1>4. pos[b] \in Nat \cup {Away} /\ pos[b] \in Int
  BY <1>1 DEF PageGood, Away
<1>5. \A i \in 1 .. Len(page[b].wire) : page[b].wire[i] \in Nat
  BY <1>3
<1> QED
  BY <1>1, <1>2, <1>3, <1>4, <1>5 DEF PageGood

LEMMA LoadsIsGood ==
    ASSUME PageInv, NEW b \in Reader, Loads(b) PROVE Good
<1> DEFINE P == [page[b] EXCEPT !.open = TRUE, !.fetch = <<"sent">>]
<1>1. PageGood(page[b], pos[b], head) /\ page[b] \in Page /\ head \in Nat
      /\ page[b].shown \in Int /\ page[b].shown <= head /\ ~page[b].source
      /\ page[b].wire = << >> /\ page[b].ending = "open" /\ Turns(b, P)
  BY PageParts DEF Loads, PageGood
<1>2. /\ P.open = TRUE /\ P.shown = page[b].shown /\ P.fetch = <<"sent">>
      /\ P.source = page[b].source /\ P.wire = page[b].wire
      /\ P.ending = page[b].ending /\ P \in Page
  BY <1>1 DEF Page
<1>3. <<"sent">>[1] # "got" /\ <<"sent">> # <<"none">> /\ Len(<< >>) = 0
  OBVIOUS
<1> HIDE DEF P
<1>4. PageGood(P, Away, head)
  BY <1>1, <1>2, <1>3 DEF PageGood, Away
<1> QED
  BY <1>1, <1>2, <1>4, TurnIsGood

LEMMA SnapshotReadIsGood ==
    ASSUME PageInv, NEW b \in Reader, SnapshotRead(b) PROVE Good
<1> DEFINE P == [page[b] EXCEPT !.fetch = <<"got", head>>]
<1>1. PageGood(page[b], pos[b], head) /\ page[b] \in Page /\ head \in Nat
      /\ page[b].shown \in Int /\ page[b].shown <= head /\ Turns(b, P)
      /\ page[b].fetch = <<"sent">>
  BY PageParts DEF SnapshotRead
<1>2. <<"sent">> # <<"none">>
  OBVIOUS
<1>3. ~page[b].source /\ page[b].wire = << >> /\ page[b].ending = "open" /\ page[b].open
  BY <1>1, <1>2 DEF PageGood
<1>4. <<"got", head>> \in {"got"} \X Nat /\ <<"got", head>>[1] = "got"
      /\ <<"got", head>>[2] = head /\ <<"got", head>> # <<"none">>
  BY <1>1
<1>5. /\ P.open = page[b].open /\ P.shown = page[b].shown /\ P.fetch = <<"got", head>>
      /\ P.source = page[b].source /\ P.wire = page[b].wire
      /\ P.ending = page[b].ending /\ P \in Page
  BY <1>1, <1>4 DEF Page
<1> HIDE DEF P
<1>6. Len(<< >>) = 0
  OBVIOUS
<1>7. PageGood(P, Away, head)
  BY <1>1, <1>3, <1>4, <1>5, <1>6 DEF PageGood, Away
<1> QED
  BY <1>1, <1>3, <1>5, <1>7, TurnIsGood

LEMMA FetchFailsIsGood ==
    ASSUME PageInv, NEW b \in Reader, FetchFails(b) PROVE Good
<1> DEFINE P == [page[b] EXCEPT !.fetch = <<"none">>]
<1>1. page[b] \in Page /\ head \in Nat /\ page[b].shown \in Int /\ page[b].shown <= head
      /\ page[b].open /\ Turns(b, Recovering(P))
  BY PageParts DEF FetchFails
<1>2. P.fetch = <<"none">> /\ P.shown = page[b].shown /\ P.open = page[b].open /\ P \in Page
  BY <1>1 DEF Page
<1>3. <<"none">>[1] # "got"
  OBVIOUS
<1> HIDE DEF P
<1>4. PageGood(Recovering(P), Away, head) /\ Recovering(P).shown = P.shown
      /\ Recovering(P).source = FALSE
  BY <1>1, <1>2, <1>3, RecoveringIsGood
<1> QED
  BY <1>1, <1>2, <1>4, TurnIsGood

\* Only here does a page get a source, and no fetch is under way any more.
LEMMA SnapshotArrivesIsGood ==
    ASSUME PageInv, NEW b \in Reader, SnapshotArrives(b) PROVE Good
<1> DEFINE r == page[b].fetch[2]
           P == Joined(page[b], r)
           x == IF r >= start THEN r ELSE Away
<1>1. page[b].fetch[1] = "got"
  BY DEF SnapshotArrives
<1>2. /\ page[b] \in Page /\ head \in Nat /\ start \in Nat
      /\ r \in Nat /\ page[b].shown <= r /\ r <= head /\ page[b].shown \in Int
  BY <1>1, PageParts
<1>3. page[b].fetch # <<"none">>
  BY <1>1, <1>2, FetchIs
<1>4. ~page[b].source /\ pos[b] = Away /\ page[b].open
  BY <1>3, PageParts
<1>5. /\ P.open = page[b].open /\ P.shown = r /\ P.fetch = <<"none">>
      /\ P.source = TRUE /\ P.ending = (IF r >= start THEN "open" ELSE "end")
  BY <1>2 DEF Joined, Page
<1>6. P.wire = << >>
  BY <1>2 DEF Joined, Page
<1>7. P \in Page
  <2>1. << >> \in Seq(Nat) /\ r \in Nat
    BY <1>2
  <2> HIDE DEF r
  <2> QED BY <1>2, <2>1 DEF Joined, Page
<1>8. <<"none">>[1] # "got" /\ Len(<< >>) = 0
  OBVIOUS
<1>9. x \in Nat \cup {Away} /\ x <= head
  BY <1>2 DEF Away
<1>10. /\ page' = [page EXCEPT ![b] = P] /\ pos' = [pos EXCEPT ![b] = x]
       /\ head' = head /\ start' = start
  BY DEF SnapshotArrives
<1>11. x = Away \/ (pos[b] = Away /\ x \in 0 .. head)
  BY <1>2, <1>4
<1> HIDE DEF P, x
<1>12. PageGood(P, x, head)
  BY <1>2, <1>4, <1>5, <1>6, <1>7, <1>8, <1>9 DEF PageGood
<1>13. P.shown >= page[b].shown
  BY <1>2, <1>5
<1> QED
  BY <1>10, <1>11, <1>12, <1>13, OnePage

LEMMA LateArrivesIsGood ==
    ASSUME PageInv, NEW b \in Reader, LateArrives(b) PROVE Good
<1>1. PICK r \in page[b].late : Turns(b, [page[b] EXCEPT !.late = @ \ {r}])
  BY DEF LateArrives
<1> DEFINE P == [page[b] EXCEPT !.late = @ \ {r}]
<1>2. page[b] \in Page /\ PageGood(page[b], pos[b], head) /\ page[b].shown \in Int
  BY PageParts
<1>3. /\ P.open = page[b].open /\ P.shown = page[b].shown /\ P.fetch = page[b].fetch
      /\ P.source = page[b].source /\ P.wire = page[b].wire /\ P.ending = page[b].ending
      /\ P.timer = page[b].timer /\ P.online = page[b].online /\ P \in Page
  BY <1>2 DEF Page
<1>4. Turns(b, P)
  BY <1>1
<1> HIDE DEF P
<1>5. PageGood(P, IF P.source THEN pos[b] ELSE Away, head)
  <2>1. ~P.source => pos[b] = Away
    BY <1>2, <1>3 DEF PageGood
  <2>2. PageGood(P, pos[b], head)
    BY <1>2, <1>3 DEF PageGood
  <2> QED BY <2>1, <2>2
<1>6. P.shown >= page[b].shown
  BY <1>2, <1>3
<1> QED
  BY <1>4, <1>5, <1>6, TurnIsGood

LEMMA ToldIsGood ==
    ASSUME PageInv, NEW b \in Reader, Told(b) PROVE Good
<1>1. /\ pos[b] # Away /\ pos[b] >= start /\ page[b].ending = "open"
      /\ head' = head /\ start' = start
  BY DEF Told, Tell
<1>2. PICK x \in pos[b] + 1 .. head : pos' = [pos EXCEPT ![b] = x]
  BY DEF Told, Tell
<1>3. /\ page[b] \in Page /\ PageGood(page[b], pos[b], head) /\ page[b].shown \in Int
      /\ head \in Nat /\ pos[b] \in Nat /\ page[b].wire \in Seq(Nat) /\ page[b].source
      /\ \A i \in 1 .. Len(page[b].wire) : page[b].wire[i] \in Nat /\ page[b].wire[i] <= head
  BY <1>1, PageParts
<1>4. pos'[b] = x /\ x \in Nat /\ x <= head
  BY <1>2, <1>3 DEF PageInv
<1> DEFINE new == Between(pos[b], x)
           P == [page[b] EXCEPT !.wire = page[b].wire \o new]
<1>5. /\ new \in Seq(Nat) /\ Len(new) = x - pos[b]
      /\ \A i \in 1 .. Len(new) : new[i] <= head
  BY <1>2, <1>3, <1>4 DEF Between
<1>6. page' = [page EXCEPT ![b] = P]
  BY <1>4 DEF Told, PageInv
<1> HIDE DEF new
<1>7. page[b].wire \o new \in Seq(Nat)
  BY <1>3, <1>5
<1>8. \A i \in 1 .. Len(page[b].wire \o new) : (page[b].wire \o new)[i] <= head
  <2> DEFINE old == page[b].wire
  <2>1. old \in Seq(Nat) /\ \A i \in 1 .. Len(old) : old[i] <= head
    BY <1>3
  <2> HIDE DEF old
  <2>2. /\ Len(old \o new) = Len(old) + Len(new)
        /\ \A i \in 1 .. Len(old) + Len(new) :
              (old \o new)[i] = IF i <= Len(old) THEN old[i] ELSE new[i - Len(old)]
    BY <1>5, <2>1, ConcatProperties
  <2>3. Len(old) \in Nat /\ Len(new) \in Nat
    BY <1>5, <2>1
  <2>4. \A i \in 1 .. Len(old \o new) : (old \o new)[i] <= head
    BY <1>5, <2>1, <2>2, <2>3
  <2> QED BY <2>4 DEF old
<1>9. /\ P.open = page[b].open /\ P.shown = page[b].shown /\ P.fetch = page[b].fetch
      /\ P.source = page[b].source /\ P.wire = page[b].wire \o new
      /\ P.ending = page[b].ending
      /\ P.timer = page[b].timer /\ P.online = page[b].online /\ P \in Page
  BY <1>3, <1>7 DEF Page
<1> HIDE DEF P
<1>10. PageGood(P, x, head)
  BY <1>3, <1>4, <1>8, <1>9 DEF PageGood
<1>11. P.shown >= page[b].shown
  BY <1>3, <1>9
<1> QED
  BY <1>1, <1>2, <1>6, <1>10, <1>11, OnePage

\* The server ends a stream, or finds a gap: the source stays, at nothing.
LEMMA StreamStopsIsGood ==
    ASSUME PageInv, NEW b \in Reader, StreamFindsGap(b) \/ StreamEnds(b) PROVE Good
<1>1. /\ page[b] \in Page /\ PageGood(page[b], pos[b], head) /\ page[b].shown \in Int
      /\ head \in Nat /\ page[b].wire \in Seq(Nat) /\ page[b].source
  BY PageParts DEF StreamFindsGap, StreamEnds
<1>2. PICK kept \in {page[b].wire, << >>}, how \in {"end", "resync"} :
         page' = [page EXCEPT ![b] = [page[b] EXCEPT !.ending = how, !.wire = kept]]
  <2>1. CASE StreamEnds(b)
    <3>1. PICK kept \in {page[b].wire, << >>} :
             page' = [page EXCEPT ![b].ending = "end", ![b].wire = kept]
      BY <2>1 DEF StreamEnds
    <3>2. page' = [page EXCEPT ![b] = [page[b] EXCEPT !.ending = "end", !.wire = kept]]
      BY <1>1, <3>1 DEF PageInv, Page
    <3> QED BY <3>2
  <2>2. CASE StreamFindsGap(b)
    <3>1. page' = [page EXCEPT ![b].ending = "resync"]
      BY <2>2 DEF StreamFindsGap
    <3>2. page' = [page EXCEPT ![b] =
                     [page[b] EXCEPT !.ending = "resync", !.wire = page[b].wire]]
      BY <1>1, <3>1 DEF PageInv, Page
    <3> QED BY <3>2
  <2> QED BY <2>1, <2>2
<1>3. pos' = [pos EXCEPT ![b] = Away] /\ head' = head /\ start' = start
  BY DEF StreamFindsGap, StreamEnds
<1> DEFINE P == [page[b] EXCEPT !.ending = how, !.wire = kept]
<1>4. kept \in Seq(Nat) /\ \A i \in 1 .. Len(kept) : kept[i] <= head
  <2>1. CASE kept = page[b].wire
    BY <1>1, <2>1 DEF PageGood
  <2>2. CASE kept = << >>
    BY <2>2
  <2> QED BY <2>1, <2>2
<1>5. /\ P.open = page[b].open /\ P.shown = page[b].shown /\ P.fetch = page[b].fetch
      /\ P.source = page[b].source /\ P.wire = kept
      /\ P.timer = page[b].timer /\ P.online = page[b].online /\ P \in Page
  BY <1>1, <1>4 DEF Page
<1>6. page' = [page EXCEPT ![b] = P]
  BY <1>2
<1> HIDE DEF P
<1>7. PageGood(P, Away, head)
  BY <1>1, <1>4, <1>5 DEF PageGood, Away
<1>8. P.shown >= page[b].shown
  BY <1>1, <1>5
<1> QED
  BY <1>3, <1>6, <1>7, <1>8, OnePage

\* An event: an old one is dropped, the next one is shown, any other starts over.
LEMMA EventArrivesIsGood ==
    ASSUME PageInv, NEW b \in Reader, EventArrives(b) PROVE Good
<1> DEFINE P == [page[b] EXCEPT !.wire = Tail(page[b].wire)]
           r == Head(page[b].wire)
           N == [P EXCEPT !.shown = r]
<1>1. /\ page[b] \in Page /\ PageGood(page[b], pos[b], head) /\ page[b].shown \in Int
      /\ page[b].shown <= head /\ head \in Nat
      /\ page[b].wire \in Seq(Nat) /\ page[b].wire # << >>
      /\ page[b].source /\ page[b].open
  BY PageParts DEF EventArrives
<1>2. Turns(b, IF r <= P.shown THEN P ELSE IF r = P.shown + 1 THEN N ELSE Refreshed(P))
  BY DEF EventArrives
<1>3. /\ Tail(page[b].wire) \in Seq(Nat) /\ r \in Nat /\ r <= head
      /\ \A i \in 1 .. Len(Tail(page[b].wire)) : Tail(page[b].wire)[i] <= head
  <2> DEFINE w == page[b].wire
  <2>1. w \in Seq(Nat) /\ w # << >> /\ \A i \in 1 .. Len(w) : w[i] <= head
    BY <1>1 DEF PageGood
  <2> HIDE DEF w
  <2>2. /\ Tail(w) \in Seq(Nat) /\ Head(w) = w[1] /\ Len(w) \in Nat /\ Len(w) >= 1
        /\ Len(Tail(w)) = Len(w) - 1
        /\ \A i \in 1 .. Len(Tail(w)) : Tail(w)[i] = w[i + 1]
    BY <2>1
  <2>3. \A i \in 1 .. Len(Tail(w)) : Tail(w)[i] <= head
    BY <2>1, <2>2
  <2>4. Head(w) \in Nat /\ Head(w) <= head
    BY <2>1, <2>2
  <2> QED BY <2>2, <2>3, <2>4 DEF w
<1>4. /\ P.open = page[b].open /\ P.shown = page[b].shown /\ P.fetch = page[b].fetch
      /\ P.source = page[b].source /\ P.wire = Tail(page[b].wire)
      /\ P.timer = page[b].timer /\ P.online = page[b].online /\ P \in Page
  BY <1>1, <1>3 DEF Page
<1>5. /\ N.open = P.open /\ N.shown = r /\ N.fetch = P.fetch
      /\ N.source = P.source /\ N.wire = P.wire
      /\ N.timer = P.timer /\ N.online = P.online /\ N \in Page
  <2> HIDE DEF P, r
  <2>1. r \in Nat
    BY <1>3 DEF r
  <2> QED BY <1>4, <2>1 DEF Page
<1>6. page[b].fetch = <<"none">> /\ <<"none">>[1] # "got"
  BY <1>1 DEF PageGood
<1> HIDE DEF P, r, N
<1>7. PageGood(P, pos[b], head)
  BY <1>1, <1>3, <1>4 DEF PageGood
<1>8. PageGood(N, pos[b], head)
  BY <1>1, <1>3, <1>4, <1>5, <1>6 DEF PageGood
<1>9. CASE r <= P.shown
  <2>1. Turns(b, P) /\ P.shown >= page[b].shown
    BY <1>1, <1>2, <1>4, <1>9
  <2> QED BY <1>1, <1>4, <1>7, <2>1, TurnIsGood
<1>10. CASE ~(r <= P.shown) /\ r = P.shown + 1
  <2>1. Turns(b, N) /\ N.shown >= page[b].shown
    BY <1>1, <1>2, <1>4, <1>5, <1>10
  <2> QED BY <1>1, <1>4, <1>5, <1>8, <2>1, TurnIsGood
<1>11. CASE ~(r <= P.shown) /\ r # P.shown + 1
  <2>1. Turns(b, Refreshed(P))
    BY <1>2, <1>11
  <2>2. /\ PageGood(Refreshed(P), Away, head)
        /\ Refreshed(P).shown = P.shown /\ Refreshed(P).source = FALSE
    BY <1>1, <1>4, RefreshedIsGood
  <2>3. Refreshed(P).shown >= page[b].shown
    BY <1>1, <1>4, <2>2
  <2> QED BY <2>1, <2>2, <2>3, TurnIsGood
<1> QED
  BY <1>9, <1>10, <1>11

\* The page starts over, from wherever it stands.
LEMMA StartingOverIsGood ==
    ASSUME PageInv, NEW b \in Reader, NEW P \in Page, P.open, P.shown = page[b].shown,
           Turns(b, Refreshed(P))
    PROVE  Good
<1>1. page[b].shown \in Int /\ page[b].shown <= head /\ head \in Nat
  BY PageParts
<1>2. /\ PageGood(Refreshed(P), Away, head)
      /\ Refreshed(P).shown = P.shown /\ Refreshed(P).source = FALSE
  BY <1>1, RefreshedIsGood
<1>3. Refreshed(P).shown >= page[b].shown
  BY <1>1, <1>2
<1> QED
  BY <1>2, <1>3, TurnIsGood

LEMMA EndingArrivesIsGood ==
    ASSUME PageInv, NEW b \in Reader, EndingArrives(b) PROVE Good
<1>1. /\ page[b] \in Page /\ PageGood(page[b], pos[b], head) /\ page[b].shown \in Int
      /\ page[b].shown <= head /\ head \in Nat /\ page[b].open
      /\ (page[b].fetch[1] = "got" =>
            page[b].shown <= page[b].fetch[2] /\ page[b].fetch[2] <= head)
  BY PageParts DEF EndingArrives
<1>2. CASE page[b].ending = "resync"
  BY <1>1, <1>2, StartingOverIsGood DEF EndingArrives
<1>3. CASE page[b].ending # "resync"
  <2>1. Turns(b, Recovering(page[b]))
    BY <1>3 DEF EndingArrives
  <2>2. /\ PageGood(Recovering(page[b]), Away, head)
        /\ Recovering(page[b]).shown = page[b].shown /\ Recovering(page[b]).source = FALSE
    BY <1>1, RecoveringIsGood
  <2>3. Recovering(page[b]).shown >= page[b].shown
    BY <1>1, <2>2
  <2> QED BY <2>1, <2>2, <2>3, TurnIsGood
<1> QED
  BY <1>2, <1>3

LEMMA TimersAreGood ==
    ASSUME PageInv, NEW b \in Reader,
           RetryFires(b) \/ GoesOnline(b) \/ GoesOffline(b) \/ BecomesVisible(b)
    PROVE  Good
<1>1. page[b] \in Page /\ PageGood(page[b], pos[b], head) /\ page[b].shown \in Int
  BY PageParts
<1>2. CASE RetryFires(b) \/ BecomesVisible(b)
  <2>1. page[b].open
    BY <1>2, PageParts DEF RetryFires, BecomesVisible
  <2> QED BY <1>1, <1>2, <2>1, StartingOverIsGood DEF RetryFires, BecomesVisible
<1>3. CASE GoesOnline(b)
  <2> DEFINE P == [page[b] EXCEPT !.online = TRUE]
  <2>1. P \in Page /\ P.open = page[b].open /\ P.shown = page[b].shown
    BY <1>1 DEF Page
  <2>2. page[b].open /\ Turns(b, Refreshed(P))
    BY <1>3 DEF GoesOnline
  <2> HIDE DEF P
  <2> QED BY <2>1, <2>2, StartingOverIsGood
<1>4. CASE GoesOffline(b)
  <2> DEFINE O == [page[b] EXCEPT !.online = FALSE]
             P == NoSource(O)
  <2>1. /\ O \in Page /\ O.open = page[b].open /\ O.shown = page[b].shown
        /\ O.fetch = page[b].fetch /\ O.online = FALSE
    BY <1>1 DEF Page
  <2>2. page[b].open /\ Turns(b, P)
    BY <1>4 DEF GoesOffline
  <2> HIDE DEF O
  <2>3. /\ P \in Page /\ P.open = page[b].open /\ P.shown = page[b].shown
        /\ P.fetch = page[b].fetch /\ P.source = FALSE /\ P.wire = << >>
        /\ P.ending = "open" /\ P.online = FALSE
    BY <2>1, NoSourceIs
  <2>4. Len(<< >>) = 0
    OBVIOUS
  <2> HIDE DEF P
  <2>5. PageGood(P, Away, head)
    BY <1>1, <2>2, <2>3, <2>4, PageParts DEF PageGood, Away
  <2>6. P.shown >= page[b].shown
    BY <1>1, <2>3
  <2> QED BY <2>2, <2>3, <2>5, <2>6, TurnIsGood
<1> QED
  BY <1>2, <1>3, <1>4

\* The server publishes or withdraws, whatever the pages do.
LEMMA ServerMovesIsGood ==
    ASSUME PageInv, ServerMoves PROVE Good
<1>1. page' = page /\ pos' = pos /\ head' \in Nat /\ start' \in Nat /\ head <= head'
  BY DEF ServerMoves, Publish, Trim, PageInv
<1>2. ASSUME NEW c \in Reader PROVE PageGood(page[c], pos[c], head')
  <2>1. PageGood(page[c], pos[c], head) /\ page[c] \in Page
    BY PageParts
  <2>2. /\ pos[c] \in Int /\ pos[c] <= head /\ page[c].shown \in Int /\ page[c].shown <= head
        /\ (page[c].fetch[1] = "got" =>
                page[c].fetch[2] \in Nat /\ page[c].fetch[2] <= head)
        /\ \A i \in 1 .. Len(page[c].wire) : page[c].wire[i] \in Nat /\ page[c].wire[i] <= head
        /\ head \in Int
    BY PageParts
  <2>3. /\ pos[c] <= head' /\ page[c].shown <= head'
        /\ (page[c].fetch[1] = "got" => page[c].fetch[2] <= head')
        /\ \A i \in 1 .. Len(page[c].wire) : page[c].wire[i] <= head'
    BY <1>1, <2>2
  <2> QED BY <2>1, <2>3 DEF PageGood
<1>3. PageInv'
  <2>1. \A c \in Reader : PageGood(page[c], pos[c], head)'
    BY <1>1, <1>2 DEF PageGood, Page, Away
  <2> QED BY <1>1, <2>1 DEF PageInv, Away
<1>4. \A c \in Reader : page'[c].shown >= page[c].shown
  BY <1>1, PageParts
<1>5. Next
  BY DEF ServerMoves, Next
<1> QED
  BY <1>3, <1>4, <1>5 DEF Good

LEMMA BrowserStep ==
    ASSUME PageInv, BrowserNext PROVE Good
BY ServerMovesIsGood, SnapshotReadIsGood, FetchFailsIsGood, SnapshotArrivesIsGood,
   LateArrivesIsGood, ToldIsGood, StreamStopsIsGood, EventArrivesIsGood,
   EndingArrivesIsGood, TimersAreGood
   DEF BrowserNext

LEMMA BrowserStutters ==
    ASSUME PageInv, UNCHANGED browserVars PROVE Good
<1>1. page' = page /\ pos' = pos /\ head' = head /\ start' = start
  BY DEF browserVars, feedVars
<1>2. PageInv'
  <2>1. \A c \in Reader : PageGood(page[c], pos[c], head)'
    BY <1>1 DEF PageInv, PageGood, Page, Away
  <2> QED BY <1>1, <2>1 DEF PageInv, Away
<1>3. \A c \in Reader : page'[c].shown >= page[c].shown
  BY <1>1, PageParts
<1> QED
  BY <1>1, <1>2, <1>3 DEF Good, feedVars

LEMMA BrowserBegins == BrowserInit => PageInv
<1> SUFFICES ASSUME BrowserInit PROVE PageInv
  OBVIOUS
<1> DEFINE P == [open |-> FALSE, shown |-> -1, fetch |-> <<"none">>, late |-> {},
                 source |-> FALSE, wire |-> << >>, ending |-> "open",
                 timer |-> FALSE, online |-> TRUE]
<1>1. head = 1 /\ start = 0 /\ pos = [s \in Reader |-> Away] /\ page = [b \in Reader |-> P]
  BY DEF BrowserInit, Init
<1>2. << >> \in Seq(Nat) /\ Len(<< >>) = 0 /\ <<"none">>[1] # "got"
  OBVIOUS
<1>3. P \in Page
  BY <1>2 DEF Page
<1>4. PageGood(P, Away, 1)
  BY <1>2, <1>3 DEF PageGood, Away
<1> HIDE DEF P
<1> QED
  BY <1>1, <1>4 DEF PageInv, Away

-----------------------------------------------------------------------------
(* The visit.                                                               *)

VisitStep ==
    /\ StartInv'
    /\ Good

LEMMA EveryVisitStep ==
    ASSUME StartInv, PageInv, [VisitNext]_visitVars
    PROVE  VisitStep
<1>1. ASSUME NEW b \in Reader, Departs(b) PROVE VisitStep
  BY <1>1, VisitorSteps, LoadsIsGood DEF Departs, VisitStep
<1>2. CASE StartNext /\ view' # "gone" /\ UNCHANGED browserVars
  BY <1>2, StartStep, BrowserStutters DEF VisitStep
<1>3. CASE BrowserNext /\ UNCHANGED startVars
  BY <1>3, BrowserStep, StartStutters DEF VisitStep
<1>4. CASE UNCHANGED visitVars
  BY <1>4, StartStutters, BrowserStutters DEF VisitStep, visitVars
<1> QED
  BY <1>1, <1>2, <1>3, <1>4 DEF VisitNext

LEMMA VisitAlways == VisitSpec => [](StartInv /\ PageInv)
<1>1. VisitInit => StartInv /\ PageInv
  BY StartBegins, BrowserBegins DEF VisitInit
<1>2. StartInv /\ PageInv /\ [VisitNext]_visitVars => (StartInv /\ PageInv)'
  BY EveryVisitStep DEF VisitStep, Good
<1> QED
  BY <1>1, <1>2, PTL DEF VisitSpec

LEMMA InvariantsImply == StartInv /\ PageInv => VisitInv
<1> SUFFICES ASSUME StartInv, PageInv PROVE VisitInv
  OBVIOUS
<1>1. StartTypeOK /\ KeepsAsking
  BY DEF StartInv
<1>2. BrowserTypeOK
  BY DEF PageInv, PageGood, BrowserTypeOK
<1>3. NeverStranded
  BY DEF PageInv, PageGood, NeverStranded
<1> QED
  BY <1>1, <1>2, <1>3 DEF VisitInv

\* Through failed requests, late answers, restarts, ended streams and lost networks,
\* neither page ever waits for nothing (start.js schedulePoll, office.js
\* scheduleRecovery and recoverImmediately).
THEOREM NobodyIsStranded == VisitSpec => []VisitInv
<1> QED
  BY VisitAlways, InvariantsImply, PTL

\* A revision once shown is never replaced by an older one, whichever of snapshot,
\* late snapshot and event comes last (office.js refreshSnapshot and applyEvent).
THEOREM DisplayGoesOn == VisitSpec => DisplayNeverGoesBack
<1> DEFINE Forward == \A b \in Reader : page'[b].shown >= page[b].shown
<1>1. StartInv /\ PageInv /\ [VisitNext]_visitVars => Forward
  BY EveryVisitStep DEF VisitStep, Good
<1> HIDE DEF Forward
<1>2. StartInv /\ PageInv /\ [VisitNext]_visitVars => [Forward]_browserVars
  BY <1>1
<1>3. VisitSpec => [][Forward]_browserVars
  BY <1>2, VisitAlways, PTL DEF VisitSpec
<1> QED
  BY <1>3 DEF DisplayNeverGoesBack, Forward

\* To the server the page is a reader of OfficeFeed, which OfficeStream implements: it
\* joins with a revision that has been published, is told what follows it, and leaves.
THEOREM PageReadsTheFeed == VisitSpec => Spec
<1>1. VisitInit => Init
  BY DEF VisitInit, BrowserInit
<1>2. StartInv /\ PageInv /\ [VisitNext]_visitVars => [Next]_feedVars
  BY EveryVisitStep DEF VisitStep, Good
<1> QED
  BY <1>1, <1>2, VisitAlways, PTL DEF VisitSpec, Spec
=============================================================================
