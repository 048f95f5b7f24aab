-------------------------- MODULE Approval_proofs --------------------------
(***************************************************************************)
(* Proofs about Approval, for any number of tool calls, any window, and    *)
(* whether or not hooks time out by themselves, decisions come from        *)
(* elsewhere or the application ends: at most one decision of a request is *)
(* delivered, and hook, handler, map and bubble never contradict each      *)
(* other.                                                                  *)
(***************************************************************************)
EXTENDS Approval, SequenceTheorems, TLAPS

-----------------------------------------------------------------------------
(***************************************************************************)
(* The inductive invariant.                                                *)
(***************************************************************************)

\* The right to decide a request is in one place: the map, a resolve call that took it
\* from there, or the decision that was delivered.  It is issued with the registration.
Held(r) == \E c \in sending : c.id = r
Spent(r) == \E c \in told : c.id = r

TokenInv ==
    /\ \A r \in pending : ~Held(r) /\ ~Spent(r)
    /\ \A c, d \in sending : c.id = d.id => c = d
    /\ \A r \in Request : Held(r) => ~Spent(r)
    /\ \A c, d \in told : c.id = d.id => c = d
    /\ \A r \in Request : thread[r] \in {"none", "insert"} => r \notin pending /\ ~Held(r) /\ ~Spent(r)

\* A decision on its way to the hook is one that was delivered.
WayInv ==
    /\ \A r \in Request : channel[r] \in Decision => [id |-> r, decision |-> channel[r]] \in told
    /\ \A r \in Request : thread[r] \in Decision => [id |-> r, decision |-> thread[r]] \in told
    /\ \A r \in Request : hook[r] \in Decision => [id |-> r, decision |-> hook[r]] \in told

LifeInv ==
    /\ \A r \in Request : hook[r] = "idle" => thread[r] = "none"
    /\ PendingIsServed

\* The bubble has this request, on screen or queued.
Queued(q, r) == \E i \in 1..Len(q) : q[i] = r
Shown(r) == cur = r \/ Queued(queue, r)

\* The window is about to hear that this request is asked, or done.
Asks(n, r) == events[n] = [tell |-> "ask", id |-> r]
Dones(n, r) == events[n] = [tell |-> "done", id |-> r]
Asked(r) == \E n \in 1..Len(events) : Asks(n, r)
Done(r) == \E n \in 1..Len(events) : Dones(n, r)

\* It hears once that a request is asked, later that it is done, and of one that is gone
\* it has heard or will hear the latter.
EventInv ==
    \A r \in Request :
        /\ thread[r] \in {"none", "insert"} => ~Shown(r) /\ ~Asked(r)
        /\ Asked(r) => ~Shown(r)
        /\ Done(r) => thread[r] = "gone"
        /\ (Shown(r) \/ Asked(r)) /\ thread[r] = "gone" => Done(r)
        /\ \A m, n \in 1..Len(events) : /\ Asks(m, r) /\ Asks(n, r) => m = n
                                        /\ Asks(m, r) /\ Dones(n, r) => m < n

\* No request is queued twice, or queued and on screen.
Distinct(q) == \A i, j \in 1..Len(q) : q[i] = q[j] => i = j
QueueInv == Distinct(queue) /\ \A r \in Request : cur = r => ~Queued(queue, r)

Event == [tell : {"ask", "done"}, id : Request]
Choice == [id : Request, decision : Decision]

AInv ==
    /\ ApprovalTypeOK
    /\ events \in Seq(Event)
    /\ TokenInv
    /\ WayInv
    /\ LifeInv
    /\ EventInv
    /\ QueueInv

-----------------------------------------------------------------------------
(***************************************************************************)
(* Queues.                                                                 *)
(***************************************************************************)

LEMMA NoneFacts == None \notin Request /\ None \notin Decision
BY ApprovalAssumption DEF None, Decision

LEMMA WindowFacts == Window \in Nat /\ Margin \in 1..Window /\ Window - Margin \in 0..Window
BY ApprovalAssumption

LEMMA AppendFacts ==
    ASSUME NEW S, NEW s \in Seq(S), NEW e \in S
    PROVE  /\ Append(s, e) \in Seq(S) /\ Len(Append(s, e)) = Len(s) + 1 /\ Len(s) \in Nat
           /\ \A n \in 1..Len(s) : Append(s, e)[n] = s[n]
           /\ Append(s, e)[Len(s) + 1] = e
OBVIOUS

LEMMA TailFacts ==
    ASSUME NEW S, NEW s \in Seq(S), s # << >>
    PROVE  /\ Tail(s) \in Seq(S) /\ Len(Tail(s)) = Len(s) - 1 /\ Len(s) \in Nat \ {0}
           /\ \A n \in 1..Len(Tail(s)) : Tail(s)[n] = s[n + 1]
           /\ Head(s) = s[1] /\ Head(s) \in S
OBVIOUS

LEMMA ConcatFacts ==
    ASSUME NEW S, NEW a \in Seq(S), NEW b \in Seq(S)
    PROVE  /\ a \o b \in Seq(S) /\ Len(a \o b) = Len(a) + Len(b)
           /\ \A n \in 1..Len(a) + Len(b) :
                 (a \o b)[n] = IF n <= Len(a) THEN a[n] ELSE b[n - Len(a)]
OBVIOUS

\* splice: what findIndex found goes, the rest keeps its order.
LEMMA SpliceFacts ==
    ASSUME NEW s \in Seq(Request), NEW i \in 1..Len(s)
    PROVE  /\ RemoveAt(s, i) \in Seq(Request)
           /\ Len(RemoveAt(s, i)) = Len(s) - 1
           /\ \A n \in 1..Len(s) - 1 : RemoveAt(s, i)[n] = IF n < i THEN s[n] ELSE s[n + 1]
<1>1. /\ Len(s) \in Nat /\ i \in Nat
  OBVIOUS
<1>2. /\ SubSeq(s, 1, i - 1) \in Seq(Request) /\ Len(SubSeq(s, 1, i - 1)) = i - 1
      /\ \A n \in 1..i - 1 : SubSeq(s, 1, i - 1)[n] = s[n]
  BY <1>1
<1>3. /\ SubSeq(s, i + 1, Len(s)) \in Seq(Request) /\ Len(SubSeq(s, i + 1, Len(s))) = Len(s) - i
      /\ \A n \in 1..Len(s) - i : SubSeq(s, i + 1, Len(s))[n] = s[n + i]
  BY <1>1
<1> DEFINE a == SubSeq(s, 1, i - 1)
           b == SubSeq(s, i + 1, Len(s))
<1>4. RemoveAt(s, i) = a \o b
  BY DEF RemoveAt
<1>5. /\ a \in Seq(Request) /\ Len(a) = i - 1 /\ \A n \in 1..i - 1 : a[n] = s[n]
      /\ b \in Seq(Request) /\ Len(b) = Len(s) - i
      /\ \A n \in 1..Len(s) - i : b[n] = s[n + i]
  BY <1>2, <1>3
<1> HIDE DEF a, b
<1>6. /\ a \o b \in Seq(Request) /\ Len(a \o b) = Len(s) - 1
      /\ \A n \in 1..Len(s) - 1 : (a \o b)[n] = IF n <= Len(a) THEN a[n] ELSE b[n - Len(a)]
  <2>1. /\ a \o b \in Seq(Request) /\ Len(a \o b) = Len(a) + Len(b)
        /\ \A n \in 1..Len(a) + Len(b) :
              (a \o b)[n] = IF n <= Len(a) THEN a[n] ELSE b[n - Len(a)]
    BY <1>5, ConcatFacts
  <2>2. Len(a) + Len(b) = Len(s) - 1
    BY <1>1, <1>5
  <2> QED
    BY <2>1, <2>2
<1>7. ASSUME NEW n \in 1..Len(s) - 1
      PROVE  (a \o b)[n] = IF n < i THEN s[n] ELSE s[n + 1]
  <2>1. CASE n < i
    BY <1>1, <1>5, <1>6, <2>1
  <2>2. CASE n >= i
    <3>1. n - (i - 1) \in 1..Len(s) - i /\ (n - (i - 1)) + i = n + 1
      BY <1>1, <2>2
    <3>2. (a \o b)[n] = b[n - (i - 1)]
      BY <1>1, <1>5, <1>6, <2>2
    <3> QED
      BY <1>1, <1>5, <2>2, <3>1, <3>2
  <2>3. n < i \/ n >= i
    BY <1>1
  <2> QED
    BY <2>1, <2>2, <2>3
<1> QED
  BY <1>4, <1>6, <1>7

LEMMA RemoveFirstFacts ==
    ASSUME NEW s \in Seq(Request), Distinct(s), NEW r \in Request
    PROVE  /\ RemoveFirst(s, r) \in Seq(Request)
           /\ Distinct(RemoveFirst(s, r))
           /\ \A q \in Request : Queued(RemoveFirst(s, r), q) <=> Queued(s, q) /\ q # r
<1>1. CASE ~Queued(s, r)
  BY <1>1 DEF RemoveFirst, Queued
<1>2. ASSUME NEW i \in 1..Len(s), s[i] = r
      PROVE  /\ RemoveFirst(s, r) \in Seq(Request)
             /\ Distinct(RemoveFirst(s, r))
             /\ \A q \in Request : Queued(RemoveFirst(s, r), q) <=> Queued(s, q) /\ q # r
  <2>1. {j \in 1..Len(s) : s[j] = r} = {i}
    BY <1>2 DEF Distinct
  <2>2. Min({i}) = i
    BY DEF Min
  <2>3. RemoveFirst(s, r) = RemoveAt(s, i)
    BY <1>2, <2>1, <2>2 DEF RemoveFirst, SelectInSeq
  <2> DEFINE t == RemoveAt(s, i)
  <2>4. /\ t \in Seq(Request) /\ Len(t) = Len(s) - 1 /\ Len(s) \in Nat
        /\ \A n \in 1..Len(s) - 1 : t[n] = IF n < i THEN s[n] ELSE s[n + 1]
    BY SpliceFacts
  <2> HIDE DEF t
  <2>5. Distinct(t)
    BY <2>4 DEF Distinct
  <2>6. ASSUME NEW n \in 1..Len(t)
        PROVE  t[n] # r /\ \E j \in 1..Len(s) : s[j] = t[n]
    BY <1>2, <2>4 DEF Distinct
  <2>7. ASSUME NEW j \in 1..Len(s), s[j] # r
        PROVE  \E n \in 1..Len(t) : t[n] = s[j]
    <3>1. CASE j < i
      BY <2>4, <3>1
    <3>2. CASE j > i
      <4>1. j - 1 \in 1..Len(s) - 1 /\ ~(j - 1 < i) /\ (j - 1) + 1 = j
        BY <2>4, <3>2
      <4>2. t[j - 1] = s[j]
        BY <2>4, <4>1
      <4> QED
        BY <2>4, <4>1, <4>2
    <3> QED
      BY <1>2, <2>4, <2>7, <3>1, <3>2
  <2>8. \A q \in Request : Queued(t, q) <=> Queued(s, q) /\ q # r
    BY <2>6, <2>7 DEF Queued
  <2> QED
    BY <2>3, <2>4, <2>5, <2>8 DEF t
<1> QED
  BY <1>1, <1>2 DEF Queued

\* renderApproval shows the first of the queue and keeps all it has.
LEMMA RenderFacts ==
    ASSUME NEW q \in Seq(Request), Distinct(q), Render(q)
    PROVE  /\ queue' \in Seq(Request) /\ cur' \in Request \cup {None} /\ left' \in 0..Window
           /\ QueueInv'
           /\ \A r \in Request : Shown(r)' <=> Queued(q, r)
<1> USE NoneFacts, WindowFacts
<1>1. CASE q = << >>
  BY <1>1 DEF Render, QueueInv, Distinct, Shown, Queued
<1>2. CASE q # << >>
  <2>1. queue' = Tail(q) /\ cur' = Head(q) /\ left' = Window - Margin
    BY <1>2 DEF Render
  <2>2. /\ queue' \in Seq(Request) /\ Len(queue') = Len(q) - 1 /\ Len(q) \in Nat \ {0}
        /\ \A n \in 1..Len(queue') : queue'[n] = q[n + 1]
        /\ cur' = q[1] /\ cur' \in Request
    BY <1>2, <2>1, TailFacts
  <2>3. Distinct(queue') /\ ~Queued(queue', cur')
    BY <2>2 DEF Distinct, Queued
  <2>4. ASSUME NEW r \in Request
        PROVE  Shown(r)' <=> Queued(q, r)
    <3>1. ASSUME NEW i \in 1..Len(q), q[i] = r
          PROVE  Shown(r)'
      <4>1. CASE i = 1
        BY <2>2, <3>1, <4>1 DEF Shown
      <4>2. CASE i # 1
        <5>1. i - 1 \in 1..Len(queue') /\ queue'[i - 1] = r
          BY <2>2, <3>1, <4>2
        <5> QED
          BY <5>1 DEF Shown, Queued
      <4> QED
        BY <4>1, <4>2
    <3>2. Shown(r)' => Queued(q, r)
      BY <2>2 DEF Shown, Queued
    <3> QED
      BY <3>1, <3>2 DEF Queued
  <2> QED
    BY <2>1, <2>2, <2>3, <2>4 DEF QueueInv
<1> QED
  BY <1>1, <1>2

-----------------------------------------------------------------------------
(***************************************************************************)
(* The bubble is not concerned by a step that neither tells it anything    *)
(* nor ends a request; the token by one that touches neither map nor       *)
(* resolve.                                                                *)
(***************************************************************************)

LEMMA BubbleStays ==
    ASSUME AInv, UNCHANGED <<events, queue, cur>>,
           \A r \in Request : /\ thread'[r] \in {"none", "insert"} => thread[r] \in {"none", "insert"}
                              /\ thread'[r] = "gone" <=> thread[r] = "gone"
    PROVE  events' \in Seq(Event) /\ EventInv' /\ QueueInv'
<1>1. events' \in Seq(Event)
  BY DEF AInv
<1>2. \A r \in Request : /\ Shown(r)' <=> Shown(r)
                         /\ Asked(r)' <=> Asked(r)
                         /\ Done(r)' <=> Done(r)
  BY DEF Shown, Asked, Done, Asks, Dones
<1>3. EventInv'
  BY <1>2 DEF AInv, EventInv, Asks, Dones
<1>4. QueueInv'
  BY DEF AInv, QueueInv
<1> QED
  BY <1>1, <1>3, <1>4

LEMMA TokenStays ==
    ASSUME AInv, UNCHANGED <<pending, sending, told>>,
           \A r \in Request : thread'[r] \in {"none", "insert"} => thread[r] \in {"none", "insert"}
    PROVE  TokenInv'
BY DEF AInv, TokenInv, Held, Spent, ApprovalTypeOK

-----------------------------------------------------------------------------
(***************************************************************************)
(* Hooks and handlers.                                                     *)
(***************************************************************************)

LEMMA AskStep ==
    ASSUME AInv, NEW r \in Request, Ask(r)
    PROVE  AInv'
<1> USE NoneFacts DEF AInv
<1>1. /\ hook[r] = "idle" /\ hook' = [hook EXCEPT ![r] = "waiting"]
      /\ thread[r] = "none" /\ thread' = [thread EXCEPT ![r] = "insert"]
      /\ UNCHANGED <<pending, channel, sending, clicks, events, queue, cur, left, age, told>>
  BY DEF Ask, Set, LifeInv, window
<1>2. ApprovalTypeOK'
  BY <1>1 DEF ApprovalTypeOK
<1>3. events' \in Seq(Event) /\ EventInv' /\ QueueInv'
  BY <1>1, BubbleStays DEF ApprovalTypeOK
<1>4. TokenInv'
  BY <1>1, TokenStays DEF ApprovalTypeOK
<1>5. WayInv' /\ LifeInv'
  BY <1>1 DEF WayInv, LifeInv, PendingIsServed, TokenInv, ApprovalTypeOK, Decision
<1> QED
  BY <1>2, <1>3, <1>4, <1>5

LEMMA HookTimesOutStep ==
    ASSUME AInv, NEW r \in Request, HookTimesOut(r)
    PROVE  AInv'
<1> USE NoneFacts DEF AInv
<1>1. /\ hook' = [hook EXCEPT ![r] = "nothing"]
      /\ UNCHANGED <<thread, pending, channel, sending, clicks, events, queue, cur, left, age, told>>
  BY DEF HookTimesOut, Set, window, app
<1>2. ApprovalTypeOK'
  BY <1>1 DEF ApprovalTypeOK
<1>3. events' \in Seq(Event) /\ EventInv' /\ QueueInv' /\ TokenInv'
  BY <1>1, BubbleStays, TokenStays
<1>4. WayInv' /\ LifeInv'
  BY <1>1 DEF WayInv, LifeInv, PendingIsServed, ApprovalTypeOK, Decision
<1> QED
  BY <1>2, <1>3, <1>4

LEMMA ReceiveStep ==
    ASSUME AInv, NEW r \in Request, Receive(r)
    PROVE  AInv'
<1> USE NoneFacts DEF AInv
<1>1. /\ thread[r] = "waiting"
      /\ UNCHANGED <<hook, pending, sending, clicks, events, queue, cur, left, age, told>>
      /\ channel' = [channel EXCEPT ![r] = None]
  BY DEF Receive, Set, window
<1>2. \/ channel[r] \in Decision /\ thread' = [thread EXCEPT ![r] = channel[r]]
      \/ thread' = [thread EXCEPT ![r] = "timeout"]
  BY DEF Receive, Set, ApprovalTypeOK
<1>3. ApprovalTypeOK'
  BY <1>1, <1>2 DEF ApprovalTypeOK
<1>4. \A s \in Request : /\ thread'[s] \in {"none", "insert"} => thread[s] \in {"none", "insert"}
                         /\ thread'[s] = "gone" <=> thread[s] = "gone"
  BY <1>1, <1>2 DEF ApprovalTypeOK, Decision
<1>5. events' \in Seq(Event) /\ EventInv' /\ QueueInv' /\ TokenInv'
  BY <1>1, <1>4, BubbleStays, TokenStays
<1>6. WayInv'
  BY <1>1, <1>2 DEF WayInv, ApprovalTypeOK, Decision
<1>7. LifeInv'
  BY <1>1, <1>2 DEF LifeInv, PendingIsServed, ApprovalTypeOK, Decision
<1> QED
  BY <1>3, <1>5, <1>6, <1>7

\* What is appended to the events is heard after everything there is.
LEMMA AppendEvent ==
    ASSUME AInv, NEW e \in Event, events' = Append(events, e)
    PROVE  /\ events' \in Seq(Event)
           /\ Len(events) \in Nat /\ Len(events') = Len(events) + 1
           /\ \A n \in 1..Len(events') :
                 \/ n \in 1..Len(events) /\ events'[n] = events[n]
                 \/ n = Len(events) + 1 /\ events'[n] = e
           /\ \A n \in 1..Len(events) : n \in 1..Len(events') /\ events'[n] = events[n]
           /\ events'[Len(events) + 1] = e /\ Len(events) + 1 \in 1..Len(events')
<1>1. events \in Seq(Event)
  BY DEF AInv
<1>2. /\ events' \in Seq(Event) /\ Len(events') = Len(events) + 1 /\ Len(events) \in Nat
      /\ \A n \in 1..Len(events) : events'[n] = events[n]
      /\ events'[Len(events) + 1] = e
  BY <1>1, AppendFacts
<1> QED
  BY <1>2

LEMMA RegisterStep ==
    ASSUME AInv, NEW r \in Request, Register(r)
    PROVE  AInv'
<1> USE NoneFacts DEF AInv
<1> DEFINE e == [tell |-> "ask", id |-> r]
<1>1. /\ thread[r] = "insert" /\ thread' = [thread EXCEPT ![r] = "waiting"]
      /\ pending' = pending \cup {r} /\ events' = Append(events, e)
      /\ age' = [age EXCEPT ![r] = 0]
      /\ UNCHANGED <<hook, channel, sending, clicks, queue, cur, left, told>>
  BY DEF Register, Set, window
<1>2. ApprovalTypeOK'
  BY <1>1, WindowFacts DEF ApprovalTypeOK
<1>3. TokenInv'
  BY <1>1 DEF TokenInv, Held, Spent, ApprovalTypeOK
<1>4. WayInv' /\ LifeInv'
  BY <1>1 DEF WayInv, LifeInv, PendingIsServed, ApprovalTypeOK, Decision
<1>5. e \in Event
  BY DEF Event
<1>6. QueueInv'
  BY <1>1 DEF QueueInv
<1>7. EventInv'
  <2>1. ~Shown(r) /\ ~Asked(r)
    BY <1>1 DEF EventInv
  <2>2. \A s \in Request : Shown(s)' <=> Shown(s)
    BY <1>1 DEF Shown
  <2>3. \A s \in Request : /\ Done(s)' <=> Done(s)
                           /\ Asked(s)' <=> Asked(s) \/ s = r
    BY <1>1, <1>5, AppendEvent DEF Done, Asked, Asks, Dones
  <2>4. ASSUME NEW s \in Request, NEW m \in 1..Len(events'), NEW n \in 1..Len(events')
        PROVE  /\ Asks(m, s)' /\ Asks(n, s)' => m = n
               /\ Asks(m, s)' /\ Dones(n, s)' => m < n
    <3>1. ~Done(r)
      BY <1>1 DEF EventInv
    <3>2. CASE s = r
      <4>1. ~Dones(n, r)'
        BY <1>1, <1>5, <3>1, AppendEvent DEF Done, Dones
      <4>2. \A k \in 1..Len(events') : Asks(k, r)' => k = Len(events) + 1
        BY <1>1, <1>5, <2>1, AppendEvent DEF Asked, Asks
      <4> QED
        BY <3>2, <4>1, <4>2
    <3>3. CASE s # r
      <4>1. \A k \in 1..Len(events') : Asks(k, s)' => k \in 1..Len(events) /\ Asks(k, s)
        BY <1>1, <1>5, <3>3, AppendEvent DEF Asks
      <4>2. \A k \in 1..Len(events') : Dones(k, s)' => k \in 1..Len(events) /\ Dones(k, s)
        BY <1>1, <1>5, AppendEvent DEF Dones
      <4> QED
        BY <4>1, <4>2 DEF EventInv
    <3> QED
      BY <3>2, <3>3
  <2>5. \A s \in Request : s # r => thread'[s] = thread[s]
    BY <1>1 DEF ApprovalTypeOK
  <2>6. thread'[r] = "waiting"
    BY <1>1 DEF ApprovalTypeOK
  <2> QED
    BY <1>1, <2>1, <2>2, <2>3, <2>4, <2>5, <2>6 DEF EventInv
<1> QED
  BY <1>1, <1>2, <1>3, <1>4, <1>5, <1>6, <1>7, AppendEvent

LEMMA AnswerStep ==
    ASSUME AInv, NEW r \in Request, Answer(r)
    PROVE  AInv'
<1> USE NoneFacts DEF AInv
<1> DEFINE e == [tell |-> "done", id |-> r]
<1>1. /\ thread[r] \in Decision \cup {"timeout"} /\ thread' = [thread EXCEPT ![r] = "gone"]
      /\ pending' = pending \ {r} /\ events' = Append(events, e)
      /\ hook' = IF hook[r] = "waiting" THEN [hook EXCEPT ![r] = Printed(thread[r])] ELSE hook
      /\ UNCHANGED <<channel, sending, clicks, queue, cur, left, age, told>>
  BY DEF Answer, Answered, Set, window
<1>2. /\ Printed(thread[r]) \in {"nothing"} \cup Decision
      /\ Printed(thread[r]) \in Decision => Printed(thread[r]) = thread[r]
  BY DEF Printed, Decision
<1>3. /\ hook' \in [Request -> {"idle", "waiting", "nothing"} \cup Decision]
      /\ \A s \in Request : /\ hook'[s] = "idle" => hook[s] = "idle" /\ (s = r => FALSE)
                            /\ \/ hook'[s] = hook[s]
                               \/ s = r /\ hook'[s] = Printed(thread[r])
  <2>1. hook[r] # "idle"
    BY <1>1 DEF LifeInv, Decision
  <2>2. CASE hook[r] = "waiting"
    BY <1>1, <1>2, <2>1, <2>2 DEF ApprovalTypeOK, Decision
  <2>3. CASE hook[r] # "waiting"
    BY <1>1, <2>1, <2>3 DEF ApprovalTypeOK
  <2> QED
    BY <2>2, <2>3
<1>4. ApprovalTypeOK'
  BY <1>1, <1>3 DEF ApprovalTypeOK
<1>5. TokenInv'
  BY <1>1 DEF TokenInv, Held, Spent, ApprovalTypeOK
<1>6. WayInv'
  BY <1>1, <1>2, <1>3 DEF WayInv, ApprovalTypeOK, Decision
<1>7. LifeInv'
  BY <1>1, <1>3 DEF LifeInv, PendingIsServed, ApprovalTypeOK
<1>8. e \in Event
  BY DEF Event
<1>9. QueueInv'
  BY <1>1 DEF QueueInv
<1>10. EventInv'
  <2>1. \A s \in Request : Shown(s)' <=> Shown(s)
    BY <1>1 DEF Shown
  <2>2. \A s \in Request : /\ Done(s)' <=> Done(s) \/ s = r
                           /\ Asked(s)' <=> Asked(s)
    BY <1>1, <1>8, AppendEvent DEF Done, Asked, Asks, Dones
  <2>3. ASSUME NEW s \in Request, NEW m \in 1..Len(events'), NEW n \in 1..Len(events')
        PROVE  /\ Asks(m, s)' /\ Asks(n, s)' => m = n
               /\ Asks(m, s)' /\ Dones(n, s)' => m < n
    <3>1. \A k \in 1..Len(events') : Asks(k, s)' => k \in 1..Len(events) /\ Asks(k, s)
      BY <1>1, <1>8, AppendEvent DEF Asks
    <3>2. \A k \in 1..Len(events') : Dones(k, s)' => \/ k \in 1..Len(events) /\ Dones(k, s)
                                                     \/ k = Len(events) + 1
      BY <1>1, <1>8, AppendEvent DEF Dones
    <3>3. Len(events) \in Nat
      BY <1>1, <1>8, AppendEvent
    <3> QED
      BY <3>1, <3>2, <3>3 DEF EventInv
  <2>4. /\ \A s \in Request : s # r => thread'[s] = thread[s]
        /\ thread'[r] = "gone" /\ thread[r] \notin {"none", "insert"}
    BY <1>1 DEF ApprovalTypeOK, Decision
  <2> QED
    BY <2>1, <2>2, <2>3, <2>4 DEF EventInv
<1> QED
  BY <1>1, <1>4, <1>5, <1>6, <1>7, <1>8, <1>9, <1>10, AppendEvent

-----------------------------------------------------------------------------
(***************************************************************************)
(* resolve: the token goes from the map to the call, and from the call to  *)
(* what was delivered.                                                     *)
(***************************************************************************)

LEMMA TakeSenderStep ==
    ASSUME AInv, NEW c \in clicks, TakeSender(c)
    PROVE  AInv'
<1> USE NoneFacts DEF AInv
<1>1. /\ clicks' = clicks \ {c} /\ pending' = pending \ {c.id}
      /\ \/ c.id \in pending /\ sending' = sending \cup {c}
         \/ c.id \notin pending /\ sending' = sending
      /\ UNCHANGED <<hook, thread, channel, events, queue, cur, left, age, told>>
  BY DEF TakeSender, window
<1>2. c \in Choice /\ c.id \in Request
  BY DEF ApprovalTypeOK, Choice
<1>3. ApprovalTypeOK'
  BY <1>1, <1>2 DEF ApprovalTypeOK, Choice
<1>4. events' \in Seq(Event) /\ EventInv' /\ QueueInv'
  BY <1>1, BubbleStays
<1>5. TokenInv'
  BY <1>1, <1>2 DEF TokenInv, Held, Spent
<1>6. WayInv' /\ LifeInv'
  BY <1>1 DEF WayInv, LifeInv, PendingIsServed
<1> QED
  BY <1>3, <1>4, <1>5, <1>6

LEMMA SendStep ==
    ASSUME AInv, NEW c \in sending, Send(c)
    PROVE  AInv'
<1> USE NoneFacts DEF AInv
<1>1. /\ sending' = sending \ {c}
      /\ UNCHANGED <<hook, thread, pending, clicks, events, queue, cur, left, age>>
      /\ \/ UNCHANGED <<channel, told>>
         \/ channel' = [channel EXCEPT ![c.id] = c.decision] /\ told' = told \cup {c}
  BY DEF Send, Set, window
<1>2. /\ c \in Choice /\ c.id \in Request /\ c.decision \in Decision
      /\ c = [id |-> c.id, decision |-> c.decision]
  BY DEF ApprovalTypeOK, Choice
<1>3. ApprovalTypeOK'
  BY <1>1, <1>2 DEF ApprovalTypeOK, Choice
<1>4. events' \in Seq(Event) /\ EventInv' /\ QueueInv'
  BY <1>1, BubbleStays
<1>5. TokenInv'
  BY <1>1, <1>2 DEF TokenInv, Held, Spent
<1>6. WayInv'
  BY <1>1, <1>2 DEF WayInv, ApprovalTypeOK
<1>7. LifeInv'
  BY <1>1 DEF LifeInv, PendingIsServed
<1> QED
  BY <1>3, <1>4, <1>5, <1>6, <1>7

-----------------------------------------------------------------------------
(***************************************************************************)
(* The bubble.                                                             *)
(***************************************************************************)

\* A step of the window changes nothing of hooks, handlers and map.
LEMMA AppStays ==
    ASSUME AInv, UNCHANGED <<hook, app, told>>
    PROVE  TokenInv' /\ WayInv' /\ LifeInv'
BY DEF AInv, TokenInv, WayInv, LifeInv, PendingIsServed, Held, Spent, app

LEMMA WindowHearsStep ==
    ASSUME AInv, WindowHears
    PROVE  AInv'
<1> USE NoneFacts DEF AInv
<1> DEFINE e == events[1]
           r == e.id
<1>1. /\ events # << >> /\ events' = Tail(events)
      /\ UNCHANGED <<hook, thread, pending, channel, sending, clicks, age, told>>
      /\ \/ Head(events).tell = "ask" /\ Announced(Append(queue, Head(events).id))
         \/ Head(events).tell = "done" /\ Closed(Head(events).id)
  BY DEF WindowHears, app
<1>2. /\ events' \in Seq(Event) /\ Len(events') = Len(events) - 1 /\ Len(events) \in Nat \ {0}
      /\ \A n \in 1..Len(events') : n + 1 \in 1..Len(events) /\ events'[n] = events[n + 1]
      /\ Head(events) = e /\ e \in Event
  <2>1. events \in Seq(Event) /\ events # << >>
    BY <1>1
  <2> QED
    BY <1>1, <2>1, TailFacts
<1>3. r \in Request /\ e = [tell |-> e.tell, id |-> r] /\ 1 \in 1..Len(events)
  BY <1>2 DEF Event
<1>4. queue \in Seq(Request) /\ Distinct(queue)
  BY DEF ApprovalTypeOK, QueueInv
<1>5. \A s \in Request : cur = s => ~Queued(queue, s)
  BY DEF QueueInv
\* What the window makes of it.
<1>6. CASE e.tell = "ask"
  <2>1. ~Shown(r)
    BY <1>3, <1>6 DEF EventInv, Asked, Asks
  <2>2. Announced(Append(queue, r))
    BY <1>1, <1>2, <1>6
  <2> DEFINE q == Append(queue, r)
  <2>3. /\ q \in Seq(Request) /\ Len(q) = Len(queue) + 1 /\ Len(queue) \in Nat
        /\ \A n \in 1..Len(queue) : q[n] = queue[n]
        /\ q[Len(queue) + 1] = r
    BY <1>3, <1>4, AppendFacts
  <2> HIDE DEF q
  <2>4. Distinct(q)
    BY <1>4, <2>1, <2>3 DEF Distinct, Shown, Queued
  <2>5. \A s \in Request : Queued(q, s) <=> Queued(queue, s) \/ s = r
    BY <2>3 DEF Queued
  <2>6. /\ queue' \in Seq(Request) /\ cur' \in Request \cup {None} /\ left' \in 0..Window
        /\ QueueInv'
        /\ \A s \in Request : Shown(s)' <=> Shown(s) \/ s = r
    <3>1. CASE cur = None
      <4>1. Render(q)
        BY <2>2, <3>1 DEF Announced, q
      <4> QED
        BY <2>3, <2>4, <2>5, <3>1, <4>1, RenderFacts DEF Shown
    <3>2. CASE cur # None
      <4>1. queue' = q /\ cur' = cur /\ left' = left
        BY <2>2, <3>2 DEF Announced, q
      <4> QED
        BY <1>5, <2>1, <2>3, <2>4, <2>5, <4>1 DEF Shown, QueueInv, ApprovalTypeOK
    <3> QED
      BY <3>1, <3>2
  <2>7. \A s \in Request, n \in 1..Len(events') :
           /\ Asks(n, s)' <=> Asks(n + 1, s)
           /\ Dones(n, s)' <=> Dones(n + 1, s)
    BY <1>2 DEF Asks, Dones
  <2>8. \A s \in Request : /\ Done(s)' <=> Done(s)
                           /\ Asked(s)' <=> Asked(s) /\ s # r
    <3> SUFFICES ASSUME NEW s \in Request
                 PROVE  /\ Done(s)' <=> Done(s)
                        /\ Asked(s)' <=> Asked(s) /\ s # r
      OBVIOUS
    <3>1. ~Dones(1, s) /\ Asks(1, r) /\ (Asks(1, s) => s = r)
      BY <1>3, <1>6 DEF Dones, Asks
    <3>2. \A n \in 1..Len(events) : n # 1 => n - 1 \in 1..Len(events') /\ (n - 1) + 1 = n
      BY <1>2
    <3>3. Done(s)' => Done(s)
      BY <1>2, <2>7 DEF Done
    <3>4. ASSUME NEW n \in 1..Len(events), Dones(n, s)
          PROVE  Done(s)'
      <4>1. n - 1 \in 1..Len(events') /\ (n - 1) + 1 = n
        BY <3>1, <3>2, <3>4
      <4>2. Dones(n - 1, s)'
        BY <2>7, <3>4, <4>1
      <4> QED
        BY <4>1, <4>2 DEF Done
    <3>5. Asked(s)' => Asked(s) /\ s # r
      <4> SUFFICES ASSUME NEW n \in 1..Len(events'), Asks(n, s)'
                   PROVE  Asked(s) /\ s # r
        BY DEF Asked
      <4>1. n + 1 \in 1..Len(events) /\ Asks(n + 1, s) /\ n + 1 # 1
        BY <1>2, <2>7
      <4> QED
        BY <1>3, <3>1, <4>1 DEF Asked, EventInv
    <3>6. ASSUME NEW n \in 1..Len(events), Asks(n, s), s # r
          PROVE  Asked(s)'
      <4>1. n - 1 \in 1..Len(events') /\ (n - 1) + 1 = n
        BY <3>1, <3>2, <3>6
      <4>2. Asks(n - 1, s)'
        BY <2>7, <3>6, <4>1
      <4> QED
        BY <4>1, <4>2 DEF Asked
    <3> QED
      BY <3>3, <3>4, <3>5, <3>6 DEF Done, Asked
  <2>9. EventInv'
    <3> SUFFICES ASSUME NEW s \in Request
                 PROVE  /\ thread[s] \in {"none", "insert"} => ~Shown(s)' /\ ~Asked(s)'
                        /\ Asked(s)' => ~Shown(s)'
                        /\ Done(s)' => thread[s] = "gone"
                        /\ (Shown(s)' \/ Asked(s)') /\ thread[s] = "gone" => Done(s)'
                        /\ \A m, n \in 1..Len(events') : /\ Asks(m, s)' /\ Asks(n, s)' => m = n
                                                         /\ Asks(m, s)' /\ Dones(n, s)' => m < n
      BY <1>1 DEF EventInv
    <3>1. Asked(r)
      BY <1>3, <1>6 DEF Asked, Asks
    <3>2. \A m, n \in 1..Len(events') : /\ Asks(m, s)' /\ Asks(n, s)' => m = n
                                        /\ Asks(m, s)' /\ Dones(n, s)' => m < n
      <4> SUFFICES ASSUME NEW m \in 1..Len(events'), NEW n \in 1..Len(events')
                   PROVE  /\ Asks(m, s)' /\ Asks(n, s)' => m = n
                          /\ Asks(m, s)' /\ Dones(n, s)' => m < n
        OBVIOUS
      <4>1. m + 1 \in 1..Len(events) /\ n + 1 \in 1..Len(events)
        BY <1>2
      <4>2. /\ Asks(m + 1, s) /\ Asks(n + 1, s) => m + 1 = n + 1
            /\ Asks(m + 1, s) /\ Dones(n + 1, s) => m + 1 < n + 1
        BY <4>1 DEF EventInv
      <4> QED
        BY <2>7, <4>2
    <3> QED
      BY <2>6, <2>8, <3>1, <3>2 DEF EventInv
  <2>10. ApprovalTypeOK'
    BY <1>1, <2>6 DEF ApprovalTypeOK
  <2> QED
    BY <1>1, <1>2, <2>6, <2>9, <2>10, AppStays DEF app
<1>7. CASE e.tell = "done"
  <2>1. Dones(1, r) /\ ~Asked(r)
    <3>1. Dones(1, r)
      BY <1>3, <1>7 DEF Dones
    <3>2. ASSUME NEW m \in 1..Len(events), Asks(m, r)
          PROVE  m < 1
      BY <1>3, <3>1, <3>2 DEF EventInv
    <3> QED
      BY <3>1, <3>2 DEF Asked
  <2>2. Closed(r)
    BY <1>1, <1>2, <1>7
  <2>3. /\ queue' \in Seq(Request) /\ cur' \in Request \cup {None} /\ left' \in 0..Window
        /\ QueueInv'
        /\ \A s \in Request : Shown(s)' <=> Shown(s) /\ s # r
    <3>1. CASE cur = r
      <4>1. Render(queue)
        BY <2>2, <3>1 DEF Closed
      <4> QED
        BY <1>3, <1>4, <1>5, <3>1, <4>1, RenderFacts DEF Shown
    <3>2. CASE cur # r
      <4>1. queue' = RemoveFirst(queue, r) /\ cur' = cur /\ left' = left
        BY <2>2, <3>2 DEF Closed
      <4>2. /\ queue' \in Seq(Request) /\ Distinct(queue')
            /\ \A s \in Request : Queued(queue', s) <=> Queued(queue, s) /\ s # r
        BY <1>3, <1>4, <4>1, RemoveFirstFacts
      <4> QED
        BY <1>5, <3>2, <4>1, <4>2 DEF Shown, QueueInv, ApprovalTypeOK
    <3> QED
      BY <3>1, <3>2
  <2>4. \A s \in Request, n \in 1..Len(events') :
           /\ Asks(n, s)' <=> Asks(n + 1, s)
           /\ Dones(n, s)' <=> Dones(n + 1, s)
    BY <1>2 DEF Asks, Dones
  <2>5. \A s \in Request : /\ Done(s)' => Done(s)
                           /\ Done(s) => Done(s)' \/ s = r
                           /\ Asked(s)' <=> Asked(s)
    <3> SUFFICES ASSUME NEW s \in Request
                 PROVE  /\ Done(s)' => Done(s)
                        /\ Done(s) => Done(s)' \/ s = r
                        /\ Asked(s)' <=> Asked(s)
      OBVIOUS
    <3>1. ~Asks(1, s) /\ (Dones(1, s) => s = r)
      BY <1>3, <1>7 DEF Dones, Asks
    <3>2. \A n \in 1..Len(events) : n # 1 => n - 1 \in 1..Len(events') /\ (n - 1) + 1 = n
      BY <1>2
    <3>3. Done(s)' => Done(s)
      BY <1>2, <2>4 DEF Done
    <3>4. ASSUME NEW n \in 1..Len(events), Dones(n, s), s # r
          PROVE  Done(s)'
      <4>1. n - 1 \in 1..Len(events') /\ (n - 1) + 1 = n
        BY <3>1, <3>2, <3>4
      <4>2. Dones(n - 1, s)'
        BY <2>4, <3>4, <4>1
      <4> QED
        BY <4>1, <4>2 DEF Done
    <3>5. Asked(s)' => Asked(s)
      BY <1>2, <2>4 DEF Asked
    <3>6. ASSUME NEW n \in 1..Len(events), Asks(n, s)
          PROVE  Asked(s)'
      <4>1. n - 1 \in 1..Len(events') /\ (n - 1) + 1 = n
        BY <3>1, <3>2, <3>6
      <4>2. Asks(n - 1, s)'
        BY <2>4, <3>6, <4>1
      <4> QED
        BY <4>1, <4>2 DEF Asked
    <3> QED
      BY <3>3, <3>4, <3>5, <3>6 DEF Done, Asked
  <2>6. EventInv'
    <3> SUFFICES ASSUME NEW s \in Request
                 PROVE  /\ thread[s] \in {"none", "insert"} => ~Shown(s)' /\ ~Asked(s)'
                        /\ Asked(s)' => ~Shown(s)'
                        /\ Done(s)' => thread[s] = "gone"
                        /\ (Shown(s)' \/ Asked(s)') /\ thread[s] = "gone" => Done(s)'
                        /\ \A m, n \in 1..Len(events') : /\ Asks(m, s)' /\ Asks(n, s)' => m = n
                                                         /\ Asks(m, s)' /\ Dones(n, s)' => m < n
      BY <1>1 DEF EventInv
    <3>1. \A m, n \in 1..Len(events') : /\ Asks(m, s)' /\ Asks(n, s)' => m = n
                                        /\ Asks(m, s)' /\ Dones(n, s)' => m < n
      <4> SUFFICES ASSUME NEW m \in 1..Len(events'), NEW n \in 1..Len(events')
                   PROVE  /\ Asks(m, s)' /\ Asks(n, s)' => m = n
                          /\ Asks(m, s)' /\ Dones(n, s)' => m < n
        OBVIOUS
      <4>1. m + 1 \in 1..Len(events) /\ n + 1 \in 1..Len(events)
        BY <1>2
      <4>2. /\ Asks(m + 1, s) /\ Asks(n + 1, s) => m + 1 = n + 1
            /\ Asks(m + 1, s) /\ Dones(n + 1, s) => m + 1 < n + 1
        BY <4>1 DEF EventInv
      <4> QED
        BY <2>4, <4>2
    <3> QED
      BY <2>1, <2>3, <2>5, <3>1 DEF EventInv
  <2>7. ApprovalTypeOK'
    BY <1>1, <2>3 DEF ApprovalTypeOK
  <2> QED
    BY <1>1, <1>2, <2>3, <2>6, <2>7, AppStays DEF app
<1> QED
  BY <1>2, <1>6, <1>7 DEF Event

\* The bubble on screen makes room for the next one.
LEMMA NextBubbleStep ==
    ASSUME AInv, cur # None, Render(queue), UNCHANGED <<hook, app, events, age, told>>,
           clicks' \subseteq Choice
    PROVE  AInv'
<1> USE NoneFacts DEF AInv
<1>1. queue \in Seq(Request) /\ Distinct(queue) /\ cur \in Request /\ ~Queued(queue, cur)
  BY DEF ApprovalTypeOK, QueueInv
<1>2. /\ queue' \in Seq(Request) /\ cur' \in Request \cup {None} /\ left' \in 0..Window
      /\ QueueInv'
      /\ \A r \in Request : Shown(r)' <=> Shown(r) /\ r # cur
  BY <1>1, RenderFacts DEF Shown
<1>3. \A r \in Request : /\ Asked(r)' <=> Asked(r)
                         /\ Done(r)' <=> Done(r)
  BY DEF Asked, Done, Asks, Dones
<1>4. EventInv'
  BY <1>2, <1>3 DEF EventInv, Asks, Dones, app
<1>5. ApprovalTypeOK'
  BY <1>2 DEF ApprovalTypeOK, app, Choice
<1> QED
  BY <1>2, <1>4, <1>5, AppStays

-----------------------------------------------------------------------------
(***************************************************************************)
(* Time, the end of the application, and the theorems.                     *)
(***************************************************************************)

LEMMA DecideStep ==
    ASSUME AInv, NEW r \in Request, NEW d \in Decision, Decide(r, d)
    PROVE  AInv'
<1> USE NoneFacts DEF AInv
<1>1. /\ clicks' = clicks \cup {[id |-> r, decision |-> d]}
      /\ UNCHANGED <<hook, thread, pending, channel, sending, events, queue, cur, left, age, told>>
  BY DEF Decide, window, app
<1>2. ApprovalTypeOK'
  BY <1>1 DEF ApprovalTypeOK
<1> QED
  BY <1>1, <1>2, BubbleStays, AppStays DEF app

LEMMA TickStep ==
    ASSUME AInv, Tick
    PROVE  AInv'
<1> USE NoneFacts, WindowFacts DEF AInv
<1>1. /\ \A r \in Request : thread[r] = "waiting" => age[r] < Window
      /\ cur # None => left > 0
      /\ age' = [r \in Request |-> IF thread[r] = "waiting" THEN age[r] + 1 ELSE age[r]]
      /\ left' = IF cur = None THEN 0 ELSE left - 1
      /\ UNCHANGED <<hook, thread, pending, channel, sending, clicks, events, queue, cur, told>>
  BY DEF Tick, Quiet, app
<1>2. age' \in [Request -> 0..Window]
  BY <1>1 DEF ApprovalTypeOK
<1>3. left' \in 0..Window
  BY <1>1 DEF ApprovalTypeOK
<1>4. ApprovalTypeOK'
  BY <1>1, <1>2, <1>3 DEF ApprovalTypeOK
<1> QED
  BY <1>1, <1>4, BubbleStays, AppStays DEF app

LEMMA StopStep ==
    ASSUME AInv, Stop
    PROVE  AInv'
<1> USE NoneFacts, WindowFacts DEF AInv
<1>1. /\ hook' = [r \in Request |-> IF hook[r] \in {"idle", "waiting"} THEN "nothing" ELSE hook[r]]
      /\ thread' = [r \in Request |-> "gone"] /\ channel' = [r \in Request |-> None]
      /\ pending' = {} /\ sending' = {} /\ clicks' = {} /\ events' = << >>
      /\ queue' = << >> /\ cur' = None /\ left' = 0
      /\ UNCHANGED <<age, told>>
  BY DEF Stop
<1>2. hook' \in [Request -> {"idle", "waiting", "nothing"} \cup Decision]
  BY <1>1 DEF ApprovalTypeOK
<1>3. ApprovalTypeOK'
  BY <1>1, <1>2 DEF ApprovalTypeOK
<1>4. TokenInv' /\ LifeInv'
  BY <1>1 DEF TokenInv, Held, Spent, LifeInv, PendingIsServed
<1>5. WayInv'
  BY <1>1 DEF WayInv, Decision
<1>6. events' \in Seq(Event)
  BY <1>1
<1>7. EventInv' /\ QueueInv'
  BY <1>1 DEF EventInv, QueueInv, Shown, Queued, Asked, Done, Distinct
<1> QED
  BY <1>3, <1>4, <1>5, <1>6, <1>7

LEMMA ApprovalStart == Init => AInv
<1> SUFFICES ASSUME Init
             PROVE  AInv
  OBVIOUS
<1>1. ApprovalTypeOK
  BY WindowFacts DEF Init, ApprovalTypeOK
<1>2. TokenInv /\ LifeInv
  BY DEF Init, TokenInv, Held, Spent, LifeInv, PendingIsServed
<1>3. WayInv
  BY NoneFacts DEF Init, WayInv, Decision
<1>4. events = << >> /\ queue = << >> /\ cur = None
  BY DEF Init
<1>5. EventInv /\ QueueInv
  BY <1>4, NoneFacts DEF EventInv, QueueInv, Shown, Queued, Asked, Done, Distinct
<1>6. events \in Seq(Event)
  BY <1>4
<1> QED
  BY <1>1, <1>2, <1>3, <1>5, <1>6 DEF AInv

LEMMA ApprovalStep == AInv /\ [Next]_vars => AInv'
<1> SUFFICES ASSUME AInv, [Next]_vars
             PROVE  AInv'
  OBVIOUS
<1>1. ASSUME NEW r \in Request, Ask(r) \/ HookTimesOut(r) \/ Handler(r)
      PROVE  AInv'
  BY <1>1, AskStep, HookTimesOutStep, RegisterStep, ReceiveStep, AnswerStep DEF Handler
<1>2. CASE Resolve
  <2>1. PICK c \in clicks \cup sending : TakeSender(c) \/ Send(c)
    BY <1>2 DEF Resolve
  <2>2. CASE TakeSender(c)
    BY <2>2, TakeSenderStep DEF TakeSender
  <2>3. CASE Send(c)
    BY <2>3, SendStep DEF Send
  <2> QED
    BY <2>1, <2>2, <2>3
<1>3. CASE WindowHears
  BY <1>3, WindowHearsStep
<1>4. CASE CountedDown
  <2>1. clicks' \subseteq Choice
    BY <1>4 DEF CountedDown, AInv, ApprovalTypeOK, Choice
  <2> QED
    BY <1>4, <2>1, NextBubbleStep DEF CountedDown
<1>5. ASSUME NEW d \in Decision, Click(d)
      PROVE  AInv'
  <2>1. cur \in Request
    BY <1>5 DEF Click, AInv, ApprovalTypeOK
  <2>2. clicks' \subseteq Choice
    BY <1>5, <2>1 DEF Click, AInv, ApprovalTypeOK, Choice
  <2> QED
    BY <1>5, <2>2, NextBubbleStep DEF Click
<1>6. CASE Tick \/ Stop
  BY <1>6, TickStep, StopStep
<1>7. CASE UNCHANGED vars
  <2>1. UNCHANGED <<hook, thread, pending, channel, sending, clicks, events, queue, cur, left, age, told>>
    BY <1>7 DEF vars, app, window
  <2>2. ApprovalTypeOK'
    BY <2>1 DEF AInv, ApprovalTypeOK
  <2> QED
    BY <2>1, <2>2, BubbleStays, AppStays DEF AInv, app
<1> QED
  BY <1>1, <1>2, <1>3, <1>4, <1>5, <1>6, <1>7, DecideStep DEF Next

LEMMA ApprovalInvariant == ApprovalSpec => []AInv
BY ApprovalStart, ApprovalStep, PTL DEF ApprovalSpec

\* Whoever races on a request, at most one decision of it is delivered, a hook that
\* prints a decision prints that one, the map names no request that nobody waits for,
\* and the bubble offers none without the news being on its way.
THEOREM ApprovalHolds == ApprovalSpec => []ApprovalInv
<1>1. AInv => OneDecision
  BY DEF AInv, TokenInv, WayInv, OneDecision
<1>2. AInv => PendingIsServed
  BY DEF AInv, LifeInv
<1>3. AInv => BubbleIsCurrent
  <2> SUFFICES ASSUME AInv, NEW r \in (ToSet(queue) \cup {cur}) \ {None}
               PROVE  thread[r] # "gone" \/ Done(r)
    BY DEF BubbleIsCurrent, Done, Dones
  <2>1. queue \in Seq(Request) /\ cur \in Request \cup {None}
    BY DEF AInv, ApprovalTypeOK
  <2>2. r \in Request /\ Shown(r)
    BY <2>1 DEF ToSet, Shown, Queued
  <2> QED
    BY <2>2 DEF AInv, EventInv
<1>4. AInv => ApprovalInv
  BY <1>1, <1>2, <1>3 DEF AInv, ApprovalInv
<1> QED
  BY <1>4, ApprovalInvariant, PTL
=============================================================================
