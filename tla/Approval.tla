----------------------------- MODULE Approval -----------------------------
(***************************************************************************)
(* The approval channel.  A hook process (approval-hook.mjs) posts the     *)
(* pending tool call and blocks; a thread of the desktop application       *)
(* (approval.rs, POST /approve) registers a channel, tells the window and  *)
(* waits for DECISION_WINDOW; the bubble in the window (frontend) queues   *)
(* what it is told and emits the human's click; resolve delivers it, or    *)
(* the window of time ends.  Messages between the threads and the window   *)
(* are steps of their own, and so are the two halves of resolve.           *)
(*                                                                         *)
(* Time is counted in ticks; what is under way is finished within a tick.  *)
(***************************************************************************)
EXTENDS Integers, Sequences, SequencesExt, FiniteSets

CONSTANTS
    Request,   \* the tool calls, each with its id
    Window,    \* DECISION_WINDOW, in ticks
    Margin,    \* how much earlier than Window the bubble gives up
    ShortHook, \* the hook's own time-out may come first (WB_BUDDY_APPROVAL_TIMEOUT_MS)
    Elsewhere, \* decisions also come through POST /decide
    MayStop    \* the application may end

VARIABLES
    hook,    \* "idle", "waiting", or what the hook printed: "allow", "deny", "nothing"
    thread,  \* the /approve handler: "none", "insert", "waiting", then its decision, "gone"
    pending, \* PENDING: the requests whose sender is registered
    channel, \* what was sent and not yet received, for each request
    sending, \* resolve calls that hold the sender and have not sent yet
    clicks,  \* pet-decision events and /decide calls under way
    events,  \* pet-approval and pet-approval-done events under way to the window
    queue,   \* approvalQ
    cur,     \* approvalCur
    left,    \* the bubble's countdown
    age,     \* ticks since the request was registered
    told     \* observer: the decisions resolve reported as delivered

app == <<thread, pending, channel, sending>>
window == <<queue, cur, left>>
vars == <<hook, app, clicks, events, window, age, told>>

None == "none"

Decision == {"allow", "deny"}

ASSUME ApprovalAssumption ==
    /\ Window \in Nat /\ Margin \in 1..Window
    /\ {ShortHook, Elsewhere, MayStop} \subseteq BOOLEAN
    /\ None \notin Request

Set(f, r, v) == [f EXCEPT ![r] = v]

----------------------------------------------------------------------------
(* The hook process. *)

\* requestDecision: POST /approve.
Ask(r) ==
    /\ hook[r] = "idle"
    /\ hook' = Set(hook, r, "waiting") /\ thread' = Set(thread, r, "insert")
    /\ UNCHANGED <<pending, channel, sending, clicks, events, window, age, told>>

\* The socket was silent for the configured time: finish(null), nothing printed.
HookTimesOut(r) ==
    /\ ShortHook /\ hook[r] = "waiting"
    /\ hook' = Set(hook, r, "nothing")
    /\ UNCHANGED <<app, clicks, events, window, age, told>>

----------------------------------------------------------------------------
(* The /approve handler. *)

Register(r) ==
    /\ thread[r] = "insert"
    /\ pending' = pending \cup {r}
    /\ events' = Append(events, [tell |-> "ask", id |-> r])
    /\ thread' = Set(thread, r, "waiting")
    /\ age' = Set(age, r, 0)
    /\ UNCHANGED <<hook, channel, sending, clicks, window, told>>

\* Seeded defect: a plain recv, without the window.
ReceiveForever(r) ==
    /\ thread[r] = "waiting" /\ channel[r] # None
    /\ thread' = Set(thread, r, channel[r])
    /\ channel' = Set(channel, r, None)
    /\ UNCHANGED <<hook, pending, sending, clicks, events, window, age, told>>

\* recv_timeout: what was sent, or "timeout" when the window ends first.
Receive(r) ==
    /\ thread[r] = "waiting"
    /\ \/ channel[r] # None /\ thread' = Set(thread, r, channel[r])
       \/ channel[r] = None /\ age[r] = Window /\ thread' = Set(thread, r, "timeout")
    /\ channel' = Set(channel, r, None)
    /\ UNCHANGED <<hook, pending, sending, clicks, events, window, age, told>>

Answered(r) == thread[r] \in Decision \cup {"timeout"}

\* Seeded defect: the answer is passed on as it came.
PrintedAsIs(answer) == answer

\* What the hook prints of an answer: only the exact words allow and deny.
Printed(answer) == IF answer \in Decision THEN answer ELSE "nothing"

\* Seeded defect: the entry of a request that timed out stays registered.
AnswerKeepsEntry(r) ==
    /\ Answered(r)
    /\ events' = Append(events, [tell |-> "done", id |-> r])
    /\ hook' = IF hook[r] = "waiting" THEN Set(hook, r, Printed(thread[r])) ELSE hook
    /\ thread' = Set(thread, r, "gone")
    /\ UNCHANGED <<pending, channel, sending, clicks, window, age, told>>

\* The entry goes, the bubble is told, the hook prints allow or deny and nothing else.
Answer(r) ==
    /\ Answered(r)
    /\ pending' = pending \ {r}
    /\ events' = Append(events, [tell |-> "done", id |-> r])
    /\ hook' = IF hook[r] = "waiting" THEN Set(hook, r, Printed(thread[r])) ELSE hook
    /\ thread' = Set(thread, r, "gone")
    /\ UNCHANGED <<channel, sending, clicks, window, age, told>>

\* Seeded defect: resolve looks the sender up and leaves it in the map.
TakeSenderShared(c) ==
    /\ c \in clicks
    /\ clicks' = clicks \ {c}
    /\ sending' = IF c.id \in pending THEN sending \cup {c} ELSE sending
    /\ UNCHANGED <<hook, thread, pending, channel, events, window, age, told>>

\* resolve, under the lock: the sender leaves the map; an unknown id is false.
TakeSender(c) ==
    /\ c \in clicks
    /\ clicks' = clicks \ {c}
    /\ sending' = IF c.id \in pending THEN sending \cup {c} ELSE sending
    /\ pending' = pending \ {c.id}
    /\ UNCHANGED <<hook, thread, channel, events, window, age, told>>

\* ... and after it: send succeeds as long as the handler has its receiver.
Send(c) ==
    /\ c \in sending
    /\ sending' = sending \ {c}
    /\ IF thread[c.id] = "gone" THEN UNCHANGED <<channel, told>>
       ELSE channel' = Set(channel, c.id, c.decision) /\ told' = told \cup {c}
    /\ UNCHANGED <<hook, thread, pending, clicks, events, window, age>>

----------------------------------------------------------------------------
(* The bubble. *)

\* renderApproval on queue q when nothing is shown.
Render(q) ==
    IF q = <<>> THEN queue' = q /\ cur' = None /\ left' = 0
    ELSE queue' = Tail(q) /\ cur' = Head(q) /\ left' = Window - Margin

Announced(q) == IF cur = None THEN Render(q) ELSE queue' = q /\ UNCHANGED <<cur, left>>

\* Seeded defect: only the bubble on screen is closed, never a queued one.
ClosedOnScreen(r) == IF cur = r THEN Render(queue) ELSE UNCHANGED window

\* pet-approval-done: the bubble on screen closes, a queued one is spliced out.
Closed(r) ==
    IF cur = r THEN Render(queue)
    ELSE queue' = RemoveFirst(queue, r) /\ UNCHANGED <<cur, left>>

WindowHears ==
    /\ events # <<>>
    /\ events' = Tail(events)
    /\ LET e == Head(events) IN
       \/ e.tell = "ask" /\ Announced(Append(queue, e.id))
       \/ e.tell = "done" /\ Closed(e.id)
    /\ UNCHANGED <<hook, app, clicks, age, told>>

\* decideApproval: the click goes out and the next bubble comes up.
Click(d) ==
    /\ cur # None
    /\ clicks' = clicks \cup {[id |-> cur, decision |-> d]}
    /\ Render(queue)
    /\ UNCHANGED <<hook, app, events, age, told>>

\* The countdown ran out: the bubble closes, nothing is sent.
CountedDown ==
    /\ cur # None /\ left = 0
    /\ Render(queue)
    /\ UNCHANGED <<hook, app, clicks, events, age, told>>

\* POST /decide for a request somebody read from /pending.
Decide(r, d) ==
    /\ Elsewhere /\ r \in pending
    /\ clicks' = clicks \cup {[id |-> r, decision |-> d]}
    /\ UNCHANGED <<hook, app, events, window, age, told>>

----------------------------------------------------------------------------

\* Nothing that takes less than a tick is under way.
Quiet ==
    /\ clicks = {} /\ sending = {} /\ events = <<>>
    /\ \A r \in Request :
        /\ thread[r] \in {"none", "waiting", "gone"}
        /\ thread[r] = "waiting" => channel[r] = None /\ age[r] < Window
    /\ cur # None => left > 0

Tick ==
    /\ Quiet
    /\ \E r \in Request : thread[r] = "waiting"
    /\ age' = [r \in Request |-> IF thread[r] = "waiting" THEN age[r] + 1 ELSE age[r]]
    /\ left' = IF cur = None THEN 0 ELSE left - 1
    /\ UNCHANGED <<hook, app, clicks, events, queue, cur, told>>

\* The process ends and takes threads and window with it; the hooks that wait see
\* their connection fail and print nothing.
Stop ==
    /\ MayStop /\ \E r \in Request : thread[r] # "gone"
    /\ hook' = [r \in Request |-> IF hook[r] \in {"idle", "waiting"} THEN "nothing" ELSE hook[r]]
    /\ thread' = [r \in Request |-> "gone"]
    /\ pending' = {} /\ sending' = {} /\ clicks' = {} /\ events' = <<>>
    /\ channel' = [r \in Request |-> None]
    /\ queue' = <<>> /\ cur' = None /\ left' = 0
    /\ UNCHANGED <<age, told>>

Init ==
    /\ hook = [r \in Request |-> "idle"] /\ thread = [r \in Request |-> "none"]
    /\ pending = {} /\ channel = [r \in Request |-> None] /\ sending = {}
    /\ clicks = {} /\ events = <<>>
    /\ queue = <<>> /\ cur = None /\ left = 0
    /\ age = [r \in Request |-> 0] /\ told = {}

Handler(r) == Register(r) \/ Receive(r) \/ Answer(r)

Resolve == \E c \in clicks \cup sending : TakeSender(c) \/ Send(c)

Next ==
    \/ \E r \in Request : Ask(r) \/ HookTimesOut(r) \/ Handler(r)
    \/ Resolve
    \/ WindowHears
    \/ CountedDown
    \/ \E d \in Decision : Click(d) \/ \E r \in Request : Decide(r, d)
    \/ Tick
    \/ Stop

ApprovalSpec == Init /\ [][Next]_vars

\* Threads run, messages arrive, time passes; nobody has to click.
FairApprovalSpec ==
    /\ ApprovalSpec
    /\ \A r \in Request : WF_vars(Handler(r))
    /\ WF_vars(Resolve) /\ WF_vars(WindowHears) /\ WF_vars(CountedDown) /\ WF_vars(Tick)

----------------------------------------------------------------------------
(* Properties. *)

ApprovalTypeOK ==
    /\ hook \in [Request -> {"idle", "waiting", "nothing"} \cup Decision]
    /\ thread \in [Request -> {"none", "insert", "waiting", "timeout", "gone"} \cup Decision]
    /\ pending \subseteq Request /\ channel \in [Request -> {None} \cup Decision]
    /\ sending \cup clicks \cup told \subseteq [id : Request, decision : Decision]
    /\ queue \in Seq(Request) /\ cur \in Request \cup {None}
    /\ left \in 0..Window /\ age \in [Request -> 0..Window]

\* A tool is never both allowed and denied: whoever races on the bubble and on
\* /decide, at most one decision of a request is delivered, and a hook that prints a
\* decision prints that one.
OneDecision ==
    /\ \A c, d \in told : c.id = d.id => c = d
    /\ \A r \in Request : hook[r] \in Decision => [id |-> r, decision |-> hook[r]] \in told

\* A registered sender belongs to a handler that will look at what it is sent: the
\* map does not outlive the requests, and /pending names no dead one.
PendingIsServed == \A r \in pending : thread[r] \notin {"none", "insert", "gone"}

\* What the bubble offers, on screen or queued, can still be decided, or the news that
\* it cannot is on its way.
BubbleIsCurrent ==
    \A r \in (ToSet(queue) \cup {cur}) \ {None} :
        thread[r] # "gone" \/ \E n \in 1..Len(events) : events[n] = [tell |-> "done", id |-> r]

\* The four places that know of a request -- hook, handler, map and bubble -- never
\* contradict each other.
ApprovalInv ==
    /\ ApprovalTypeOK
    /\ OneDecision
    /\ PendingIsServed
    /\ BubbleIsCurrent

\* "Your click is returned to WorkBuddy as a hook decision": a decision that resolve
\* reported as delivered is the one the hook prints.
DeliveredIsHonoured ==
    \A c \in told : thread[c.id] = "gone" => hook[c.id] = c.decision

\* Fail-open: with nobody answering, every hook that asks ends all the same, and its
\* bubble goes away.
EveryHookEnds ==
    \A r \in Request :
        (hook[r] = "waiting") ~> (hook[r] # "waiting" /\ r \notin ToSet(queue) \cup {cur})
=============================================================================
