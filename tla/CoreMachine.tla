---------------------------- MODULE CoreMachine ----------------------------
(***************************************************************************)
(* The status machine of src/crates/core: hook events of several sessions  *)
(* go in, one aggregate snapshot (display, activity, idle stage) comes out *)
(* for any instant.  The code is lazy: there is no timer, a state that has *)
(* outlived its TTL is noticed at the next event (advance) or in the       *)
(* snapshot (effective), and a session that has reached Idle is forgotten  *)
(* (prune_idle), leaving behind only two aggregate times.  The properties  *)
(* compare it with an eager observer that forgets nothing.                 *)
(*                                                                         *)
(* Times are in units chosen by TTL and Ladder; Never stands for None of   *)
(* Option<u64>.                                                            *)
(***************************************************************************)
EXTENDS Integers, FiniteSets, FiniteSetsExt

CONSTANTS
    Session,   \* session identifiers
    TTL,       \* display |-> how long it stays live, for every display but Idle
    Ladder,    \* the four thresholds of the idle stages
    MaxTime    \* bound: received_at, and the instants looked at, are at most this

VARIABLES
    sessions,           \* Machine.sessions: tracked session |-> entry
    eligible_since,     \* Machine.eligible_since
    idle_display_since, \* Machine.idle_display_since
    last_timeline_at,   \* Machine.last_timeline_at
    last,               \* observer: the latest signal of every session ever heard
    first,              \* observer: when the first signal of all was accepted
    ended               \* observer: the last end of a blocking signal that was replaced

machine == <<sessions, eligible_since, idle_display_since, last_timeline_at>>
observer == <<last, first, ended>>
vars == <<machine, observer>>

Never == -1

Display == {"Idle", "Thinking", "Working", "Review", "Waiting", "Done", "Failed"}

Activity == {"Active", "EligibleIdle", "Waiting", "Failed"}

Stage == <<"None", "Fresh", "Salted", "Costume", "Fish">>

\* DisplayState::priority
DisplayPriority ==
    [d \in Display |->
        CASE d = "Failed" -> 5
          [] d = "Waiting" -> 4
          [] d = "Working" -> 3
          [] d \in {"Thinking", "Review", "Done"} -> 2
          [] d = "Idle" -> 1]

\* ActivityState::priority, of the activities that block an eligible interval
ActivityPriority == [a \in Activity |->
    CASE a = "Failed" -> 3 [] a = "Waiting" -> 2 [] a = "Active" -> 1 [] OTHER -> 0]

\* What each hook event shows and counts as; NotifyOther is every notification
\* that classify_notification does not recognise.  ReadTool is a PreToolUse whose
\* tool is_readonly_tool recognises, MutatingTool any other and every PostToolUse.
Meaning ==
    [ SessionStart      |-> <<"Idle", "EligibleIdle">>,
      UserPromptSubmit  |-> <<"Thinking", "Active">>,
      ReadTool          |-> <<"Review", "Active">>,
      MutatingTool      |-> <<"Working", "Active">>,
      PermissionRequest |-> <<"Waiting", "Waiting">>,
      Stop              |-> <<"Done", "EligibleIdle">>,
      NotifyFailure     |-> <<"Failed", "Failed">>,
      NotifyInput       |-> <<"Waiting", "Waiting">>,
      NotifyIdle        |-> <<"Waiting", "EligibleIdle">> ]

HookKind == DOMAIN Meaning

ASSUME CoreAssumption ==
    /\ TTL \in [Display \ {"Idle"} -> Nat]
    /\ Ladder \in [1..4 -> Nat]
    /\ \A i, j \in 1..4 : i <= j => Ladder[i] <= Ladder[j]
    /\ MaxTime \in Nat

Entry == [display : Display, activity : Activity, dsince : Nat, asince : Nat]

----------------------------------------------------------------------------
(* Lazy decay. *)

Expired(e, now) == e.display # "Idle" /\ now - e.dsince > TTL[e.display]

\* effective: a state is still live at exactly its TTL.
Effective(e, now) ==
    IF ~Expired(e, now) THEN e
    ELSE LET at == e.dsince + TTL[e.display] + 1 IN
         [display |-> "Idle", activity |-> "EligibleIdle", dsince |-> at,
          asince |-> IF e.activity = "EligibleIdle" THEN e.asince ELSE at]

Eligible(e) == e.activity = "EligibleIdle"

\* The instants at which the blockers of ss that have expired by now did so.
NewlyEligible(ss, now) ==
    {Effective(ss[s], now).asince :
        s \in {u \in DOMAIN ss : ~Eligible(ss[u]) /\ Eligible(Effective(ss[u], now))}}

Latest(times) == Max(times \cup {Never})

AllEligible(ss) == \A s \in DOMAIN ss : Eligible(ss[s])

\* Seeded defect: the interval starts when the first of several blockers expires.
AdvancedEligibleFirst(now) ==
    LET ss == [s \in DOMAIN sessions |-> Effective(sessions[s], now)]
        newly == NewlyEligible(sessions, now) IN
    IF ~AllEligible(ss) THEN Never
    ELSE IF eligible_since = Never /\ newly # {} THEN Min(newly) ELSE eligible_since

\* advance, its effect on eligible_since.
AdvancedEligible(now) ==
    LET ss == [s \in DOMAIN sessions |-> Effective(sessions[s], now)] IN
    IF ~AllEligible(ss) THEN Never
    ELSE IF eligible_since = Never /\ ss # <<>> THEN Latest(NewlyEligible(sessions, now))
    ELSE eligible_since

Live(ss) == {s \in DOMAIN ss : ss[s].display # "Idle"}

\* Seeded defect: pruning forgets when the evicted session became idle.
IdleSinceForgotten(ss, since) == since

\* prune_idle: the sessions at Idle go, the latest of their times stays.
IdleSince(ss, since) ==
    Latest({since} \cup {ss[s].dsince : s \in DOMAIN ss \ Live(ss)})

\* Seeded defect: sessions that have decayed are never forgotten.
PrunedNever(ss) == ss

Pruned(ss) == [s \in Live(ss) |-> ss[s]]

----------------------------------------------------------------------------
(* apply_at. *)

\* The local processing boundary never moves back.
Timeline(received_at) == Latest({last_timeline_at, received_at})

\* The sessions as advance leaves them.
Advanced(at) == Pruned([s \in DOMAIN sessions |-> Effective(sessions[s], at)])

AdvancedIdle(at) ==
    IdleSince([s \in DOMAIN sessions |-> Effective(sessions[s], at)], idle_display_since)

\* Seeded defect: every eligible signal reopens the interval.
EligibleAfterReopened(ss, since, a, at) == IF a = "EligibleIdle" THEN at ELSE Never

\* The boundary once a signal of activity a has been inserted into ss.
EligibleAfter(ss, since, a, at) ==
    IF a # "EligibleIdle" THEN Never
    ELSE IF since = Never /\ AllEligible(ss) THEN at
    ELSE since

\* What an eager observer of the same signals writes down.
Observe(s, e) ==
    /\ last' = [u \in DOMAIN last \cup {s} |-> IF u = s THEN e ELSE last[u]]
    /\ first' = IF first = Never THEN e.dsince ELSE first
    /\ ended' = IF s \in DOMAIN last /\ ~Eligible(last[s])
                THEN Latest({ended, Min({e.dsince, last[s].dsince + TTL[last[s].display] + 1})})
                ELSE ended

\* An event with a meaning: advance, insert, maybe open the interval, prune.
Signal(s, kind, received_at) ==
    LET at == Timeline(received_at)
        d == Meaning[kind][1]
        a == Meaning[kind][2]
        e == [display |-> d, activity |-> a, dsince |-> at, asince |-> at]
        ss == [u \in DOMAIN Advanced(at) \cup {s} |-> IF u = s THEN e ELSE Advanced(at)[u]]
    IN  /\ last_timeline_at' = at
        /\ eligible_since' = EligibleAfter(ss, AdvancedEligible(at), a, at)
        /\ sessions' = Pruned(ss)
        /\ idle_display_since' = IdleSince(ss, AdvancedIdle(at))
        /\ Observe(s, e)

\* An informational notification: only advance.
Inform(received_at) ==
    LET at == Timeline(received_at) IN
    /\ last_timeline_at' = at
    /\ eligible_since' = AdvancedEligible(at)
    /\ sessions' = Advanced(at)
    /\ idle_display_since' = AdvancedIdle(at)
    /\ UNCHANGED observer

Init ==
    /\ sessions = <<>>
    /\ eligible_since = Never /\ idle_display_since = Never /\ last_timeline_at = Never
    /\ last = <<>> /\ first = Never /\ ended = Never

Next ==
    \E received_at \in 0..MaxTime :
        \/ Inform(received_at)
        \/ \E s \in Session, kind \in HookKind : Signal(s, kind, received_at)

CoreSpec == Init /\ [][Next]_vars

----------------------------------------------------------------------------
(* snapshot(now). *)

\* The (display, since) pairs among which max_by picks; when several sessions
\* tie, the pick follows the iteration order of the HashMap.
TopDisplay(pairs) ==
    LET rank(p) == DisplayPriority[p[1]]
        top == {p \in pairs : \A q \in pairs : rank(p) >= rank(q)}
    IN  {p \in top : \A q \in top : rank(p) = rank(q) => p[2] >= q[2]}

Current(now) == {Effective(sessions[s], now) : s \in DOMAIN sessions}

SnapshotDisplay(now) ==
    TopDisplay({<<e.display, e.dsince>> : e \in Current(now)}
        \cup (IF idle_display_since = Never THEN {} ELSE {<<"Idle", idle_display_since>>}))

TopBlocker(blockers) ==
    CHOOSE e \in blockers : \A f \in blockers :
        \/ ActivityPriority[e.activity] > ActivityPriority[f.activity]
        \/ e.activity = f.activity /\ e.asince >= f.asince

SnapshotActivity(now) ==
    LET blockers == {e \in Current(now) : ~Eligible(e)}
        since == IF eligible_since # Never THEN eligible_since
                 ELSE Latest(NewlyEligible(sessions, now))
    IN  IF blockers # {} THEN <<TopBlocker(blockers).activity, TopBlocker(blockers).asince>>
        ELSE IF since # Never THEN <<"EligibleIdle", since>>
        ELSE <<"Unknown", Never>>

\* Seeded defect: the ladder is climbed by the time the display has been shown.
SnapshotStageOfDisplay(now) ==
    LET shown == CHOOSE p \in SnapshotDisplay(now) \cup {<<"Idle", now>>} : TRUE IN
    Stage[1 + Cardinality({i \in 1..4 : now - shown[2] >= Ladder[i]})]

\* idle_stage of an eligible interval; the other activities have none.
SnapshotStage(now) ==
    IF SnapshotActivity(now)[1] # "EligibleIdle" THEN "None"
    ELSE Stage[1 + Cardinality({i \in 1..4 : now - SnapshotActivity(now)[2] >= Ladder[i]})]

----------------------------------------------------------------------------
(* Properties. *)

\* The machine's times are times, and only sessions that show something are kept.
CoreTypeOK ==
    /\ DOMAIN sessions \subseteq Session
    /\ \A s \in DOMAIN sessions : sessions[s] \in Entry /\ sessions[s].display # "Idle"
    /\ {eligible_since, idle_display_since, last_timeline_at} \subseteq Nat \cup {Never}

\* The eager observer: what each session heard of shows at now, never forgotten.
Shown(now) == {Effective(last[s], now) : s \in DOMAIN last}

Instants == IF last_timeline_at = Never THEN 0..MaxTime ELSE last_timeline_at..MaxTime

\* The instants at which blocking signals ended: replaced, or outlived.
EndsOfBlocking(now) == {ended} \cup NewlyEligible(last, now)

\* What the observer says at now: the gravest live blocker and its latest start, or
\* an interval that began with the last end of a blocking signal, or the first signal.
ObservedActivity(now) ==
    LET blockers == {e \in Shown(now) : ~Eligible(e)} IN
    IF first = Never THEN <<"Unknown", Never>>
    ELSE IF blockers = {} THEN <<"EligibleIdle", Max({first} \cup EndsOfBlocking(now))>>
    ELSE LET a == CHOOSE a \in {e.activity : e \in blockers} :
                      \A e \in blockers : ActivityPriority[a] >= ActivityPriority[e.activity]
         IN  <<a, Max({e.asince : e \in {f \in blockers : f.activity = a}})>>

\* The activity and its start, at any instant from the last event on, are those of
\* the observer: blocked by the gravest live signal if there is one, otherwise
\* eligible since the last blocking signal ended -- at its exact TTL when nothing
\* replaced it -- or since the very first signal.  Evicting a session, advancing
\* late or advancing often must not move the boundary, which is what is scored.
ActivityIsExact ==
    \A now \in Instants : SnapshotActivity(now) = ObservedActivity(now)

\* The display, and since when, is one the observer would show who never forgot a
\* session: eviction keeps the time of the latest fall to Idle.
DisplayIsExact ==
    \A now \in Instants :
        SnapshotDisplay(now) = TopDisplay({<<e.display, e.dsince>> : e \in Shown(now)})

\* The salted fish is earned: a stage above None is shown only if, for the whole of
\* that threshold, no session was doing or waiting for anything.
StageIsEarned ==
    \A now \in Instants : \A i \in 1..4 :
        SnapshotStage(now) \in {Stage[j] : j \in (i + 1)..5} =>
            /\ now - first >= Ladder[i]
            /\ \A end \in EndsOfBlocking(now) : now - end >= Ladder[i]
            /\ \A e \in Shown(now) : Eligible(e)

\* Every snapshot, at every instant from the last event on, is that of the observer
\* who forgets nothing: activity, display and stage.
MachineInv ==
    /\ CoreTypeOK
    /\ ActivityIsExact
    /\ DisplayIsExact
    /\ StageIsEarned

\* Notifications that say nothing, and signals that are idle themselves, leave a
\* running eligible interval where it began (apply_at: they "cannot reset eligible
\* idle").
QuietKeepsTheInterval ==
    [][\A now \in Instants :
        last_timeline_at' = now =>
            \/ SnapshotActivity(now)[1] # "EligibleIdle"
            \/ \E s \in DOMAIN last' : ~Eligible(last'[s]) /\ last'[s].asince = now
            \/ SnapshotActivity(now)' = SnapshotActivity(now)]_vars
=============================================================================
