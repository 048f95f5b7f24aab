----------------------------- MODULE Settlement -----------------------------
(***************************************************************************)
(* One office day and its settlement: reports and lease sweeps write the   *)
(* ledger of the agents, consent changes when it counts, and a projection  *)
(* tick turns the finished day into a result that never changes.           *)
(*                                                                         *)
(* The transactions lock rows in two orders.  A report or a sweep locks    *)
(* the agent, then the offices its mounts name; the settlement locks the   *)
(* office, and the foreign key of the result then locks the winner.        *)
(***************************************************************************)
EXTENDS Scoring

CONSTANTS
    Agent,         \* the agents, by the order of their identifiers
    Opening,       \* starts_at of the only occurrence of the day
    Closing,       \* its ends_at
    LeaseTtl,
    Skew,          \* how far the clock of the application is ahead
    MaxOpen,       \* bound on how long a report's transaction stays open
    MaxTime,       \* bound on the clock
    MaxReports,    \* bound on the transactions of each agent
    MaxOptIns      \* bound on the qualifications of each agent

ASSUME SettlementAssumption ==
    /\ Agent \subseteq Nat
    /\ Opening \in Nat
    /\ Closing \in Nat
    /\ Opening < Closing
    /\ LeaseTtl \in Nat \ {0}
    /\ Skew \in Int
    /\ MaxOpen \in Nat
    /\ MaxTime \in Nat
    /\ MaxReports \in Nat
    /\ MaxOptIns \in Nat

VARIABLES
    now,          \* clock_timestamp() of the database
    activities,   \* derived_activity_intervals that are eligible_idle
    lease,        \* lease_expires_at, None while the presence is closed
    opted,        \* the agents whose mount has stats_opt_in
    qualified,    \* mount_stats_eligibility_intervals
    tx,           \* the report or sweep an agent's instance is working on
    reports,      \* how many there have been
    holder,       \* who holds the office row: None, an agent, or Ticker
    settling,     \* the projection tick
    scored,       \* the score it has read, with the winner
    result        \* office_day_results of the day

ledger == <<activities, lease, opted, qualified>>
tick == <<settling, scored>>
settlementVars == <<now, ledger, tx, reports, holder, tick, result>>

Ticker == -1

Kind == {"idle", "active", "sweep"}
Interval == [start : Nat, end : Nat \cup {None}]
Transaction == [kind : Kind, stage : {"agent", "wait", "draw", "apply"},
                watched : BOOLEAN, since : Nat, received : Nat]
Settling == [asOf : Int, stage : {"wait", "read", "insert"}, winner : Agent \cup {None}]

ASSUME NoneAssumption == None \notin Transaction /\ None \notin Settling

\* A row of office_day_results, with the mounts it counted and the time of its
\* commit; its score is what SettledMatchesLedger says.
Result(r) == /\ r.winner \in Agent \cup {None}
             /\ r.counted \subseteq Agent
             /\ r.at \in Nat

SettlementTypeOK ==
    /\ now \in Nat
    /\ \A a \in Agent :
          /\ \A i \in activities[a] : i \in Interval
          /\ \A i \in qualified[a] : i \in Interval
          /\ lease[a] \in Nat \cup {None}
          /\ tx[a] \in Transaction \cup {None}
          /\ reports[a] \in Nat
    /\ opted \subseteq Agent
    /\ holder \in Agent \cup {None, Ticker}
    /\ settling \in Settling \cup {None}
    /\ result # None => Result(result)
    /\ holder = Ticker <=> settling # None /\ settling.stage # "wait"
    /\ holder \in Agent => tx[holder] # None

SettlementInit ==
    /\ now = 0
    /\ activities = [a \in Agent |-> {}]
    /\ lease = [a \in Agent |-> None]
    /\ opted \in SUBSET Agent
    /\ qualified = [a \in Agent |->
                      IF a \in opted THEN {[start |-> 0, end |-> None]} ELSE {}]
    /\ tx = [a \in Agent |-> None]
    /\ reports = [a \in Agent |-> 0]
    /\ holder = None
    /\ settling = None
    /\ scored = 0
    /\ result = None

Day == {[start |-> Opening, end |-> Closing]}

\* The segments of an agent as the statement reads them.
DaySegments(a, asOf) == Segments(activities[a], lease[a], qualified[a], Day, asOf)

DayScore(a, asOf) == Slacked(DaySegments(a, asOf))

Standing(a, asOf) == [id |-> a, score |-> DayScore(a, asOf),
                      reached |-> Reached(DaySegments(a, asOf))]

\* The first row of the ordered standings.
Leader(standings) ==
    LET first == {x \in standings : \A y \in standings \ {x} : Leads(x, y)}
    IN IF first = {} THEN None ELSE (CHOOSE x \in first : TRUE).id

\* queryOfficeLeaderboard with limit 1 over the mounts that take part now.
Winner(candidates, asOf) ==
    Leader({Standing(a, asOf) : a \in {c \in candidates : DayScore(c, asOf) > 0}})

\* The score it returns with the winner.
ScoreOf(w) == IF w = None THEN 0 ELSE DayScore(w, Closing)

(***************************************************************************)
(* A report or a sweep.                                                    *)
(***************************************************************************)
\* acceptReport up to lockAgent, expireOneLease up to its agent row.  The
\* insertion of a result holds the winner's row until the tick commits, which
\* is the same step here.
Begin(a, kind) ==
    /\ tx[a] = None
    /\ reports[a] < MaxReports
    /\ kind = "sweep" => lease[a] # None /\ lease[a] <= now
    /\ tx' = [tx EXCEPT ![a] = [kind |-> kind, stage |-> "agent", watched |-> FALSE,
                                since |-> now, received |-> now]]
    /\ reports' = [reports EXCEPT ![a] = @ + 1]
    /\ UNCHANGED <<now, ledger, holder, tick, result>>

\* lockAffectedOffices reads the mounts as of the start of the statement.
ReadMounts(a) ==
    /\ tx[a] # None
    /\ tx[a].stage = "agent"
    /\ tx' = [tx EXCEPT ![a].watched = a \in opted,
                        ![a].stage = IF a \in opted THEN "wait" ELSE "draw"]
    /\ UNCHANGED <<now, ledger, reports, holder, tick, result>>

LockOffice(a) ==
    /\ tx[a] # None
    /\ tx[a].stage = "wait"
    /\ holder = None
    /\ holder' = a
    /\ tx' = [tx EXCEPT ![a].stage = "draw"]
    /\ UNCHANGED <<now, ledger, reports, tick, result>>

\* nextServerReceivedAt
DrawTime(a) ==
    /\ tx[a] # None
    /\ tx[a].stage = "draw"
    /\ tx' = [tx EXCEPT ![a].received = now, ![a].stage = "apply"]
    /\ UNCHANGED <<now, ledger, reports, holder, tick, result>>

\* The open activity of an agent, at most one.
OpenOf(a) == {i \in activities[a] : i.end = None}

ClosedAt(a, t) == {IF i.end = None THEN [i EXCEPT !.end = t] ELSE i : i \in activities[a]}

\* Seeded defect: an activity whose lease has run out ends with the report.
AfterReportLate(a, kind, received) ==
    IF kind = "active" THEN ClosedAt(a, received)
    ELSE IF OpenOf(a) = {} THEN activities[a] \cup {[start |-> received, end |-> None]}
    ELSE activities[a]

\* What a report that says idle or active at `received' makes of the ledger.
AfterReport(a, kind, received) ==
    LET expired == lease[a] # None /\ lease[a] <= received
        base == IF expired THEN ClosedAt(a, lease[a]) ELSE activities[a]
        live == ~expired /\ OpenOf(a) # {}
    IN IF kind = "idle"
       THEN IF live THEN base ELSE base \cup {[start |-> received, end |-> None]}
       ELSE IF live THEN ClosedAt(a, received) ELSE base

Freed(a) == IF tx[a].watched THEN None ELSE holder

ApplyReport(a) ==
    /\ tx[a] # None
    /\ tx[a].stage = "apply"
    /\ tx[a].kind # "sweep"
    /\ activities' = [activities EXCEPT ![a] = AfterReport(a, tx[a].kind, tx[a].received)]
    /\ lease' = [lease EXCEPT ![a] = tx[a].received + LeaseTtl]
    /\ tx' = [tx EXCEPT ![a] = None]
    /\ holder' = Freed(a)
    /\ UNCHANGED <<now, opted, qualified, reports, tick, result>>

\* expireOneLease; the instance row keeps every other report away from it.
ApplySweep(a) ==
    /\ tx[a] # None
    /\ tx[a].stage = "apply"
    /\ tx[a].kind = "sweep"
    /\ activities' = [activities EXCEPT ![a] = ClosedAt(a, lease[a])]
    /\ lease' = [lease EXCEPT ![a] = None]
    /\ tx' = [tx EXCEPT ![a] = None]
    /\ holder' = Freed(a)
    /\ UNCHANGED <<now, opted, qualified, reports, tick, result>>

\* The connection or the process is lost, or the deadlock detector chose it.
Abort(a) ==
    /\ tx[a] # None
    /\ tx' = [tx EXCEPT ![a] = None]
    /\ holder' = IF holder = a THEN None ELSE holder
    /\ UNCHANGED <<now, ledger, reports, tick, result>>

\* changeMountConsent, in one step under the office lock, at its own time.
OptIn(a) ==
    /\ holder = None
    /\ a \notin opted
    /\ Cardinality(qualified[a]) < MaxOptIns
    /\ opted' = opted \cup {a}
    /\ qualified' = [qualified EXCEPT ![a] = @ \cup {[start |-> now, end |-> None]}]
    /\ UNCHANGED <<now, activities, lease, tx, reports, holder, tick, result>>

OptOut(a) ==
    /\ holder = None
    /\ a \in opted
    /\ opted' = opted \ {a}
    /\ qualified' = [qualified EXCEPT ![a] =
                       {IF q.end = None THEN [q EXCEPT !.end = now] ELSE q : q \in @}]
    /\ UNCHANGED <<now, activities, lease, tx, reports, holder, tick, result>>

(***************************************************************************)
(* The settlement in a projection tick.                                    *)
(***************************************************************************)
TickStarts ==
    /\ settling = None
    /\ settling' = [asOf |-> now + Skew, stage |-> "wait", winner |-> None]
    /\ UNCHANGED <<now, ledger, tx, reports, holder, scored, result>>

TickLocks ==
    /\ settling # None
    /\ settling.stage = "wait"
    /\ holder = None
    /\ holder' = Ticker
    /\ settling' = [settling EXCEPT !.stage = "read"]
    /\ UNCHANGED <<now, ledger, tx, reports, scored, result>>

\* The due days of settleDueOfficeDays.
DueDay(asOf) == result = None /\ Closing <= asOf

\* Nothing is due: the tick commits its revision.
TickPasses ==
    /\ settling # None
    /\ settling.stage = "read"
    /\ ~DueDay(settling.asOf)
    /\ settling' = None
    /\ holder' = None
    /\ UNCHANGED <<now, ledger, tx, reports, scored, result>>

TickScores ==
    /\ settling # None
    /\ settling.stage = "read"
    /\ DueDay(settling.asOf)
    /\ LET w == Winner(opted, Closing) IN
          /\ settling' = [settling EXCEPT !.stage = "insert", !.winner = w]
          /\ scored' = ScoreOf(w)
    /\ UNCHANGED <<now, ledger, tx, reports, holder, result>>

\* The foreign key waits for the winner's row.
TickInserts ==
    LET w == settling.winner IN
    /\ settling # None
    /\ settling.stage = "insert"
    /\ w # None => tx[w] = None
    /\ result' = [winner |-> w, score |-> scored, counted |-> opted, at |-> now]
    /\ settling' = None
    /\ scored' = 0
    /\ holder' = None
    /\ UNCHANGED <<now, ledger, tx, reports>>

\* The tick waits for the agent and the agent's report for the office.
Deadlocked(a) ==
    /\ settling # None
    /\ settling.stage = "insert"
    /\ settling.winner = a
    /\ tx[a] # None
    /\ tx[a].stage = "wait"

\* Seeded defect: a tick that fails is not rolled back.
TickFailsHolding ==
    /\ settling # None
    /\ settling' = None
    /\ UNCHANGED <<now, ledger, tx, reports, holder, scored, result>>

\* Its failure is caught and the next tick finds the day still due.
TickFails ==
    /\ settling # None
    /\ settling' = None
    /\ scored' = 0
    /\ holder' = IF holder = Ticker THEN None ELSE holder
    /\ UNCHANGED <<now, ledger, tx, reports, result>>

\* The detector breaks the cycle at either end.
DetectDeadlock ==
    \E a \in Agent : Deadlocked(a) /\ (Abort(a) \/ TickFails)

PassTime ==
    /\ now < MaxTime
    /\ \A a \in Agent : tx[a] # None => now - tx[a].since < MaxOpen
    /\ now' = now + 1
    /\ UNCHANGED <<ledger, tx, reports, holder, tick, result>>

Work(a) ==
    \/ ReadMounts(a) \/ LockOffice(a) \/ DrawTime(a) \/ ApplyReport(a) \/ ApplySweep(a)

SettlementNext ==
    \/ \E a \in Agent :
          \/ \E kind \in Kind : Begin(a, kind)
          \/ Work(a)
          \/ Abort(a)
          \/ OptIn(a)
          \/ OptOut(a)
    \/ TickStarts \/ TickLocks \/ TickPasses \/ TickScores \/ TickInserts \/ TickFails
    \/ PassTime

SettlementSpec == SettlementInit /\ [][SettlementNext]_settlementVars

\* Every transaction goes on when it is not waiting and is granted its lock in
\* turn, the tick's timer comes round, the detector looks, and the clock runs.
SettlementFairness ==
    /\ \A a \in Agent : SF_settlementVars(Work(a))
    /\ WF_settlementVars(TickStarts)
    /\ SF_settlementVars(TickLocks)
    /\ SF_settlementVars(TickPasses)
    /\ SF_settlementVars(TickScores)
    /\ SF_settlementVars(TickInserts)
    /\ WF_settlementVars(DetectDeadlock)
    /\ WF_settlementVars(PassTime)

FairSettlementSpec == SettlementSpec /\ SettlementFairness

----------------------------------------------------------------------------
(* The settled day and the ledger never disagree: whatever is committed     *)
(* after the settlement, computing the finished day again for those who     *)
(* took part gives the winner and the score that are stored.                *)
SettledMatchesLedger ==
    result # None =>
       /\ result.winner = Winner(result.counted, Closing)
       /\ result.score = ScoreOf(result.winner)

(* What is settled is what the ledger still says, and the transactions that *)
(* wrote the two hold no lock they have let go of.                          *)
SettlementInv == SettlementTypeOK /\ SettledMatchesLedger

(* "The Office lock is the settlement watermark: a tick either observes     *)
(* this report's commit, or completes before this report receives its       *)
(* server time": no report received before the settlement commits after it, *)
(* of an agent the settlement counted.                                      *)
WatermarkHolds ==
    result # None =>
       \A a \in result.counted :
          tx[a] # None /\ tx[a].stage = "apply" => tx[a].received >= result.at

(* A finished day is settled, although its settlement and the reports lock  *)
(* in opposite orders.                                                      *)
DayIsSettled == <>(result # None)
=============================================================================
