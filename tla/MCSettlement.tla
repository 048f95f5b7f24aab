---------------------------- MODULE MCSettlement ----------------------------
(***************************************************************************)
(* One office day for TLC, with the ledger written in one of two ways: by  *)
(* the transactions of Settlement, or by "anyone": every small ledger of   *)
(* one agent, intervals that overlap included, on which the statement is   *)
(* compared with what it is meant to compute.                              *)
(***************************************************************************)
EXTENDS Settlement

CONSTANTS
    MaxActivities,   \* bound on the activities of a ledger anyone writes
    MaxInstant       \* and on its instants

ASSUME DayAssumption ==
    /\ Agent # {}
    /\ MaxActivities \in Nat
    /\ MaxInstant \in Nat
    /\ MaxTime <= MaxInstant
    /\ Closing <= MaxInstant

VARIABLE writer

dayVars == <<settlementVars, writer>>

\* The agent whose ledger anyone writes; its mount takes part from the start.
Candidate == Min(Agent)

\* The first stage is reached with the grace, as in the code.
Ladder == <<Grace, Grace + 1>>

Ledger == activities[Candidate]

DayInit ==
    /\ SettlementInit
    /\ writer \in {"transactions", "anyone"}
    /\ writer = "anyone" => opted = {Candidate}

Instants == 0 .. MaxInstant

Closed == {a \in [start : Instants, end : Instants] : a.start <= a.end}

WriterRest == <<opted, qualified, tx, reports, holder, tick, result>>

\* An activity is added, however it overlaps with the others.
Add ==
    /\ Cardinality(Ledger) < MaxActivities
    /\ \E a \in Closed \ Ledger :
          /\ a.end <= now
          /\ activities' = [activities EXCEPT ![Candidate] = @ \cup {a}]
    /\ UNCHANGED <<now, lease, WriterRest>>

\* One activity is open and lasts as long as its lease.
Opens ==
    /\ Cardinality(Ledger) < MaxActivities
    /\ \A a \in Ledger : a.end # None
    /\ activities' = [activities EXCEPT ![Candidate] = @ \cup {[start |-> now, end |-> None]}]
    /\ \E l \in now + 1 .. MaxInstant : lease' = [lease EXCEPT ![Candidate] = l]
    /\ UNCHANGED <<now, WriterRest>>

Passes ==
    /\ now < MaxInstant
    /\ now' = now + 1
    /\ UNCHANGED <<activities, lease, WriterRest>>

DayNext ==
    /\ UNCHANGED writer
    /\ \/ writer = "transactions" /\ SettlementNext
       \/ writer = "anyone" /\ Add
       \/ writer = "anyone" /\ Opens
       \/ writer = "anyone" /\ Passes

DaySpec == DayInit /\ [][DayNext]_dayVars

\* Anyone may stop writing at any time.
FairDaySpec ==
    /\ DaySpec
    /\ writer = "transactions" => SettlementFairness

\* The ledger anyone writes fills a longer day.
Occurrences == IF writer = "anyone" THEN {[start |-> Opening, end |-> MaxInstant]} ELSE Day

Today == Segments(Ledger, lease[Candidate], qualified[Candidate], Occurrences, now)

----------------------------------------------------------------------------
(* Reference: an instant is slacked when a segment covers it; two instants *)
(* belong together when one segment covers both; every maximal run of such *)
(* instants pays its own grace.                                            *)
Cells(S) == {t \in Instants : \E g \in S : g.start <= t /\ t < g.end}

Joined(S, t) == \E g \in S : g.start <= t /\ t + 1 < g.end

Runs(S) ==
    {r \in [start : Instants, end : Instants] :
        /\ r.start < r.end
        /\ \A t \in r.start .. r.end - 1 : t \in Cells(S)
        /\ \A t \in r.start .. r.end - 2 : Joined(S, t)
        /\ ~Joined(S, r.start - 1)
        /\ ~Joined(S, r.end - 1)}

RunScore(S) == MapThenSumSet(LAMBDA r : MaxOf(0, WholeSeconds(r.start, r.end) - Grace), Runs(S))

\* The ledger as it stood at t.
Until(S, t) == {g \in {[start |-> h.start, end |-> MinOf(h.end, t)] : h \in S} : g.end > g.start}

(* "Each continuous intersection pays its own 15-minute grace. Overlapping *)
(* source intervals are rejected and query-side intersections are merged   *)
(* defensively": the islands of the statement are the maximal runs.        *)
ScoreIsOfMaximalRuns == Slacked(Today) = RunScore(Today)

(* score_reached_at is the first instant at which the candidate had the    *)
(* score it has: ties go to whoever was there first.                       *)
ReachedIsFirstTime ==
    Slacked(Today) > 0 =>
       Reached(Today) = Min({t \in Instants : RunScore(Until(Today, t)) = Slacked(Today)})

(* The domain function and the statement agree wherever the former does    *)
(* not reject its input.                                                   *)
DomainAgrees ==
    LET S == {[start |-> g.start, end |-> g.end] : g \in Today}
        C == CandidateScore(S, now)
    IN NonOverlapping(S) =>
          /\ C.score = Slacked(S)
          /\ C.score > 0 => C.reached = Reached(S)

(* An open activity counts while its lease lasts and no longer: looking    *)
(* again later, or after the sweep has closed it at its lease, changes     *)
(* nothing that was scored.                                                *)
SweepChangesNothing ==
    LET l == lease[Candidate]
    IN l # None /\ l <= now =>
          Slacked(Segments(ClosedAt(Candidate, l), None, qualified[Candidate], Occurrences, now))
             = Slacked(Today)

(* The two halves of the public snapshot do not contradict each other: a   *)
(* pet that is shown at a stage has slacked, on the leaderboard beside it,  *)
(* for at least what the stage asks for beyond the grace.                   *)
StageIsScored ==
    LET since == EligibleSince(Ledger, lease[Candidate], qualified[Candidate], Occurrences, now)
    IN \A i \in DOMAIN Ladder :
          IdleStage(since, Ladder, now) >= i => Slacked(Today) >= Ladder[i] - Grace

(* The statement computes what the rules of the day ask for: the score, the *)
(* instant it was reached, both as the domain function has them, and the    *)
(* same for an open activity as for one the sweep has closed; and the stage *)
(* in the same snapshot agrees with it.                                     *)
ScoringInv ==
    /\ ScoreIsOfMaximalRuns
    /\ ReachedIsFirstTime
    /\ DomainAgrees
    /\ SweepChangesNothing
    /\ StageIsScored

(* What a candidate has slacked is not lost as time passes or another      *)
(* activity is added.  (A report that was received before it commits does  *)
(* take back what an open activity has counted in between.)                *)
ScoreNeverFalls == [][writer = "anyone" => Slacked(Today)' >= Slacked(Today)]_dayVars

(* The day the transactions write is settled.                              *)
WrittenDayIsSettled == writer = "transactions" => DayIsSettled
=============================================================================
