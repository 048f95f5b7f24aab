------------------------------ MODULE Scoring ------------------------------
(***************************************************************************)
(* How long a candidate has slacked: the statement queryOfficeLeaderboard  *)
(* runs on the ledger, the same rule as the domain functions state it, and *)
(* what both are meant to compute.                                         *)
(*                                                                         *)
(* Times are instants of which Second make a second.  An interval [start,  *)
(* end) with end = None is open.                                           *)
(***************************************************************************)
EXTENDS Integers, FiniteSetsExt

CONSTANTS
    None,
    Second,     \* instants in a second
    Grace       \* PER_SEGMENT_GRACE_SECONDS

ASSUME ScoringAssumption ==
    /\ Second \in Nat \ {0}
    /\ Grace \in Nat
    /\ None \notin Int

MinOf(a, b) == IF a <= b THEN a ELSE b
MaxOf(a, b) == IF a >= b THEN a ELSE b

\* COALESCE(ended_at, asOf)
EndOr(interval, asOf) == IF interval.end = None THEN asOf ELSE interval.end

WholeSeconds(from, to) == (to - from) \div Second

----------------------------------------------------------------------------
(* raw_intersections and valid_intersections.  `lease' is None when the     *)
(* presence is closed or missing: an open activity then has no length.      *)

ActivityEnd(activity, lease, asOf) ==
    IF activity.end # None THEN activity.end
    ELSE IF lease = None THEN activity.start
    ELSE MinOf(lease, asOf)

\* Seeded defect: an open activity is taken to last until now.
SegmentWithoutLease(activity, lease, qualification, occurrence, asOf) ==
    [start |-> Max({activity.start, qualification.start, occurrence.start}),
     end |-> Min({EndOr(activity, asOf), EndOr(qualification, asOf),
                  occurrence.end, asOf})]

Segment(activity, lease, qualification, occurrence, asOf) ==
    [start |-> Max({activity.start, qualification.start, occurrence.start}),
     end |-> Min({ActivityEnd(activity, lease, asOf), EndOr(qualification, asOf),
                  occurrence.end, asOf})]

Segments(activities, lease, qualifications, occurrences, asOf) ==
    {g \in {Segment(a, lease, q, o, asOf) :
              a \in activities, q \in qualifications, o \in occurrences} :
        g.end > g.start}

----------------------------------------------------------------------------
(* ordered_intersections to scored_segments.                                *)

Precedes(g, h) == g.start < h.start \/ (g.start = h.start /\ g.end < h.end)

Before(S, g) == {h \in S : Precedes(h, g)}

\* Seeded defect: segments that touch are one island.
StartsIslandAfterGap(S, g) ==
    \A h \in Before(S, g) : g.start > h.end

\* starts_new_island: previous_max_end IS NULL or not after the start.
StartsIsland(S, g) == \A h \in Before(S, g) : g.start >= h.end

\* island_id: how many islands have started so far.
IslandOf(S, g) ==
    Cardinality({h \in S : StartsIsland(S, h) /\ (h = g \/ Precedes(h, g))})

\* Seeded defect: an island ends where its last segment ends.
IslandsEndWithLast(S) ==
    {LET members == {h \in S : IslandOf(S, h) = IslandOf(S, g)}
         last == CHOOSE h \in members : \A k \in members : k = h \/ Precedes(k, h)
     IN [start |-> Min({h.start : h \in members}), end |-> last.end] : g \in S}

\* merged_segments
Islands(S) ==
    {LET members == {h \in S : IslandOf(S, h) = IslandOf(S, g)}
     IN [start |-> Min({h.start : h \in members}),
         end |-> Max({h.end : h \in members})] : g \in S}

Contribution(island) == MaxOf(WholeSeconds(island.start, island.end) - Grace, 0)

\* Seeded defect: the grace is paid once.
SlackedOnce(S) ==
    MaxOf(MapThenSumSet(LAMBDA i : WholeSeconds(i.start, i.end), Islands(S)) - Grace, 0)

\* slacking_seconds
Slacked(S) == MapThenSumSet(Contribution, Islands(S))

ReachedAt(island) == island.start + (Grace + Contribution(island)) * Second

\* Seeded defect: islands that contribute nothing are not left out.
ReachedUnfiltered(S) == Max({ReachedAt(i) : i \in Islands(S)})

\* score_reached_at, where something was scored
Reached(S) == Max({ReachedAt(i) : i \in {j \in Islands(S) : Contribution(j) > 0}})

----------------------------------------------------------------------------
(* scoreCandidate: intervals that do not overlap, each scored by itself.    *)

IntervalEnd(interval, asOf) ==
    IF interval.end = None THEN asOf ELSE MinOf(interval.end, asOf)

IntervalSeconds(interval, asOf) ==
    IF IntervalEnd(interval, asOf) <= interval.start THEN 0
    ELSE MaxOf(0, WholeSeconds(interval.start, IntervalEnd(interval, asOf)) - Grace)

\* scoreEligibilityInterval, then scoreCandidate, as [score, reached].
CandidateScore(intervals, asOf) ==
    LET scored == {i \in intervals : IntervalSeconds(i, asOf) > 0}
        seconds(i) == IntervalSeconds(i, asOf)
    IN [score |-> MapThenSumSet(seconds, intervals),
        reached |-> IF scored = {} THEN None
                    ELSE Max({i.start + (Grace + seconds(i)) * Second : i \in scored})]

\* assertNonOverlapping does not throw; empty intervals are passed over.
NonOverlapping(intervals) ==
    \A i, j \in {k \in intervals : k.end # k.start} :
       i # j => \/ i.end # None /\ i.end <= j.start
                \/ j.end # None /\ j.end <= i.start

----------------------------------------------------------------------------
(* The idle stage of the public snapshot: eligible_since of an agent that   *)
(* is online, and deriveIdleStage.                                          *)

\* Seeded defect: the stage counts from the start of the activity itself.
EligibleSinceOfActivity(activities, lease, qualifications, occurrences, asOf) ==
    LET starts == {a.start : a \in {b \in activities : b.end = None}}
    IN IF lease = None \/ lease <= asOf \/ starts = {} THEN None ELSE Min(starts)

UnderWay(interval, asOf) ==
    interval.start <= asOf /\ (interval.end = None \/ interval.end > asOf)

EligibleSince(activities, lease, qualifications, occurrences, asOf) ==
    LET now(S) == {i \in S : UnderWay(i, asOf)}
        starts == {Max({a.start, q.start, o.start}) : a \in now(activities),
                      q \in now(qualifications), o \in now(occurrences)}
    IN IF lease = None \/ lease <= asOf \/ starts = {} THEN None ELSE Min(starts)

\* How many of the thresholds have been reached.
IdleStage(since, ladder, asOf) ==
    IF since = None THEN 0
    ELSE Cardinality({i \in DOMAIN ladder : WholeSeconds(since, asOf) >= ladder[i]})

----------------------------------------------------------------------------
(* rankLeaderboardCandidates and the ORDER BY of the statement: more first, *)
(* then who reached it earlier, then the smaller identifier.                *)
Leads(x, y) ==
    \/ x.score > y.score
    \/ x.score = y.score /\ x.reached < y.reached
    \/ x.score = y.score /\ x.reached = y.reached /\ x.id < y.id
============================================================================
