SPECIFICATION FairDaySpec
CONSTANTS
    None = None
    Agent = {1}
    Skew = 0
    Second = 2
    Grace = 1
    Opening = 1
    Closing = 5
    LeaseTtl = 2
    MaxOpen = 1
    MaxTime = 5
    MaxReports = 2
    MaxOptIns = 1
    MaxActivities = 3
    MaxInstant = 6
INVARIANTS
    ScoringInv
    SettlementInv
PROPERTIES
    ScoreNeverFalls
    WrittenDayIsSettled
CHECK_DEADLOCK FALSE
