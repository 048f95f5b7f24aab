SPECIFICATION FairSpec
CONSTANTS
    Boot = {b1, b2}
    State <- MCState
    ContractState <- MCContractState
    ActivityOf <- MCActivityOf
    Heartbeat = Heartbeat
    None = None
    Requests <- MCRequests
    LeaseTtl = 2
    MaxClock = 4
    ClockMayStepBack = FALSE
    Offered = {"idle", "done", "working", "thinking"}
    MaxFirst = 2
    AnyPrevious = TRUE
INVARIANTS
    TypeOK
    PresenceMatchesInterval
    NoOfflineTime
    NoIntegrityFault
PROPERTIES
    FencedForGood
    IdleContinuity
    DueLeaseIsSettled
CHECK_DEADLOCK FALSE
