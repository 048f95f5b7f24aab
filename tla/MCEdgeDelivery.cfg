SPECIFICATION FairDeliverySpec
CONSTANTS
    Boot = {b1, b2, b3, b4, b5, b6}
    State = {"idle", "working"}
    Shown = {"idle", "working"}
    ContractState <- MCContractState
    ActivityOf <- MCActivityOf
    Heartbeat = Heartbeat
    None = None
    Requests <- NoRequests
    LeaseTtl = 1
    MaxClock = 0
    ClockMayStepBack = FALSE
    MaxEventsPerBoot = 2
    MaxEvents = 3
    MaxCrashes = 2
    DiskMayFail = TRUE
INVARIANTS
    DeliveryInv
    NeverRefused
PROPERTIES
    FeedIsExactlyOnce
    EverythingIsDelivered
CHECK_DEADLOCK FALSE
