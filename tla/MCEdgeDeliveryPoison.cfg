SPECIFICATION DeliverySpec
CONSTANTS
    Boot = {b1, b2}
    State = {"idle", "thinking"}
    Shown = {"idle", "thinking"}
    ContractState <- MCContractState
    ActivityOf <- MCActivityOf
    Heartbeat = Heartbeat
    None = None
    Requests <- NoRequests
    LeaseTtl = 1
    MaxClock = 0
    ClockMayStepBack = FALSE
    MaxEventsPerBoot = 3
    MaxEvents = 2
    MaxCrashes = 0
    DiskMayFail = FALSE
INVARIANTS
    NeverRefused
CHECK_DEADLOCK FALSE
