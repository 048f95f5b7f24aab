SPECIFICATION Spec
CONSTANTS
    Boot = {b1, b2}
    State <- MCState
    ContractState <- MCContractState
    ActivityOf <- MCActivityOf
    Heartbeat = Heartbeat
    None = None
    Requests <- MCRequests
    LeaseTtl = 1
    MaxClock = 3
    ClockMayStepBack = TRUE
    Offered = {"idle", "done", "working", "thinking"}
    MaxFirst = 2
    AnyPrevious = TRUE
INVARIANTS
    ReceiptsTileAccepted
    AcksAreFinal
PROPERTIES
    HistoryIsImmutable
CHECK_DEADLOCK FALSE
