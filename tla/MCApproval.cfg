SPECIFICATION FairApprovalSpec
CONSTANTS
    Request = {r1, r2}
    Window = 2
    Margin = 1
    ShortHook = TRUE
    Elsewhere = TRUE
    MayStop = TRUE
INVARIANTS
    ApprovalInv
PROPERTIES
    EveryHookEnds
CHECK_DEADLOCK FALSE
