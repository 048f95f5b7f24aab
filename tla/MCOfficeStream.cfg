SPECIFICATION FairStreamSpec
CONSTANTS
    Flag = {"presence"}
    Stream = {s1}
    None = None
    Interval = 1
    MaxReplay = 1
    Ahead = 0
    MaxRevision = 3
    MaxToken = 2
    MaxTime = 0
    PageLimit = 2
    ReleaseMayFail = TRUE
INVARIANTS
    StreamInv
    NoLostWakeUp
PROPERTIES
    DisclosureIsConsented
    StreamFollowsLog
    StreamMovesOn
