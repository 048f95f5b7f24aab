SPECIFICATION FairOfficeSpec
CONSTANTS
    Flag = {"presence", "stats"}
    Stream = {}
    None = None
    Interval = 2
    MaxReplay = 2
    Ahead = 1
    MaxRevision = 5
    MaxToken = 2
    MaxTime = 4
INVARIANTS
    RevisionsInv
PROPERTIES
    OnlyOldIsRetired
    ProjectionIsRefreshed
CHECK_DEADLOCK FALSE
