SPECIFICATION FairSpoolSpec
CONSTANTS
    Hook = {h1, h2, h3}
    Inode = {i1, i2, i3}
    MaxPieces = 2
    MayCrash = TRUE
    MayTear = TRUE
    Reuses = FALSE
INVARIANTS
    
    AppliedInOrder
PROPERTIES
    EveryRecordIsApplied
