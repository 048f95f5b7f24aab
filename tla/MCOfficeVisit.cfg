SPECIFICATION VisitSpec
CONSTANTS
    None = None
    Pairing = {p1, p2}
    Expires = TRUE
    Reader = {b1}
    MaxHead = 3
    MaxLate = 1
INVARIANTS
    VisitInv
PROPERTIES
    ClaimOpensTheOffice
    DisplayNeverGoesBack
    PageCatchesUp
CHECK_DEADLOCK FALSE
