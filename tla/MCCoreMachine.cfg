SPECIFICATION CoreSpec
CONSTANTS
    Session = {s1, s2}
    TTL <- MCTTL
    Ladder <- MCLadder
    MaxTime = 4
SYMMETRY Sessions
INVARIANTS
    MachineInv
PROPERTIES
    QuietKeepsTheInterval
