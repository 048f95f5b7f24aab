SPECIFICATION FairPairingSpec
CONSTANTS
    None = None
    Code = {c1, c2}
    MaxSeeds = 3
    MaxBoots = 4
    MaxFaults = 1
    MaxQueue = 1
    MaxFailed = 1
INVARIANTS
    PairingInv
PROPERTIES
    OnlyPairingSwitches
    ReporterSwitches
