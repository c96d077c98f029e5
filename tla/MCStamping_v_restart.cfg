SPECIFICATION ClockSpec
CONSTANTS
    Gateways = {g1, g2}
    BatchSize = 2
    BatchMax = 3
    SafetyGap = 3
    WithinGap = FALSE
    MaxSeq = 16
    MaxStamps = 4
    MaxCrashes = 1
    MaxOrphans = 1
    MaxTime = 0
    MaxRate = 1
    MaxWall = 0
SYMMETRY GatewaySymmetry
INVARIANTS
    StampsUnique
CHECK_DEADLOCK FALSE
