SPECIFICATION ClockSpec
CONSTANTS
    Gateways = {g1, g2}
    BatchSize = 2
    BatchMax = 3
    SafetyGap = 3
    WithinGap = TRUE
    MaxSeq = 10
    MaxStamps = 3
    MaxCrashes = 1
    MaxOrphans = 1
    MaxTime = 1
    MaxRate = 2
    MaxWall = 1
SYMMETRY GatewaySymmetry
INVARIANTS
    TypeOK
    StampsUnique
    StampsIncrease
PROPERTIES
    TimestampsForward
CHECK_DEADLOCK FALSE
