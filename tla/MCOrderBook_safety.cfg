SPECIFICATION Spec
CONSTANTS
    Prices = {1, 2}
    Ids = {a, b, c, d}
    MaxQty = 2
    MaxOrders = 4
    ReuseIds = FALSE
SYMMETRY IdSymmetry
INVARIANTS
    TypeOK
    NotCrossed
    LevelsExact
    IndexExact
    FillConservation
    FokAllOrNothing
PROPERTIES
    PriceTimePriority
    SnapshotRoundTrip
