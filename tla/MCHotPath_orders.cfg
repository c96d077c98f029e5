SPECIFICATION Spec
CONSTANTS
    Schedule <- TwoOrders
    Word = 33554432
    RunSecret = secret
    MaxTimeouts = 2
    MaxFaults = 1
INVARIANTS
    TypeOK
    AppliedAtMostOnce
    DeliveredToBoth
    SameOrdersSameSequence
PROPERTIES
    DispatchEnds
    HandlersEnd
CHECK_DEADLOCK FALSE
