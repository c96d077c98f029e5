SPECIFICATION Spec
CONSTANTS
    Schedule <- TwoOrders
    Word = 33554432
    RunSecret = secret
    MaxTimeouts = 1
    MaxFaults = 0
INVARIANTS
    ArriveInSeqOrder
CHECK_DEADLOCK FALSE
