SPECIFICATION Spec
CONSTANTS
    c1 = c1
    c2 = c2
    Conns = {c1, c2}
    Sent <- TwoClients
    MaxFaults = 1
INVARIANTS
    TypeOK
    DamageBounded
    EchoFollowsLog
    RepliesInOrder
PROPERTIES
    AllEchoed
CHECK_DEADLOCK FALSE
