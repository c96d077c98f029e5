SPECIFICATION Spec
CONSTANTS
    Namespace = "submissions"
    Servers <- TwoServers
    FreshCache = FALSE
    MaxCreates = 1
    MaxFaults = 0
    MaxPodFailures = 0
    MaxRefDeletes = 0
    InitialRefs <- RefsReady
INVARIANTS
    PodsNeverOutliveRun
CHECK_DEADLOCK FALSE
