SPECIFICATION Spec
CONSTANTS
    Namespace = "submissions"
    Servers <- TwoServers
    FreshCache = TRUE
    MaxCreates = 2
    MaxFaults = 1
    MaxPodFailures = 1
    MaxRefDeletes = 1
    InitialRefs <- RefsAbsent
INVARIANTS
    PodsNeverOutliveRun
    PrimedHasPods
    NoPodBeforeReady
CHECK_DEADLOCK FALSE
