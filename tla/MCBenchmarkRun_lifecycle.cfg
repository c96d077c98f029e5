SPECIFICATION Spec
CONSTANTS
    Namespace = "submissions"
    Servers <- OneServer
    FreshCache = FALSE
    MaxCreates = 1
    MaxFaults = 1
    MaxPodFailures = 0
    MaxRefDeletes = 0
    InitialRefs <- RefsAbsent
INVARIANTS
    TypeOK
    PrimedIsComplete
    PhaseMatchesPods
PROPERTIES
    PhasesOneWay
    OnlyUnseenPodsOutlive
    DeletionCompletes
    RunFinishes
CHECK_DEADLOCK FALSE
