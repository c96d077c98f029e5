SPECIFICATION Spec
CONSTANTS
    Uploads = {u1, u2}
    Sources = {s1}
    BackoffLimit = 2
    MaxFaults = 1
INVARIANTS
    AcceptedHasJob
CHECK_DEADLOCK FALSE
