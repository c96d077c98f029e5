SPECIFICATION Spec
CONSTANTS
    Uploads = {u1, u2, u3}
    Sources = {s1, s2}
    BackoffLimit = 1
    MaxFaults = 1
INVARIANTS
    TypeOK
    UploadsDedupe
    JobHasInputs
    ReadyHasImage
PROPERTIES
    BuildsSettle
CHECK_DEADLOCK FALSE
