SPECIFICATION Spec
CONSTANTS
    N = 2
    Outputs <- BothImages
    Dedup = TRUE
    Known <- BaseLayer
    OldRows <- RightRows
    Reserve = FALSE
    MaxRuns = 0
INVARIANTS
    SerialBuild
    PublishComplete
    SuccessStoresIntactRows
PROPERTIES
    ImplementsContract
    Terminates
CHECK_DEADLOCK FALSE
