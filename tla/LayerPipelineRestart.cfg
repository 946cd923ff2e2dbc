SPECIFICATION Spec
CONSTANTS
    N = 1
    Outputs <- BothImages
    Dedup = TRUE
    Known <- BaseLayer
    OldRows <- AnyRows
    Reserve = TRUE
    MaxRuns = 2
INVARIANTS
    TypeOK
    CommitFileOnlyFromDedup
PROPERTIES
    RowsNameUploadedBlobs
    Terminates
CHECK_DEADLOCK FALSE
