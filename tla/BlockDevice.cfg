SPECIFICATION Spec
CONSTANTS
    m1 = m1
    m2 = m2
    a1 = a1
    Mounters <- OneMounter
    Attachers <- OneAttacher
    Retries = 5
    MaxAttaches = 3
    MaxDetaches = 1
    MaxFaults = 2
INVARIANTS
    TypeOK
    FailedAttachCleans
    RetriesGetThrough
    DetachedIsGone
    AttachedIsWhole
PROPERTY AttachSparesAttached
CHECK_DEADLOCK FALSE
