SPECIFICATION Safety
CONSTANTS
    x = x
    a = a
    b = b
    c = c
    v = v
    w = w
    d = d
    p1 = p1
    i1 = i1
    c1 = c1
    p2 = p2
    i2 = i2
    c2 = c2
    r1 = r1
    r2 = r2
    None = None
    Keys <- RuntimeKeys
    Readers <- Nothing
    Requests <- RuntimeRequests
    Names <- Nothing
    Unpacked <- Nothing
    AutoRemoveDev = TRUE
    AsyncRemove = FALSE
    RemoveParents = FALSE
    Docker = FALSE
    InitKeys <- Nothing
    InitNames <- Nothing
    Faults = {"crash"}
    MaxFaults = 1
    MaxId = 4
INVARIANT CleanupSparesLive
CHECK_DEADLOCK FALSE
