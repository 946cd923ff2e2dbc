SPECIFICATION Spec
CONSTANTS
    x = x
    a = a
    b = b
    c = c
    v = v
    w = w
    d = d
    p1 = p1
    i1 = i1
    c1 = c1
    p2 = p2
    i2 = i2
    c2 = c2
    r1 = r1
    r2 = r2
    None = None
    Keys <- WritableKeys
    Readers <- OneReader
    Requests <- WritableRequests
    Names <- WritableNames
    Unpacked <- Nothing
    AutoRemoveDev = TRUE
    AsyncRemove = FALSE
    RemoveParents = FALSE
    Docker = FALSE
    InitKeys <- Nothing
    InitNames <- Nothing
    Faults = {"crash", "commit", "mark", "mount", "seal", "detach"}
    MaxFaults = 2
    MaxId = 3
INVARIANT MountsAreCurrent
PROPERTY CallsEnd
CHECK_DEADLOCK FALSE
