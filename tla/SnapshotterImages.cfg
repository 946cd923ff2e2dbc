SPECIFICATION Spec
CONSTANTS
    x = x
    a = a
    b = b
    c = c
    v = v
    w = w
    d = d
    p1 = p1
    i1 = i1
    c1 = c1
    p2 = p2
    i2 = i2
    c2 = c2
    r1 = r1
    r2 = r2
    None = None
    Keys <- ImageKeys
    Readers <- Nothing
    Requests <- ImageRequests
    Names <- ImageNames
    Unpacked <- Extracted
    AutoRemoveDev = FALSE
    AsyncRemove = TRUE
    RemoveParents = TRUE
    Docker = TRUE
    InitKeys <- DockerInitKeys
    InitNames <- DockerInitNames
    Faults = {"detach"}
    MaxFaults = 1
    MaxId = 3
INVARIANTS TypeOK LiveHasDir ChainConfig DeviceHasSnapshot CleanupSparesLive MountsAreCurrent
PROPERTY OrphansRemoved
CHECK_DEADLOCK FALSE
