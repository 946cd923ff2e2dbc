SPECIFICATION Safety
CONSTANTS
    x = x
    a = a
    b = b
    c = c
    v = v
    w = w
    d = d
    p1 = p1
    i1 = i1
    c1 = c1
    p2 = p2
    i2 = i2
    c2 = c2
    r1 = r1
    r2 = r2
    None = None
    Keys <- DockerKeys
    Readers <- OneReader
    Requests <- DockerRequests
    Names <- DockerCommits
    Unpacked <- Nothing
    AutoRemoveDev = FALSE
    AsyncRemove = FALSE
    RemoveParents = FALSE
    Docker = TRUE
    InitKeys <- DockerInitKeys
    InitNames <- DockerInitNames
    Faults <- NoFaults
    MaxFaults = 0
    MaxId = 5
INVARIANT ServedDevices
CHECK_DEADLOCK FALSE
