SPECIFICATION Spec
CONSTANTS
    c1 = c1
    c2 = c2
    m1 = m1
    Callers = {c1, c2}
    Msgs = {m1}
    Names = {"a", "b"}
    MemQueueSize = 1
    DiskMayFail = TRUE
    Workloads <- RaceWorkloads
    MaxObjects = 1
    Apply = Apply
    Nobody = Nobody
INVARIANTS
    GetChannelNotBlocked
CHECK_DEADLOCK FALSE
