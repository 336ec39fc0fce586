SPECIFICATION Spec
CONSTANTS
    c1 = c1
    c2 = c2
    m1 = m1
    m2 = m2
    Callers = {c1, c2}
    Msgs = {m1, m2}
    Names = {"a", "b"}
    MemQueueSize = 1
    DiskMayFail = TRUE
    Workloads <- AllWorkloads
    MaxObjects = 1
    Apply = Apply
    Nobody = Nobody
SYMMETRY Symmetry
INVARIANTS
    TypeOK
    Custody
    ReachesChannel
    HandedOnce
    PauseSettles
PROPERTIES
    QuietAfterExit
CHECK_DEADLOCK FALSE
