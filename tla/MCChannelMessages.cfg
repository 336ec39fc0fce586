SPECIFICATION FairSpec
CONSTANTS
    c1 = c1
    m1 = m1
    m2 = m2
    NoObj = NoObj
    NoClient = NoClient
    Clients = {c1}
    Msgs = {m1, m2}
    Deferred = {m2}
    Gens = {1}
    MemQueueSize = 2
    ReadyCount = 2
    MaxChannelConsumers = 0
    Sampled = {c1}
    Ephemeral = FALSE
    Ops = {"FIN", "REQ", "DREQ", "TOUCH"}
    AdminOps = {}
    MaxEntries = 1
INVARIANTS
    TypeOK
    InFlightTimesOut
    DeferredTimesOut
    NoPanic
PROPERTIES
    EventuallyLeavesFlight
    EventuallyUndeferred
CHECK_DEADLOCK FALSE
