SPECIFICATION Spec
CONSTANTS
    c1 = c1
    m1 = m1
    m2 = m2
    NoObj = NoObj
    NoClient = NoClient
    Clients = {c1}
    Msgs = {m1, m2}
    Deferred = {}
    Gens = {1, 2}
    MemQueueSize = 0
    ReadyCount = 2
    MaxChannelConsumers = 0
    Sampled = {}
    Ephemeral = FALSE
    Ops = {"FIN"}
    AdminOps = {}
    MaxEntries = 1
SYMMETRY Symmetry
INVARIANTS
    InFlightTimesOut
CHECK_DEADLOCK FALSE
