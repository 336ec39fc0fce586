SPECIFICATION Spec
CONSTANTS
    c1 = c1
    c2 = c2
    m1 = m1
    NoObj = NoObj
    NoClient = NoClient
    Clients = {c1, c2}
    Msgs = {m1}
    Deferred = {}
    Gens = {1}
    MemQueueSize = 1
    ReadyCount = 1
    MaxChannelConsumers = 0
    Sampled = {}
    Ephemeral = TRUE
    Ops = {"FIN", "REQ", "DREQ", "TOUCH"}
    AdminOps = {}
    MaxEntries = 1
SYMMETRY Symmetry
INVARIANTS
    CountExact
PROPERTIES
    ImplementsMessageLife
CHECK_DEADLOCK FALSE
