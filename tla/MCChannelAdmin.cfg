SPECIFICATION Spec
CONSTANTS
    c1 = c1
    m1 = m1
    m2 = m2
    NoObj = NoObj
    NoClient = NoClient
    Clients = {c1}
    Msgs = {m1, m2}
    Deferred = {m2}
    Gens = {1}
    MemQueueSize = 1
    ReadyCount = 1
    MaxChannelConsumers = 0
    Sampled = {}
    Ephemeral = FALSE
    Ops = {"FIN", "REQ"}
    AdminOps = {"Empty", "Close", "Delete"}
    MaxEntries = 1
INVARIANTS
    MessagesKept
PROPERTIES
    QuietCloseSaves
CHECK_DEADLOCK FALSE
