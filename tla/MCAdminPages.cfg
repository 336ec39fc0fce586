SPECIFICATION FairSpec
CONSTANTS
    t1 = t1
    c1 = c1
    n1 = n1
    i1 = i1
    i2 = i2
    Off = Off
    None = None
    TopicNames = {t1}
    ChannelNames = {c1}
    NodeNames = {n1}
    Intervals = {i1, i2}
    Default = i1
    GraphEnabled = TRUE
    IsAdmin = TRUE
    LookupHosts = TRUE
    MaxViews = 2
    MaxChanges = 1
    MaxLoads = 2
    MaxCalls = 1
INVARIANTS
    TypeOK
    PageIsLocation
    PageComplete
    SpinnerMeansLoading
    IntervalRemembered
    CallsConfirmed
PROPERTIES
    RatesFill
CHECK_DEADLOCK FALSE
