SPECIFICATION Spec
CONSTANTS
    Apps <- MCApps
    Nodes <- MCNodes
    Channels <- MCChannels
    Quantiles <- MCQuantiles
    Graphs <- MCGraphs
    Peers <- MCPeers
    Durations <- MCDurations
    Us = 4
    Ms = 16
    Sec = 64
    Minute = 256
    Hour = 1024
    None = None
INVARIANTS
    GraphsReadTheirSeries
    DurationReadsBack
    AddressesReadBack
CHECK_DEADLOCK FALSE
