SPECIFICATION Spec
CONSTANTS
    Apps <- MCOptions
    Nodes <- MCNodes
    Channels <- MCChannels
    Quantiles <- MCQuantiles
    Graphs <- MCGraphs
    Peers <- MCPeers
    Durations <- MCDurations
    Us = 4
    Ms = 16
    Sec = 64
    Minute = 256
    Hour = 1024
    None = None
INVARIANTS
    StatsdOptionsHonoured
CHECK_DEADLOCK FALSE
