CONSTANTS
    Peers = {1, 2}
    Hub = 0
    PeerPorts = {5, 6}
    Traffic <- MCTraffic
    EphemeralPorts = {12, 13}
    Graphs <- MCGraphs
    NoFlow = NoFlow
    SessionIdle = 1
    MaxEpoch = 1
    MaxPackets = 2
SPECIFICATION Spec
INVARIANT NoInitiateBack
CHECK_DEADLOCK FALSE
