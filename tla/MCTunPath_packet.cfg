CONSTANTS
    Peers = {1, 2}
    Hub = 0
    PeerPorts = {5, 6}
    Traffic <- MCTraffic
    EphemeralPorts = {12, 13}
    Graphs <- MCGraphs
    NoFlow = NoFlow
    SessionIdle = 1
    MaxEpoch = 2
    MaxPackets = 1
SPECIFICATION Spec
INVARIANTS TypeOK PortsOwned RepliesReturn ListenersFree StaleBounded
CHECK_DEADLOCK FALSE
