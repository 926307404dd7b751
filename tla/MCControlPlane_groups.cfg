SPECIFICATION CPSpec
CONSTANTS
    MaxGroups = 2
    MaxPeers = 2
    MaxMaps = 0
    MaxForwards = 0
    Names = {n1, n2}
    GroupNames = {"default", "ops"}
    DefaultGroup = "default"
    Ports = {80, 3389}
    SubnetSize = 4
    MTUs = {1420}
    Intervals = {5}
    Upstreams = {"none"}
    NoSettings = NoSettings
    LayoutClients = {}
    NoRow = NoRow
    Uploads = {}
    StoreFaults = FALSE
    n1 = n1
    n2 = n2
    c1 = c1
    Off = Off
INVARIANTS
    GroupIsolation
SYMMETRY NameSymmetry
