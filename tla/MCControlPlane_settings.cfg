SPECIFICATION FairCPSpec
CONSTANTS
    MaxGroups = 2
    MaxPeers = 0
    MaxMaps = 0
    MaxForwards = 2
    Names = {n1}
    GroupNames = {"default"}
    DefaultGroup = "default"
    Ports = {80}
    SubnetSize = 4
    MTUs = {1280, 1420}
    Intervals = {5}
    Upstreams = {"none", "some"}
    NoSettings = NoSettings
    LayoutClients = {c1}
    NoRow = NoRow
    Uploads <- ClashingUploads
    StoreFaults = TRUE
    n1 = n1
    n2 = n2
    c1 = c1
    Off = Off
INVARIANTS
    CPTypeOK
    FailureMeansStopped
    LiveMatchesStack
    ClashNeverServed
PROPERTIES
    CallsReturn
    KeepsPromise
