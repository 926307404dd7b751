SPECIFICATION CPSpec
CONSTANTS
    MaxGroups = 2
    MaxPeers = 2
    MaxMaps = 1
    MaxForwards = 0
    Names = {n1, n2}
    GroupNames = {"default"}
    DefaultGroup = "default"
    Ports = {80, 3389}
    SubnetSize = 4
    MTUs = {1420}
    Intervals = {5}
    Upstreams = {"none"}
    NoSettings = NoSettings
    LayoutClients = {}
    NoRow = NoRow
    Uploads <- PeopledUploads
    StoreFaults = TRUE
    n1 = n1
    n2 = n2
    c1 = c1
    Off = Off
INVARIANTS
    BypassNeverPeer
    DnsMatchesMapProxy
    AddressesDisjoint
    DnsRecordsOwned
PROPERTIES
    KeepsPromise
