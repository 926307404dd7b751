SPECIFICATION Spec
CONSTANTS
    MaxGroups = 2
    MaxPeers = 1
    MaxMaps = 1
    MaxForwards = 2
    Names = {n1}
    GroupNames = {"default", "ops"}
    DefaultGroup = "default"
    Ports = {80, 3389}
    SubnetSize = 4
    MTUs = {1420}
    Intervals = {5}
    Upstreams = {"none"}
    NoSettings = NoSettings
    LayoutClients = {c1}
    NoRow = NoRow
    Uploads <- ClashingUploads
    StoreFaults = TRUE
    n1 = n1
    n2 = n2
    c1 = c1
INVARIANTS
    TypeOK
    RefsValid
    LinksNormal
PROPERTIES
    NoNewPortClash
