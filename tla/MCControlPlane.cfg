SPECIFICATION Spec
CONSTANTS
    Folders = {f1, f2}
    Posts = {1, 2}
    MaxFolderOps = 2
    MaxPresenceFaults = 1
    car = car
    track = track
    Cars <- MCCars
    Tracks <- MCTracks
    Aliases <- MCAliases
    MaxPoolOps = 2
    MaxInventoryFaults = 1
    e1 = e1
    e2 = e2
    Edges = {e1, e2}
    NoEdge = NoEdge
    Lobbies = {n1, n2}
    Folder = server
    EnvFleet = {}
    DbFleet <- MCDbFleet
    SyncSlots = {s1, s2}
    MaxRoutingOps = 2
    MaxReads = 2
    MaxBattles = 1
    MaxConnects = 2
    MaxOverlayFaults = 1
    Categories = {"all", "battles"}
    LimitPerPage = 1
    FetchBatch = 1
    RawScanMax = 2
    MaxEntries = 3
    MaxPageOps = 1
    MaxKept = 2
    DisplayNames = {n1, n2}
    IdleShutdown = 3
    MaxServerOps = 4
    Hosts = {e1, e2}
    Furnished <- MCFurnished
    Titles = {n1, n2}
    NoHost = NoEdge
    NoTitle = NoTitle
    MaxIndex = 1
    MaxLoads = 2
    MaxCalls = 2
    MaxPageRequests = 2
    MaxPageFaults = 1
INVARIANTS
    RoutedToOwnEdge
    NothingSkipped
    AppliedEverywhere
PROPERTIES
    CatalogFollowsEdge
    InventoryCatchesUp
    OverlayShowsBattle
    MarkFollowsOverlay
    ShownMatchesFilter
    ListCatchesUp
    BusyServersStay
CHECK_DEADLOCK FALSE
