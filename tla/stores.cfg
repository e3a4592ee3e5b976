SPECIFICATION PartsSpec
CONSTANTS
    Names = {n1, n2}
    Sources = {u1}
    NoConfig = NoConfig
    NoProfile = NoProfile
    Absent = Absent
    Torn = Torn
    Failures = {"stage", "copy", "write", "flatten", "rename", "remove"}
    CrashPoints = {"copy", "flatten", "rename", "done"}
    Roles = 3
    MaxKeys = 5
    NoKey = NoKey
    LastTile = 3
    MaxTilesPerRequest = 2
    MaxMemoryTiles = 1
    MaxDiskCache = 2
    MaxTileRequests = 1
    MaxDrift = 1
    ProfileNames = {p1, p2}
    NoName = NoName
    OthersConnect = FALSE
    SaveOutcomes = {TRUE}
    ReportCap = 1
    QueueCap = 1
    Tailnets = {p2}
    Servers = {s1, s2}
    NoServer = NoServer
    MapQueueCap = 2
INVARIANTS
    StoreSafe
    IdentityStable
    CacheKept
    
    PanelIsSelection
SYMMETRY Interchangeable
CHECK_DEADLOCK FALSE
