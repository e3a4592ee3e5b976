SPECIFICATION FairSpec
CONSTANTS
    Clients = {c1, c2, c3}
    MaxWaiting = 2
    SpawnOutcomes = {TRUE}
    Addresses = {"lan", "wan"}
    Nowhere = "nowhere"
    PingThrottle = 1
    InitThrottle = 1
    MaxMoves = 2
    ProfileNames = {p1, p2}
    NoName = NoName
    OthersConnect = TRUE
    SaveOutcomes = {TRUE}
    ReportCap = 1
    QueueCap = 2
PROPERTIES
    
    PunchesThrough
    CLIEnds
CHECK_DEADLOCK FALSE
