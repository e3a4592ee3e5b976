SPECIFICATION FairSpec
CONSTANTS
    MaxSpawns = 1
    Peers = {q1, q2}
    Carrier = Carrier
    MgmtAttempts = 2
    InboxCap = 2
    LogCap = 2
    Reentry = FALSE
    LateLog = TRUE
    CrashPoints = {"rest", "install", "refresh", "remove"}
    MaxCrashes = 1
    None = None

    
PROPERTIES
    ImplementsContract
    StopEndsSession
