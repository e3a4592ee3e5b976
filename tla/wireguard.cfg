SPECIFICATION FairSpec
CONSTANTS
    Configs <- MCConfigs
    MaxSessions = 2
    MaxCounter = 1
    MaxLate = 1
    HandshakeAttempts = 2
    MaxCrashes = 1
INVARIANTS
    KeyUseSafe
    RoutesRestored
    
PROPERTIES
    ImplementsContract
    StopEndsSession
    SilentPeerDropped
