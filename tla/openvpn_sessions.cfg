SPECIFICATION Spec
CONSTANTS
    MaxSpawns = 2
    Peers = {q1, q2}
    Carrier = Carrier
    MgmtAttempts = 2
    InboxCap = 2
    LogCap = 2
    Reentry = FALSE
    LateLog = FALSE
    CrashPoints = {"rest", "remove"}
    MaxCrashes = 1
    None = None
INVARIANTS
    CarrierRestored
    
    RecordsFaithful
SYMMETRY PeerSymmetry
