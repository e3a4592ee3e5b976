SPECIFICATION Spec
CONSTANTS
    MaxSpawns = 1
    Peers = {q1, q2}
    Carrier = Carrier
    MgmtAttempts = 2
    InboxCap = 2
    LogCap = 2
    Reentry = FALSE
    LateLog = FALSE
    CrashPoints = {"install"}
    MaxCrashes = 1
    None = None
INVARIANTS
    OnlineAfterRestart
