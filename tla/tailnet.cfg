SPECIFICATION PartsSpec
CONSTANTS
    Bits = 2
    Blocks = 4
    Word = 24
    Nodes = {"a", "b"}
    MaxHandshakes = 4
    MaxPackets = 1
    RekeyTimeout = 1
    KeepaliveTimeout = 2
    RekeyAfterTime = 3
    RejectAfterTime = 4
    NodeIDs = {1, 2, 3}
    NodeKeys = {"k1", "k2", "k3"}
    Hosts = {"h"}
    AddressBits = 2
    CIDRs <- Routes
    StreamCap = 1
    Lengths <- MessageLengths
    MaxFrame = 3
    MaxRecord = 3
    BufSize = 6
    PushbackSize = 4
    MaxBundle = 4
    MaxConnections = 2
INVARIANTS
    WindowExact
    SessionKeysSound
    MapFollowsControl
    DerivedFollowMap
    MessagesIntact
    
PROPERTIES
    SessionsSurviveMaps
CHECK_DEADLOCK FALSE
