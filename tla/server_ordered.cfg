SPECIFICATION FairSpec
CONSTANTS
    Clients = {c1}
    Hosts = {h1}
    NoHost = NoHost
    UsedKinds = {"OpenVPN"}
    MaxAttempts = 2
    BaseDelay = 1
    DelayCap = 2
    MailboxCap = 2
    Overtaking = FALSE
    SpawnOutcomes = {FALSE}
    TimerOutcomes = {TRUE, FALSE}
INVARIANTS
    SessionAnnounced
PROPERTIES
    StopTakesEffect
    CountdownEnds
