----------------------------- MODULE MCProgress -----------------------------
(***************************************************************************)
(* Parts that must get somewhere, checked by one run: a behaviour belongs  *)
(* to one of them, chosen at the start; the others are at rest, in a state *)
(* in which their fairness asks nothing of them.                           *)
(***************************************************************************)
EXTENDS VPNGateCatalogue, TSPaths, SotoportegoCLI

VARIABLE active

vars == <<active, catalogueVars, pathVars, cliVars>>

PathsAtRest ==
    /\ fMode = "NONE" /\ fEndpoint = Nowhere /\ endpoints = {}
    /\ hasKeys = TRUE
    /\ sincePing = PingThrottle /\ sinceHandshake = InitThrottle + 1
    /\ relayUp = FALSE /\ where = Nowhere
    /\ pings = {} /\ pongs = {} /\ initiation = Nowhere /\ moves = 0

CLIAtRest ==
    /\ session = [state |-> "DISCONNECTED", profile |-> NoName]
    /\ reports = <<>> /\ saved = <<>> /\ subscribed = FALSE
    /\ toDaemon = <<>> /\ toClient = <<>>
    /\ fCmd = "list" /\ fArg = NoName
    /\ running = FALSE /\ started = TRUE /\ fExitCode = 0
    /\ fDeadline = FALSE /\ fWatchTimer = FALSE

Init ==
    /\ active \in {"catalogue", "paths", "cli"}
    /\ CatalogueInit
    /\ IF active = "paths" THEN PathsInit ELSE PathsAtRest
    /\ IF active = "cli" THEN CLIInit ELSE CLIAtRest

Next ==
    \/ active = "catalogue" /\ CatalogueNext /\ UNCHANGED <<active, pathVars, cliVars>>
    \/ active = "paths" /\ PathsNext /\ UNCHANGED <<active, catalogueVars, cliVars>>
    \/ active = "cli" /\ CLINext /\ UNCHANGED <<active, catalogueVars, pathVars>>

FairSpec ==
    /\ Init /\ [][Next]_vars
    /\ CatalogueFairness /\ PathsFairness /\ CLIFairness
=============================================================================
