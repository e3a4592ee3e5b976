-------------------------- MODULE TailscaleBackend --------------------------
(***************************************************************************)
(* A Tailscale session: the control worker that registers the node and     *)
(* streams network maps, the data plane it brings up on the way (tun, UDP  *)
(* socket, DERP relay, resolver), the routes of subnet routers and of an   *)
(* exit node, and the looper that takes everything down again.             *)
(*                                                                         *)
(* The looper, the worker, the tun reader, the relay's reader and two more *)
(* readers are threads of their own.  What the peers say to each other is  *)
(* TailscalePeers, what a network map means TSNetmap.                      *)
(***************************************************************************)
EXTENDS Integers, Sequences, FiniteSets

CONSTANTS
    Exits,          \* peers that may advertise 0.0.0.0/0
    None,           \* no exit node
    InboxCap,       \* bound on the messages queued for the looper
    LookupOutcomes  \* outcomes of getaddrinfo: {TRUE}, or both

ASSUME TailscaleAssumption ==
    /\ None \notin Exits /\ Exits \cap {"control", "derp"} = {}
    /\ InboxCap \in Nat \ {0}
    /\ LookupOutcomes \subseteq BOOLEAN

VARIABLES
    fState, fStopRequested,
    fWorker,            \* the looper holds a worker thread's id
    worker,             \* where the worker is
    inbox,              \* messages posted to the looper
    looper,             \* idle, or joining threads; was the stop asked for?
    netmap,             \* what fSession holds: exit nodes, and a subnet router
    fMagicSock,         \* the UDP socket is open
    fTunInterface,      \* the tun has our address
    fTunFd,
    fTunReader,         \* the tun reader runs
    derpReader,         \* none, in RecvPacket, or between two connections
    fDerpUp, fDerpHost,
    tls,                \* the relay's TLS session exists
    fInstalledRoutes,
    fDesiredExitNode, fActiveExitNode,
    fExitCarveouts, fExitOrigGateway,
    table,              \* the kernel's routes
    crashed,            \* a daemon died before this one
    posted              \* what the last call or message reported

lifeVars == <<fState, fStopRequested, fWorker, looper, posted>>
planeVars == <<fMagicSock, fTunInterface, fTunFd, fTunReader>>
derpVars == <<derpReader, fDerpUp, fDerpHost, tls>>
exitVars == <<fDesiredExitNode, fActiveExitNode, fExitCarveouts, fExitOrigGateway>>
routeVars == <<fInstalledRoutes, exitVars, table>>
vars == <<lifeVars, worker, inbox, netmap, planeVars, derpVars, routeVars, crashed>>

Addresses == {"control", "derp"} \cup Exits
Gateways == {"carrier", "tun", "none"}
Subnets == {"subnet"}

\* The table before anything was connected.
CarrierTable == [default |-> "carrier", pins |-> {}, subnets |-> {}]

Idle == [is |-> "Idle", asked |-> FALSE]

ProcessInit ==
    /\ fState = "DISCONNECTED" /\ fStopRequested = FALSE /\ fWorker = FALSE
    /\ worker = "none"
    /\ inbox = <<>> /\ looper = Idle
    /\ netmap = [exits |-> {}, subnets |-> {}]
    /\ fMagicSock = FALSE /\ fTunInterface = FALSE /\ fTunFd = FALSE /\ fTunReader = FALSE
    /\ derpReader = "none" /\ fDerpUp = FALSE /\ fDerpHost = FALSE /\ tls = FALSE
    /\ fInstalledRoutes = {}
    /\ fDesiredExitNode = None /\ fActiveExitNode = None
    /\ fExitCarveouts = {} /\ fExitOrigGateway = "none"
    /\ posted = <<>>

Init ==
    /\ ProcessInit
    /\ table = CarrierTable
    /\ crashed = FALSE

-----------------------------------------------------------------------------
(***************************************************************************)
(* Calls on the looper.                                                    *)
(***************************************************************************)
SetState(s) == fState' = s /\ posted' = <<s>>

LooperFree == looper.is = "Idle"

\* No name, a worker still attached, or no identity.
ConnectRefused ==
    /\ LooperFree
    /\ SetState("ERROR")
    /\ UNCHANGED <<fStopRequested, fWorker, looper, worker, inbox, netmap, planeVars,
                   derpVars, routeVars, crashed>>

\* Connect, to the end: a worker thread, or none could be started.
ConnectStarts ==
    /\ LooperFree /\ ~fWorker
    /\ fDesiredExitNode' = None /\ fActiveExitNode' = None
    /\ fStopRequested' = FALSE
    /\ \/ /\ SetState("CONNECTING")
          /\ fWorker' = TRUE /\ worker' = "register"
       \/ /\ fState' = "ERROR" /\ posted' = <<"CONNECTING", "ERROR">>
          /\ UNCHANGED <<fWorker, worker>>
    /\ UNCHANGED <<looper, inbox, netmap, planeVars, derpVars, fInstalledRoutes,
                   fExitCarveouts, fExitOrigGateway, table, crashed>>

Disconnect ==
    /\ LooperFree
    /\ fStopRequested' = TRUE
    /\ IF fWorker THEN UNCHANGED fState /\ posted' = <<>> ELSE SetState("DISCONNECTED")
    /\ UNCHANGED <<fWorker, looper, worker, inbox, netmap, planeVars, derpVars,
                   routeVars, crashed>>

\* SetExitNode only records the wish; the tun reader's tick applies it.
SetExitNode ==
    /\ LooperFree
    /\ fDesiredExitNode' \in Exits \cup {None}
    /\ UNCHANGED <<lifeVars, worker, inbox, netmap, planeVars, derpVars, fInstalledRoutes,
                   fActiveExitNode, fExitCarveouts, fExitOrigGateway, table, crashed>>

EndsQuietly(m) ==
    CASE m \in {"AuthURL", "Authorized", "NetmapWait"} -> "AUTHENTICATING"
      [] m = "NetmapUp" -> "CONNECTED"
      [] m \in {"Stopped", "Failed"} -> "DISCONNECTED"

\* The state each of the worker's messages stands for (MessageReceived).
Reports(m) ==
    CASE m = "AuthURL"    -> "AUTHENTICATING"
      [] m = "Authorized" -> "AUTHENTICATING"
      [] m = "NetmapUp"   -> "CONNECTED"
      [] m = "NetmapWait" -> "AUTHENTICATING"
      [] m = "Stopped"    -> "DISCONNECTED"
      [] m = "Failed"     -> "ERROR"

LastMessages == {"Stopped", "Failed"}

MessageReceived ==
    /\ LooperFree /\ inbox # <<>> /\ Head(inbox) \notin LastMessages
    /\ inbox' = Tail(inbox)
    /\ SetState(Reports(Head(inbox)))
    /\ UNCHANGED <<fStopRequested, fWorker, looper, worker, netmap, planeVars, derpVars,
                   routeVars, crashed>>

\* kMsgTsFailed: the looper now waits in _StopDataPlane for the readers.
TsFailed ==
    /\ LooperFree /\ inbox # <<>> /\ Head(inbox) \in LastMessages
    /\ inbox' = Tail(inbox)
    /\ fWorker' = FALSE
    /\ looper' = [is |-> Head(inbox), asked |-> fStopRequested]
    /\ fStopRequested' = TRUE
    /\ UNCHANGED <<fState, posted, worker, netmap, planeVars, derpVars, routeVars, crashed>>

-----------------------------------------------------------------------------
(***************************************************************************)
(* Routes.                                                                 *)
(***************************************************************************)
\* resolve_all_ipv4, for the control server and for the relay in use.
Resolved(host, known) ==
    IF known THEN {IF ok THEN {host} ELSE {} : ok \in LookupOutcomes} ELSE {{}}

\* _ExitUnderlayIPs: each outcome of the two lookups, and the exit node's own
\* addresses while it is a peer.
Underlays(x) ==
    {c \cup d \cup ({x} \cap netmap.exits) :
        c \in Resolved("control", TRUE), d \in Resolved("derp", fDerpHost)}

\* _DisableExitNode: the table it leaves.
ExitRestored ==
    IF fActiveExitNode = None THEN table ELSE
        [table EXCEPT !.default = fExitOrigGateway, !.pins = @ \ fExitCarveouts]

NoExitNode ==
    fActiveExitNode' = None /\ fExitCarveouts' = {} /\ fExitOrigGateway' = "none"

\* _EnableExitNode gets as far as the routes: the peer advertises the default
\* route and there is one to take over.
CanEnable(x, t) == fTunInterface /\ x \in netmap.exits /\ t.default # "none"

\* DiffRoutes and DiffCarveouts: what to add to the installed routes, and what
\* to remove, to have the desired ones; and the routes after it.
DiffRoutes(desired, installed) ==
    [add |-> desired \ installed, remove |-> installed \ desired]

Apply(diff, routes) == (routes \ diff.remove) \cup diff.add

EnableWithoutPins(x, t) ==
    \E carve \in Underlays(x) :
        /\ table' = [t EXCEPT !.default = "tun"]
        /\ fExitOrigGateway' = t.default
        /\ fExitCarveouts' = carve
        /\ fActiveExitNode' = x

EnableExitNode(x, t) ==
    \E carve \in Underlays(x) :
        /\ table' = [t EXCEPT !.default = "tun", !.pins = @ \cup carve]
        /\ fExitOrigGateway' = t.default
        /\ fExitCarveouts' = carve
        /\ fActiveExitNode' = x

\* _ReconcileExitCarveouts: the pins follow what the underlay is now.
ReconcileExitCarveouts ==
    \E desired \in Underlays(fActiveExitNode) :
        /\ table' = [table EXCEPT !.pins = Apply(DiffRoutes(desired, fExitCarveouts), @)]
        /\ fExitCarveouts' = desired
        /\ UNCHANGED <<fActiveExitNode, fExitOrigGateway>>

\* A tick of the tun reader, which applies the exit node (_SyncExitNode).
SyncExitNode ==
    /\ fTunReader
    /\ \/ /\ fDesiredExitNode # fActiveExitNode
          /\ IF fDesiredExitNode # None /\ CanEnable(fDesiredExitNode, ExitRestored)
             THEN EnableExitNode(fDesiredExitNode, ExitRestored)
             ELSE table' = ExitRestored /\ NoExitNode
       \/ /\ fDesiredExitNode = fActiveExitNode /\ fActiveExitNode # None
          /\ ReconcileExitCarveouts
    /\ UNCHANGED <<lifeVars, worker, inbox, netmap, planeVars, derpVars,
                   fInstalledRoutes, fDesiredExitNode, crashed>>

-----------------------------------------------------------------------------
(***************************************************************************)
(* Taking the session down.                                                *)
(***************************************************************************)
\* The tun reader sees the flag.
TunReaderExits ==
    /\ fTunReader /\ fStopRequested
    /\ fTunReader' = FALSE
    /\ UNCHANGED <<lifeVars, worker, inbox, netmap, fMagicSock, fTunInterface, fTunFd,
                   derpVars, routeVars, crashed>>

CloseRelay == tls' = IF fDerpUp THEN FALSE ELSE tls

\* _StopDataPlane, once the readers are joined: the relay is closed if it is up.
\* The readers of the socket and of port 53 have nothing to finish.
StopDataPlane ==
    /\ ~fTunReader /\ derpReader = "none"
    /\ CloseRelay
    /\ fDerpUp' = FALSE /\ fDerpHost' = FALSE /\ fTunFd' = FALSE

TeardownKeepsExit ==
    IF ~fTunInterface
    THEN UNCHANGED <<fTunInterface, fInstalledRoutes, fActiveExitNode, fExitCarveouts,
                     fExitOrigGateway, table>>
    ELSE /\ table' = [table EXCEPT !.subnets = @ \ fInstalledRoutes]
         /\ NoExitNode
         /\ fInstalledRoutes' = {}
         /\ fTunInterface' = FALSE

\* _TeardownRoutes, on the table _DisableExitNode left.
TeardownRoutes(t) == [t EXCEPT !.subnets = @ \ fInstalledRoutes]

\* _TeardownTun: the exit node, the subnet routes, the interface.
TeardownTun ==
    IF ~fTunInterface
    THEN UNCHANGED <<fTunInterface, fInstalledRoutes, fActiveExitNode, fExitCarveouts,
                     fExitOrigGateway, table>>
    ELSE /\ table' = TeardownRoutes(ExitRestored)
         /\ NoExitNode
         /\ fInstalledRoutes' = {}
         /\ fTunInterface' = FALSE

\* The rest of kMsgTsFailed, once every reader has ended.
SessionEnds ==
    /\ looper.is \in LastMessages
    /\ StopDataPlane /\ TeardownTun
    /\ SetState(Reports(looper.is))
    /\ looper' = Idle
    /\ UNCHANGED <<fStopRequested, fWorker, worker, inbox, netmap, fMagicSock, fTunReader,
                   derpReader, fDesiredExitNode, crashed>>

\* The daemon quits: the destructor waits for the worker as well.
QuitBegins ==
    /\ LooperFree
    /\ looper' = [is |-> "Quit", asked |-> fStopRequested]
    /\ fStopRequested' = TRUE
    /\ UNCHANGED <<fState, posted, fWorker, worker, inbox, netmap, planeVars, derpVars,
                   routeVars, crashed>>

\* The state a new daemon starts from; RecoverIfCrashed does nothing.
NewDaemon ==
    /\ fState' = "DISCONNECTED" /\ fStopRequested' = FALSE /\ fWorker' = FALSE
    /\ worker' = "none"
    /\ inbox' = <<>> /\ looper' = Idle
    /\ netmap' = [exits |-> {}, subnets |-> {}]
    /\ fMagicSock' = FALSE /\ fTunInterface' = FALSE /\ fTunFd' = FALSE /\ fTunReader' = FALSE
    /\ derpReader' = "none" /\ fDerpUp' = FALSE /\ fDerpHost' = FALSE /\ tls' = FALSE
    /\ fInstalledRoutes' = {}
    /\ fDesiredExitNode' = None /\ fActiveExitNode' = None
    /\ fExitCarveouts' = {} /\ fExitOrigGateway' = "none"
    /\ posted' = <<>>

QuitEnds ==
    /\ looper.is = "Quit" /\ worker = "none"
    /\ ~fTunReader /\ derpReader = "none"
    /\ table' = IF fTunInterface THEN TeardownRoutes(ExitRestored) ELSE table
    /\ NewDaemon
    /\ UNCHANGED crashed

\* The daemon dies and another is started; the routes are the kernel's and stay.
Crash ==
    /\ crashed' = TRUE
    /\ NewDaemon
    /\ UNCHANGED table

-----------------------------------------------------------------------------
(***************************************************************************)
(* The control worker.                                                     *)
(***************************************************************************)
\* SendMessage waits for room in the queue, which a looper that quits no longer
\* empties.
CanPost == Len(inbox) < InboxCap \/ looper.is = "Quit"

Post(m) == inbox' = Append(inbox, m)

\* The worker's last message; the map loop closes the socket it owns.
Finish(m) ==
    /\ Post(m)
    /\ worker' = "none" /\ fMagicSock' = FALSE

\* _RunMap begins: the socket is opened up front, if it can be.
EnterMap ==
    /\ Post("Authorized")
    /\ worker' = "openFirst"
    /\ fMagicSock' \in {fMagicSock, TRUE}

\* The answer to a registration, or to a poll of one (Register): the call
\* failed, an error text, authorized, a login URL, or none of them.
Answers == {"failed", "error", "authorized", "url", "nothing"}

\* _RunControlFlow up to the login: the flag is read when the call returns.
RegisterNode ==
    /\ worker = "register" /\ CanPost
    /\ \E a \in Answers :
         IF fStopRequested THEN Finish("Stopped") ELSE
           CASE a \in {"failed", "error", "nothing"} -> Finish("Failed")
             [] a = "authorized" -> EnterMap
             [] a = "url" -> /\ Post("AuthURL") /\ worker' = "poll"
                             /\ UNCHANGED fMagicSock
    /\ UNCHANGED <<lifeVars, netmap, fTunInterface, fTunFd, fTunReader, derpVars, routeVars, crashed>>

\* One PollAuthorized of the login loop; no answer yet is polled again.
PollLogin ==
    /\ worker = "poll" /\ CanPost
    /\ \E a \in Answers :
         IF fStopRequested THEN Finish("Stopped") ELSE
           CASE a \in {"failed", "error"} -> Finish("Failed")
             [] a = "authorized" -> EnterMap
             [] a \in {"url", "nothing"} -> UNCHANGED <<inbox, worker, fMagicSock>>
    /\ UNCHANGED <<lifeVars, netmap, fTunInterface, fTunFd, fTunReader, derpVars, routeVars, crashed>>

\* A map session is over (_RunMap): the first one must have been accepted, later
\* ones are tried again after a wait, and a stop ends the loop.
MapSessionOver(failedFirst) ==
    IF fStopRequested THEN Finish("Stopped")
    ELSE IF failedFirst THEN Finish("Failed")
    ELSE worker' = "wait" /\ UNCHANGED <<inbox, fMagicSock>>

\* _RunMapSession up to the answer: Establish, then MapStream::Begin.
OpenMap ==
    /\ worker \in {"openFirst", "open"} /\ CanPost
    /\ \/ MapSessionOver(worker = "openFirst")
       \/ worker' = "read" /\ UNCHANGED <<inbox, fMagicSock>>
    /\ UNCHANGED <<lifeVars, netmap, fTunInterface, fTunFd, fTunReader, derpVars, routeVars, crashed>>

BackoffIgnoresStop ==
    /\ worker = "wait" /\ CanPost
    /\ worker' = "open" /\ UNCHANGED <<inbox, fMagicSock>>
    /\ UNCHANGED <<lifeVars, netmap, fTunInterface, fTunFd, fTunReader, derpVars, routeVars, crashed>>

\* _SleepInterruptible, then the next attempt.
MapBackoff ==
    /\ worker = "wait" /\ CanPost
    /\ IF fStopRequested THEN Finish("Stopped")
       ELSE worker' = "open" /\ UNCHANGED <<inbox, fMagicSock>>
    /\ UNCHANGED <<lifeVars, netmap, fTunInterface, fTunFd, fTunReader, derpVars, routeVars, crashed>>

\* The stream ends, cleanly or not, or a quiet period lets the loop see a stop.
MapStreamEnds ==
    /\ worker = "read" /\ CanPost
    /\ MapSessionOver(FALSE)
    /\ UNCHANGED <<lifeVars, netmap, fTunInterface, fTunFd, fTunReader, derpVars, routeVars, crashed>>

\* ifconfig gives the tun its address; deleting whatever held the slot takes
\* that interface's routes along (ProbeFreeSlot).
BringUpTun ==
    IF fTunInterface THEN UNCHANGED <<fTunInterface, table>> ELSE
        \/ UNCHANGED <<fTunInterface, table>>
        \/ /\ fTunInterface' = TRUE
           /\ table' = [table EXCEPT !.default = IF @ = "tun" THEN "none" ELSE @, !.subnets = {}]

\* The tun is opened and its readers start, once it and the socket are there.
StartDataPlane ==
    IF fTunInterface' /\ fMagicSock'
    THEN \/ fTunFd' = TRUE /\ fTunReader' = TRUE
         \/ UNCHANGED <<fTunFd, fTunReader>>
    ELSE UNCHANGED <<fTunFd, fTunReader>>

\* _BringUpMagicSock: opens the socket if _RunMap could not.
BringUpMagicSock == fMagicSock' \in {fMagicSock, TRUE}

\* A MapResponse: the new map, and the data plane until the tun is open.
MapMessage ==
    /\ worker = "read"
    /\ netmap' \in [exits : SUBSET Exits, subnets : SUBSET Subnets]
    /\ IF fTunFd
       THEN worker' = "sync" /\ UNCHANGED <<planeVars, table>>
       ELSE /\ worker' = "relay"
            /\ BringUpMagicSock /\ BringUpTun /\ StartDataPlane
    /\ UNCHANGED <<lifeVars, inbox, derpVars, fInstalledRoutes, exitVars, crashed>>

\* TlsClient::Connect: refused while there is a session, or failed, or connected.
TlsConnect(connected, failed) ==
    \/ UNCHANGED tls /\ failed
    \/ ~tls /\ tls' = TRUE /\ connected

\* DerpClient::Connect: a failure after the TLS handshake leaves the session.
DerpConnect(up, failed) == TlsConnect(up, failed) \/ TlsConnect(failed, failed)

\* _BringUpDerp, with every map until the tun is open.
BringUpRelay ==
    /\ worker = "relay"
    /\ worker' = "sync"
    /\ \/ UNCHANGED derpVars   \* already up, or no relay in the map
       \/ /\ ~fDerpUp
          /\ DerpConnect(fDerpUp' = TRUE /\ fDerpHost' = TRUE /\ derpReader' = "recv",
                         UNCHANGED <<fDerpUp, fDerpHost, derpReader>>)
    /\ UNCHANGED <<lifeVars, inbox, netmap, planeVars, routeVars, crashed>>

\* _SyncRoutes: the subnet routes become the map's, if the tun has an address.
SyncRoutes ==
    IF fTunInterface
    THEN /\ fInstalledRoutes' = netmap.subnets
         /\ table' = [table EXCEPT !.subnets =
                        Apply(DiffRoutes(netmap.subnets, fInstalledRoutes), @)]
    ELSE UNCHANGED <<fInstalledRoutes, table>>

ReportsUp ==
    /\ worker = "sync" /\ CanPost
    /\ SyncRoutes
    /\ Post("NetmapUp")
    /\ worker' = IF fStopRequested THEN "wait" ELSE "read"
    /\ UNCHANGED <<lifeVars, netmap, planeVars, derpVars, exitVars, crashed>>

\* The map's summary goes to the looper, then the loop looks at the stop flag,
\* which ends the session and the wait after it.
SyncAndReport ==
    /\ worker = "sync" /\ CanPost
    /\ SyncRoutes
    /\ Post(IF fTunFd THEN "NetmapUp" ELSE "NetmapWait")
    /\ worker' = IF fStopRequested THEN "wait" ELSE "read"
    /\ UNCHANGED <<lifeVars, netmap, planeVars, derpVars, exitVars, crashed>>

-----------------------------------------------------------------------------
(***************************************************************************)
(* The relay's reader (_RunDerpReader).                                    *)
(***************************************************************************)
\* RecvPacket failed: a stop ends the reader, anything else takes the relay down.
DerpDropped ==
    /\ derpReader = "recv"
    /\ IF fStopRequested
       THEN derpReader' = "none" /\ UNCHANGED <<fDerpUp, tls>>
       ELSE derpReader' = "wait" /\ fDerpUp' = FALSE /\ tls' = FALSE
    /\ UNCHANGED <<lifeVars, worker, inbox, netmap, planeVars, fDerpHost, routeVars, crashed>>

\* The wait, then _DerpReconnect.  After a failure RecvPacket fails at once.
DerpReconnect ==
    /\ derpReader = "wait"
    /\ IF fStopRequested
       THEN derpReader' = "none" /\ UNCHANGED <<fDerpUp, tls>>
       ELSE /\ derpReader' = "recv"
            /\ DerpConnect(fDerpUp' = TRUE, UNCHANGED fDerpUp)
    /\ UNCHANGED <<lifeVars, worker, inbox, netmap, planeVars, fDerpHost, routeVars, crashed>>

-----------------------------------------------------------------------------
Calls == ConnectRefused \/ ConnectStarts \/ Disconnect \/ SetExitNode \/ QuitBegins

LooperWorks == MessageReceived \/ TsFailed \/ SessionEnds \/ QuitEnds

Worker ==
    \/ RegisterNode \/ PollLogin \/ OpenMap \/ MapBackoff \/ MapStreamEnds
    \/ MapMessage \/ BringUpRelay \/ SyncAndReport

Relay == DerpDropped \/ DerpReconnect

Next == Calls \/ LooperWorks \/ Worker \/ Relay \/ SyncExitNode \/ TunReaderExits \/ Crash

\* Reads and connects time out, sleeps end, and the looper drains its queue.
\* Nothing is assumed of the servers' answers.
Fairness ==
    /\ WF_vars(LooperWorks) /\ WF_vars(Worker) /\ WF_vars(Relay) /\ WF_vars(TunReaderExits)

Spec == Init /\ [][Next]_vars

FairSpec == Spec /\ Fairness

-----------------------------------------------------------------------------
\* CONNECTED is shown only over an open tun: a map's summary that was queued
\* before the session ended is handled before its end is (kMsgTsNetmap,
\* kMsgTsFailed).
ConnectedMeansTun == fState = "CONNECTED" => fTunFd

\* Without the tun nothing of ours is left in the table: the default route, the
\* carve-outs and the subnet routes are given back however the session ended
\* and whichever exit node it was changing to (_TeardownTun; the tun reader's
\* ticks are over before).
TableGivenBack == ~crashed /\ ~fTunInterface => table = CarrierTable

\* While an exit node has the default route, the control server is reached over
\* the carrier: "our own underlay packets must still leave on the carrier, or
\* they'd loop back into the tunnel they carry" (TSRoutes.h).
UnderlayPinned == fActiveExitNode # None => "control" \in table.pins

\* What the daemon sees of this backend.  Joining the readers is part of
\* handling the worker's last message.
Seen == [state  |-> fState,
         worker |-> IF fWorker \/ looper.is \in LastMessages THEN "running" ELSE "none",
         stop   |-> IF looper.is = "Idle" THEN fStopRequested ELSE looper.asked]

Contract == INSTANCE BackendContract WITH Kind <- "Tailscale", bk <- Seen

\* The backend keeps the contract the daemon relies on: what Connect, Disconnect
\* and the worker may report, and in which state.
ImplementsContract == Contract!Spec

\* A stop takes effect: the worker ends and the session is taken down, in a
\* login, in a wait between two connections, or with the relay down.
StopEndsSession == fWorker /\ fStopRequested ~> ~fWorker /\ ~fTunInterface /\ ~fTunReader
=============================================================================
