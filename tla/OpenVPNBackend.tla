--------------------------- MODULE OpenVPNBackend ---------------------------
(***************************************************************************)
(* One openvpn child after another, as the OpenVPN backend drives them:    *)
(* spawn, the poll for the management socket, the reader thread, the log   *)
(* scanner, the route fix-up with its session file, and the clean-up.      *)
(*                                                                         *)
(* Four parties take steps: the looper (Connect, Disconnect, poll ticks,   *)
(* queued events), the child, the management reader, which only forwards   *)
(* what the child says to the looper's queue, and the log scanner, which   *)
(* harvests gateway and tunnel peer from the child's log on its own.       *)
(* A looper step is atomic for the queue, so inbox changes only between    *)
(* them.                                                                   *)
(***************************************************************************)
EXTENDS Integers, Sequences, FiniteSets

CONSTANTS
    MaxSpawns,      \* bound on the children of one run
    Peers,          \* tunnel peers the VPN server hands out
    Carrier,        \* the gateway of the carrier link
    None,           \* an empty string in a scanned field
    MgmtAttempts,   \* kMgmtConnectAttempts
    InboxCap,       \* bound on the events in the looper's queue
    LogCap,         \* bound on the log lines nobody read yet
    Reentry,        \* may Connect come while an earlier child is attached?
    LateLog,        \* may the log scanner lag behind the management reader?
    CrashPoints,    \* where the daemon may die: "rest", "install", "refresh", "remove"
    MaxCrashes

ASSUME OpenVPNAssumption ==
    /\ MaxSpawns \in Nat /\ MgmtAttempts \in Nat \ {0} /\ InboxCap \in Nat /\ LogCap \in Nat
    /\ MaxCrashes \in Nat
    /\ Carrier \notin Peers /\ None \notin Peers \cup {Carrier}
    /\ Reentry \in BOOLEAN /\ LateLog \in BOOLEAN
    /\ CrashPoints \subseteq {"rest", "install", "refresh", "remove"}

Child == 1..MaxSpawns
NoChild == 0

VARIABLES
    fState,
    fStopRequested,
    fPid,
    fMgmtPoll,          \* the poll's BMessageRunner exists
    fMgmtAttempt,
    fSocket,            \* the child whose management socket is open
    fTunInterface,      \* a tun slot is held
    fAuth,              \* credentials are in memory
    fOrigGateway,
    fTunPeer,
    fInstalledTunPeer,
    fRoutesInstalled,
    child,              \* phase of each child
    told,               \* children sent SIGTERM
    readers,            \* children with a management reader
    scanners,           \* children with a log scanner
    log,                \* lines each child wrote and nobody read yet
    inbox,              \* events and reader exits queued for the looper
    defaults,           \* gateways of the default routes in the kernel
    pinned,             \* the host route to the VPN server exists
    session,            \* the session file
    alive, crashes,     \* the daemon runs; how often it died
    posted,             \* states the last looper step reported
    exiting             \* EXITING was handled, the reader's end was not

sessionVars == <<fState, fStopRequested, fPid, fMgmtPoll, fMgmtAttempt, fSocket,
                 fTunInterface, fAuth>>
scanVars == <<fOrigGateway, fTunPeer>>
routeVars == <<fInstalledTunPeer, fRoutesInstalled, defaults, pinned, session>>
childVars == <<child, told, readers, scanners, log>>
crashVars == <<alive, crashes>>
reportVars == <<posted, exiting>>
vars == <<sessionVars, scanVars, routeVars, childVars, inbox, crashVars, reportVars>>

DownStates == {"DISCONNECTED", "ERROR"}

\* The session file: absent, truncated by a crash, or a flattened record.
SessionFile == [is : {"absent", "corrupt", "record"}, pid : Child \cup {NoChild},
                peer : Peers \cup {None}, gateway : Peers \cup {Carrier, None}]
NoFile == [is |-> "absent", pid |-> NoChild, peer |-> None, gateway |-> None]
CorruptFile == [NoFile EXCEPT !.is = "corrupt"]

Init ==
    /\ fState = "DISCONNECTED" /\ fStopRequested = FALSE
    /\ fPid = NoChild /\ fMgmtPoll = FALSE /\ fMgmtAttempt = 0 /\ fSocket = NoChild
    /\ fTunInterface = FALSE /\ fAuth = FALSE
    /\ fOrigGateway = None /\ fTunPeer = None
    /\ fInstalledTunPeer = None /\ fRoutesInstalled = FALSE
    /\ child = [p \in Child |-> "unborn"]
    /\ told = {} /\ readers = {} /\ scanners = {}
    /\ log = [p \in Child |-> <<>>]
    /\ inbox = <<>>
    /\ defaults = {Carrier} /\ pinned = FALSE /\ session = NoFile
    /\ alive = TRUE /\ crashes = 0
    /\ posted = <<>> /\ exiting = FALSE

-----------------------------------------------------------------------------
\* _SetState: every change is reported.
SetState(s) == fState' = s /\ posted' = <<s>>

NoReport == UNCHANGED fState /\ posted' = <<>>

-----------------------------------------------------------------------------
(***************************************************************************)
(* Routes and the session file.                                            *)
(***************************************************************************)
\* _ApplyRestore; what an empty field makes it skip included.
Restored(routes, tun, peer, gateway) ==
    (IF tun /\ peer # None THEN routes \ {peer} ELSE routes)
        \cup (IF gateway # None THEN {gateway} ELSE {})

\* _WriteSessionFile.
WriteSessionFile ==
    session' = [is |-> "record", pid |-> fPid, peer |-> fTunPeer, gateway |-> fOrigGateway]

\* _InstallRoutes: refuses with a value missing.
InstallRoutes ==
    IF fOrigGateway = None \/ fTunPeer = None
    THEN UNCHANGED routeVars
    ELSE /\ pinned' = TRUE
         /\ defaults' = (defaults \ {fOrigGateway}) \cup {fTunPeer}
         /\ fInstalledTunPeer' = fTunPeer
         /\ fRoutesInstalled' = TRUE
         /\ WriteSessionFile

RefreshForgetsOld ==
    IF fTunPeer \in {None, fInstalledTunPeer}
    THEN UNCHANGED routeVars
    ELSE /\ defaults' = defaults \cup {fTunPeer}
         /\ fInstalledTunPeer' = fTunPeer
         /\ WriteSessionFile
         /\ UNCHANGED <<fRoutesInstalled, pinned>>

RefreshWithoutRecord ==
    IF fTunPeer \in {None, fInstalledTunPeer}
    THEN UNCHANGED routeVars
    ELSE /\ defaults' = (defaults \ {fInstalledTunPeer}) \cup {fTunPeer}
         /\ fInstalledTunPeer' = fTunPeer
         /\ UNCHANGED <<fRoutesInstalled, pinned, session>>

\* _RefreshTunRoute: after a soft restart the server may hand out another peer.
RefreshTunRoute ==
    IF fTunPeer \in {None, fInstalledTunPeer}
    THEN UNCHANGED routeVars
    ELSE /\ defaults' = (defaults \ {fInstalledTunPeer}) \cup {fTunPeer}
         /\ fInstalledTunPeer' = fTunPeer
         /\ WriteSessionFile
         /\ UNCHANGED <<fRoutesInstalled, pinned>>

RemoveByScannedPeer(tun) ==
    IF ~fRoutesInstalled
    THEN UNCHANGED routeVars
    ELSE /\ defaults' = Restored(defaults, tun, fTunPeer, fOrigGateway)
         /\ pinned' = FALSE
         /\ fRoutesInstalled' = FALSE
         /\ session' = NoFile
         /\ fInstalledTunPeer' = None

\* _RemoveRoutes, through the peer the default was installed for.
RemoveRoutes(tun) ==
    IF ~fRoutesInstalled
    THEN UNCHANGED routeVars
    ELSE /\ defaults' = Restored(defaults, tun, fInstalledTunPeer, fOrigGateway)
         /\ pinned' = (pinned /\ fOrigGateway = None)
         /\ fRoutesInstalled' = FALSE
         /\ session' = NoFile
         /\ fInstalledTunPeer' = None

\* Closing the management socket ends its reader, which says so once more.
CleanupPosts == IF fSocket \in readers THEN <<"READER_EXITED">> ELSE <<>>

ReapForgotten(pid) == UNCHANGED child

\* waitpid, escalating to SIGTERM and SIGKILL: the child is gone afterwards.
Reap(pid) == child' = [p \in Child |-> IF p = pid THEN "reaped" ELSE child[p]]

\* _Cleanup(true) when fPid is pid and fTunInterface is tun: only that child is
\* reaped, only the last reader and the last scanner are joined.
Cleanup(pid, tun) ==
    /\ fMgmtPoll' = FALSE
    /\ fSocket' = NoChild
    /\ readers' = readers \ {fSocket}
    /\ scanners' = scanners \ {pid}
    /\ Reap(pid)
    /\ log' = [p \in Child |-> IF p = pid THEN <<>> ELSE log[p]]
    /\ fPid' = NoChild
    /\ RemoveRoutes(tun)
    /\ fOrigGateway' = None /\ fTunPeer' = None
    /\ fTunInterface' = FALSE
    /\ fAuth' = FALSE
    /\ UNCHANGED told

-----------------------------------------------------------------------------
(***************************************************************************)
(* Calls of the daemon.                                                    *)
(***************************************************************************)
\* Nothing of an earlier session is left that could still post.
Detached == /\ fPid = NoChild /\ readers = {} /\ ~fMgmtPoll
            /\ \A i \in 1..Len(inbox) : inbox[i] # "READER_EXITED"

\* The guard of Connect, and the flag it resets once past it.
Connectable ==
    /\ alive
    /\ fState \in DownStates
    /\ Reentry \/ Detached
    /\ fStopRequested' = FALSE
    /\ exiting' = FALSE
    /\ UNCHANGED crashVars

\* A child that has not been spawned yet.
Fresh == {p \in Child : child[p] = "unborn" /\ \A q \in 1..(p - 1) : child[q] # "unborn"}

\* SetCredentials, as _HandleConnect and _AttemptReconnect call it before
\* Connect: a connect without credentials leaves the ones in memory alone.
SetCredentials == fAuth' \in {TRUE, fAuth}

\* No usable tun slot, or openvpn could not be spawned.
ConnectFails ==
    /\ Connectable
    /\ SetCredentials
    /\ fTunInterface' \in BOOLEAN
    /\ fState' = "ERROR" /\ posted' = <<"CONNECTING", "ERROR">>
    /\ UNCHANGED <<fPid, fMgmtPoll, fMgmtAttempt, fSocket, scanVars, routeVars, childVars,
                   inbox>>

\* Spawned, but the timer of _BeginMgmtConnect could not be created.
ConnectWithoutPoll ==
    /\ Connectable
    /\ \E p \in Fresh : Cleanup(p, TRUE)
    /\ fMgmtAttempt' = 0
    /\ inbox' = inbox \o CleanupPosts
    /\ fState' = "ERROR" /\ posted' = <<"CONNECTING", "ERROR">>

\* Spawned and polling.  A log scanner that cannot be started is not an error.
ConnectStarts ==
    /\ Connectable
    /\ SetCredentials
    /\ \E p \in Fresh :
         /\ fPid' = p
         /\ child' = [child EXCEPT ![p] = "starting"]
         /\ scanners' = scanners \cup {p} \/ (LateLog /\ UNCHANGED scanners)
    /\ fMgmtPoll' = TRUE /\ fMgmtAttempt' = 0
    /\ fTunInterface' = TRUE
    /\ SetState("CONNECTING")
    /\ UNCHANGED <<fSocket, scanVars, routeVars, told, readers, log, inbox>>

Connect == ConnectFails \/ ConnectWithoutPoll \/ ConnectStarts

StopOnlyByPid == IF fSocket # NoChild THEN {} ELSE {fPid} \cap Child

\* "signal SIGTERM" on the management socket, or else kill().
StopTarget == (IF fSocket # NoChild THEN {fSocket} ELSE {fPid}) \cap Child

\* Disconnect asks the child behind the socket, or else the last one spawned.
Disconnect ==
    /\ alive
    /\ IF fState = "DISCONNECTED" THEN UNCHANGED <<fStopRequested, told>>
       ELSE /\ fStopRequested' = TRUE
            /\ told' = told \cup StopTarget
    /\ NoReport
    /\ UNCHANGED <<fPid, fMgmtPoll, fMgmtAttempt, fSocket, fTunInterface, fAuth, scanVars,
                   routeVars, child, readers, scanners, log, inbox, crashVars, exiting>>

-----------------------------------------------------------------------------
(***************************************************************************)
(* The management poll.                                                    *)
(***************************************************************************)
\* A probe that ends the session: cancelled, the child is gone, the attempts
\* are used up, or the reader could not be started.
PollCleanup(s) ==
    /\ Cleanup(fPid, fTunInterface)
    /\ inbox' = inbox \o CleanupPosts
    /\ SetState(s)
    /\ exiting' = FALSE
    /\ UNCHANGED <<fStopRequested, crashVars>>

AttemptsUsedUp == fMgmtAttempt + 1 >= MgmtAttempts

TryMgmtConnect ==
    /\ alive /\ fMgmtPoll
    /\ \/ /\ fStopRequested
          /\ PollCleanup("DISCONNECTED")
          /\ UNCHANGED fMgmtAttempt
       \/ /\ ~fStopRequested /\ child[fPid] = "dead"
          /\ PollCleanup("ERROR")
          /\ UNCHANGED fMgmtAttempt
       \/ \* connected: the password, state on, hold release, and the reader
          /\ ~fStopRequested /\ child[fPid] = "held"
          /\ fSocket' = fPid
          /\ fMgmtPoll' = FALSE
          /\ readers' = readers \cup {fPid}
          /\ child' = [child EXCEPT ![fPid] = "connecting"]
          /\ UNCHANGED <<fState, fStopRequested, fPid, fMgmtAttempt, fTunInterface, fAuth,
                         scanVars, routeVars, told, scanners, log, inbox, crashVars, reportVars>>
       \/ \* connected, but no reader thread
          /\ ~fStopRequested /\ child[fPid] = "held"
          /\ PollCleanup("ERROR")
          /\ UNCHANGED fMgmtAttempt
       \/ /\ ~fStopRequested /\ child[fPid] = "starting"
          /\ fMgmtAttempt' = fMgmtAttempt + 1
          /\ IF AttemptsUsedUp
             THEN PollCleanup("ERROR")
             ELSE UNCHANGED <<fState, fStopRequested, fPid, fMgmtPoll, fSocket, fTunInterface,
                              fAuth, scanVars, routeVars, childVars, inbox, crashVars,
                              reportVars>>

-----------------------------------------------------------------------------
(***************************************************************************)
(* Events the reader queued, handled by the looper in order.               *)
(***************************************************************************)
Handles(e) == /\ alive /\ inbox # <<>> /\ Head(inbox) = e
              /\ UNCHANGED <<fStopRequested, fMgmtAttempt, crashVars>>

\* Everything but the state, the routes and the clean-up's variables.
QuietHandling == /\ inbox' = Tail(inbox)
                 /\ UNCHANGED <<fPid, fMgmtPoll, fSocket, fTunInterface, fAuth, scanVars,
                                childVars>>

HandleProgress ==
    \E e \in {"CONNECTING", "AUTHENTICATING", "RECONNECTING"} :
        /\ Handles(e) /\ QuietHandling
        /\ SetState(e)
        /\ UNCHANGED <<routeVars, exiting>>

\* AUTH_FAILED, FATAL, and a state name StateForName does not know.
HandleFailure ==
    /\ Handles("FAILURE") /\ QuietHandling
    /\ SetState("ERROR")
    /\ UNCHANGED <<routeVars, exiting>>

HandlePassword ==
    /\ Handles("PASSWORD") /\ QuietHandling
    /\ IF fAuth THEN UNCHANGED <<fState, posted>> ELSE SetState("AUTHENTICATING")
    /\ UNCHANGED <<routeVars, exiting>>

HandleConnected ==
    /\ Handles("CONNECTED") /\ QuietHandling
    /\ IF fRoutesInstalled THEN RefreshTunRoute ELSE InstallRoutes
    /\ SetState("CONNECTED")
    /\ UNCHANGED exiting

ExitingHidesError ==
    /\ Handles("EXITING") /\ QuietHandling
    /\ SetState("DISCONNECTED")
    /\ exiting' = TRUE
    /\ UNCHANGED routeVars

\* EXITING never hides an error that is already shown.
HandleExiting ==
    /\ Handles("EXITING") /\ QuietHandling
    /\ IF fState = "ERROR" THEN NoReport ELSE SetState("DISCONNECTED")
    /\ exiting' = TRUE
    /\ UNCHANGED routeVars

HandleReaderExited ==
    /\ Handles("READER_EXITED")
    /\ inbox' = Tail(inbox) \o CleanupPosts
    /\ Cleanup(fPid, fTunInterface)
    /\ IF fState = "ERROR" THEN NoReport ELSE SetState("DISCONNECTED")
    /\ exiting' = FALSE

-----------------------------------------------------------------------------
(***************************************************************************)
(* The child and its two threads.                                          *)
(***************************************************************************)
Running == {p \in Child : child[p] \in {"starting", "held", "connecting", "pushed", "up",
                                        "failed", "leaving"}}

\* The child moves on and tells the management client, if there is one.
Says(p, phase, e) ==
    /\ Len(inbox) < InboxCap
    /\ child' = [child EXCEPT ![p] = phase]
    /\ inbox' = IF p \in readers THEN Append(inbox, e) ELSE inbox

ChildListens(p) ==
    /\ child[p] = "starting"
    /\ child' = [child EXCEPT ![p] = "held"]
    /\ UNCHANGED <<log, inbox>>

\* The default gateway as openvpn finds it, and the peer the server pushed.
ChildPushed(p) ==
    /\ child[p] = "connecting" /\ Len(log[p]) + 2 <= LogCap
    /\ \E e \in {"CONNECTING", "AUTHENTICATING", "PASSWORD", "FAILURE"} : Says(p, "pushed", e)
    /\ \E q \in Peers, g \in defaults :
         log' = [log EXCEPT ![p] = @ \o <<[gateway |-> g, peer |-> None],
                                          [gateway |-> None, peer |-> q]>>]

ChildConnected(p) ==
    /\ child[p] = "pushed"
    /\ LateLog \/ log[p] = <<>>
    /\ Says(p, "up", "CONNECTED")
    /\ UNCHANGED log

\* A soft restart (ping-restart).
ChildRestarts(p) ==
    /\ child[p] = "up"
    /\ Says(p, "connecting", "RECONNECTING")
    /\ UNCHANGED log

ChildFails(p) ==
    /\ child[p] \in {"connecting", "pushed", "up"}
    /\ Says(p, "failed", "FAILURE")
    /\ UNCHANGED log

ChildLeaves(p) ==
    /\ p \in Running /\ child[p] # "leaving"
    /\ Says(p, "leaving", "EXITING")
    /\ UNCHANGED log

\* With or without having announced it.
ChildDies(p) ==
    /\ p \in Running
    /\ child' = [child EXCEPT ![p] = "dead"]
    /\ UNCHANGED <<log, inbox>>

ChildStep(p) ==
    /\ \/ ChildListens(p) \/ ChildPushed(p) \/ ChildConnected(p) \/ ChildRestarts(p)
       \/ ChildFails(p) \/ ChildLeaves(p) \/ ChildDies(p)
    /\ UNCHANGED <<sessionVars, scanVars, routeVars, told, readers, scanners, crashVars,
                   reportVars>>

ReaderEnds(p) ==
    /\ p \in readers /\ child[p] \in {"dead", "reaped"}
    /\ readers' = readers \ {p}
    /\ inbox' = Append(inbox, "READER_EXITED")
    /\ UNCHANGED <<sessionVars, scanVars, routeVars, child, told, scanners, log, crashVars,
                   reportVars>>

\* The first gateway of a session stays: later ones are read off the tunnel.
KeepFirstGateway(line) ==
    fOrigGateway' = IF fOrigGateway = None THEN line.gateway ELSE fOrigGateway

\* _ScanLogLine on the scanner's thread.
ScanLogLine(p) ==
    /\ p \in scanners /\ log[p] # <<>>
    /\ log' = [log EXCEPT ![p] = Tail(@)]
    /\ KeepFirstGateway(Head(log[p]))
    /\ fTunPeer' = IF Head(log[p]).peer # None THEN Head(log[p]).peer ELSE fTunPeer
    /\ UNCHANGED <<sessionVars, routeVars, child, told, readers, scanners, inbox, crashVars,
                   reportVars>>

-----------------------------------------------------------------------------
(***************************************************************************)
(* The daemon dies and is started again.  Its children live on.            *)
(***************************************************************************)
MemoryLost ==
    /\ crashes < MaxCrashes
    /\ alive /\ alive' = FALSE
    /\ crashes' = crashes + 1
    /\ fState' = "DISCONNECTED" /\ fStopRequested' = FALSE
    /\ fPid' = NoChild /\ fMgmtPoll' = FALSE /\ fMgmtAttempt' = 0 /\ fSocket' = NoChild
    /\ fTunInterface' = FALSE /\ fAuth' = FALSE
    /\ fOrigGateway' = None /\ fTunPeer' = None
    /\ fInstalledTunPeer' = None /\ fRoutesInstalled' = FALSE
    /\ readers' = {} /\ scanners' = {} /\ inbox' = <<>>
    /\ posted' = <<>> /\ exiting' = FALSE
    /\ UNCHANGED <<child, told, log>>

CrashAtRest ==
    /\ "rest" \in CrashPoints
    /\ MemoryLost
    /\ UNCHANGED <<defaults, pinned, session>>

\* Between the route commands of _InstallRoutes, or before the session file is
\* written to its end: the file does not exist, or cannot be read back.
CrashInstalling ==
    /\ "install" \in CrashPoints
    /\ alive /\ inbox # <<>> /\ Head(inbox) = "CONNECTED"
    /\ ~fRoutesInstalled /\ fOrigGateway # None /\ fTunPeer # None
    /\ MemoryLost
    /\ pinned' = TRUE
    /\ \/ UNCHANGED <<defaults, session>>
       \/ defaults' = defaults \ {fOrigGateway} /\ UNCHANGED session
       \/ /\ defaults' = (defaults \ {fOrigGateway}) \cup {fTunPeer}
          /\ session' \in {session, CorruptFile}

\* Between the route commands of _RefreshTunRoute, or while the session file is
\* being rewritten: it still names the old peer, or cannot be read back.
CrashRefreshing ==
    /\ "refresh" \in CrashPoints
    /\ alive /\ inbox # <<>> /\ Head(inbox) = "CONNECTED"
    /\ fRoutesInstalled /\ fTunPeer \notin {None, fInstalledTunPeer}
    /\ MemoryLost
    /\ \/ defaults' = defaults \ {fInstalledTunPeer} /\ UNCHANGED session
       \/ /\ defaults' = (defaults \ {fInstalledTunPeer}) \cup {fTunPeer}
          /\ session' \in {session, CorruptFile}
    /\ UNCHANGED pinned

\* Between the route commands of _RemoveRoutes, the session file still there.
CrashRemoving ==
    /\ "remove" \in CrashPoints
    /\ alive /\ inbox # <<>> /\ Head(inbox) = "READER_EXITED"
    /\ fRoutesInstalled
    /\ MemoryLost
    /\ \/ defaults' = defaults \ {fInstalledTunPeer} /\ UNCHANGED pinned
       \/ /\ defaults' = Restored(defaults, fTunInterface, fInstalledTunPeer, fOrigGateway)
          /\ pinned' \in {pinned, FALSE}
    /\ UNCHANGED session

\* What a readable session file makes RecoverIfCrashed do: end the old child,
\* then restore the routes.
RecoverSession ==
    /\ child' = [p \in Child |-> IF p = session.pid THEN "reaped" ELSE child[p]]
    /\ defaults' = Restored(defaults, TRUE, session.peer, session.gateway)
    /\ pinned' = (pinned /\ session.gateway = None)

\* A restart of the daemon: the constructor and RecoverIfCrashed.
RecoverIfCrashed ==
    /\ ~alive /\ alive' = TRUE
    /\ IF session.is = "record"
       THEN RecoverSession
       ELSE UNCHANGED <<child, defaults, pinned>>
    /\ session' = NoFile
    /\ UNCHANGED <<sessionVars, scanVars, fInstalledTunPeer, fRoutesInstalled, told, readers,
                   scanners, log, inbox, crashes, reportVars>>

-----------------------------------------------------------------------------
HandleEvent == \/ HandleProgress \/ HandleFailure \/ HandlePassword \/ HandleConnected
               \/ HandleExiting \/ HandleReaderExited

Next ==
    \/ Connect \/ Disconnect \/ TryMgmtConnect
    \/ HandleEvent
    \/ \E p \in Child : ChildStep(p) \/ ReaderEnds(p) \/ ScanLogLine(p)
    \/ CrashAtRest \/ CrashInstalling \/ CrashRefreshing \/ CrashRemoving
    \/ RecoverIfCrashed

\* The looper drains its queue and the poll ticks; a closed socket ends its
\* reader; a child that was sent SIGTERM dies.
Fairness ==
    /\ WF_vars(HandleEvent) /\ WF_vars(TryMgmtConnect)
    /\ \A p \in Child :
         /\ WF_vars(ReaderEnds(p))
         /\ WF_vars(p \in told /\ ChildStep(p) /\ child'[p] = "dead")

Spec == Init /\ [][Next]_vars

FairSpec == Spec /\ Fairness

-----------------------------------------------------------------------------
(***************************************************************************)
(* Properties.                                                             *)
(***************************************************************************)
\* The fields of OpenVPNBackend, the threads' lists and the kernel's routes
\* hold values of their types.
TypeOK ==
    /\ fState \in {"DISCONNECTED", "CONNECTING", "AUTHENTICATING", "CONNECTED",
                   "RECONNECTING", "ERROR"}
    /\ fPid \in Child \cup {NoChild} /\ fSocket \in Child \cup {NoChild}
    /\ fMgmtPoll \in BOOLEAN /\ fMgmtAttempt \in 0..MgmtAttempts
    /\ fStopRequested \in BOOLEAN /\ fTunInterface \in BOOLEAN /\ fAuth \in BOOLEAN
    /\ fOrigGateway \in Peers \cup {Carrier, None}
    /\ fTunPeer \in Peers \cup {None} /\ fInstalledTunPeer \in Peers \cup {None}
    /\ fRoutesInstalled \in BOOLEAN
    /\ child \in [Child -> {"unborn", "starting", "held", "connecting", "pushed", "up",
                            "failed", "leaving", "dead", "reaped"}]
    /\ told \subseteq Child /\ readers \subseteq Child /\ scanners \subseteq Child
    /\ log \in [Child -> Seq([gateway : Peers \cup {Carrier, None}, peer : Peers \cup {None}])]
    /\ inbox \in Seq({"CONNECTING", "AUTHENTICATING", "RECONNECTING", "CONNECTED", "PASSWORD",
                      "FAILURE", "EXITING", "READER_EXITED"})
    /\ defaults \subseteq Peers \cup {Carrier} /\ pinned \in BOOLEAN
    /\ session \in SessionFile
    /\ alive \in BOOLEAN /\ crashes \in 0..MaxCrashes /\ exiting \in BOOLEAN

\* The gateway that is restored at the end is the carrier's, although every
\* soft restart makes openvpn print the gateway of its own tunnel (_ScanLogLine).
GatewayIsCarrier == fOrigGateway \in {None, Carrier}

\* With no routes of its own installed, the running daemon leaves the machine
\* with the carrier's default route, that one only, and no pin (_RemoveRoutes,
\* RecoverIfCrashed).
CarrierRestored ==
    (alive /\ ~fRoutesInstalled) => defaults = {Carrier} /\ ~pinned

\* After a restart, as before a session, the machine is online: the carrier's
\* default route is back (ReadyToRun, RecoverIfCrashed).
OnlineAfterRestart == (alive /\ ~fRoutesInstalled) => Carrier \in defaults

\* Whenever the default route is the tunnel's, the session file holds what it
\* takes to undo that, crashed or not (_WriteSessionFile).
RoutesRecorded ==
    defaults # {Carrier} =>
        /\ session.is = "record"
        /\ session.gateway = Carrier
        /\ defaults \subseteq {Carrier, session.peer}

\* What the end of a session and the recovery from a crash work from is right:
\* the fields, the gateway they remember and the file that outlives the daemon
\* (_ScanLogLine, _WriteSessionFile).
RecordsFaithful == TypeOK /\ GatewayIsCarrier /\ RoutesRecorded

\* While openvpn is up and CONNECTED has been handled, the only default route
\* goes to the peer of the latest PUSH_REPLY (_InstallRoutes, _RefreshTunRoute).
ConnectedMeansTunnelled ==
    (fState = "CONNECTED" /\ inbox = <<>> /\ fPid \in Child /\ child[fPid] = "up")
        => fRoutesInstalled /\ defaults = {fTunPeer}

\* Every openvpn that a daemon which never died has spawned and not reaped is
\* the one fPid names, so that _Cleanup will reap it.
OneChild ==
    crashes = 0 => \A p \in Child : child[p] \notin {"unborn", "reaped"} => p = fPid

\* What the daemon sees of this backend.
Seen == [state |-> fState,
         worker |-> IF Detached THEN "none" ELSE IF exiting THEN "exiting" ELSE "running",
         stop |-> fStopRequested]

Contract == INSTANCE BackendContract WITH Kind <- "OpenVPN", bk <- Seen

\* The backend behaves as the daemon's model assumes: every state it enters is
\* reported, a refused call changes nothing, and nothing is reported once the
\* reader's end was handled.
ImplementsContract == Contract!Spec

\* A stop ends the session: its child is reaped and nothing is attached
\* (Disconnect, kMsgReaderExited).
StopEndsSession == fStopRequested ~> (Detached \/ ~fStopRequested)
=============================================================================
