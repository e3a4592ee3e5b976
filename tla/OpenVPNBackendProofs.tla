------------------------ MODULE OpenVPNBackendProofs ------------------------
(***************************************************************************)
(* One openvpn child after another, for any number of children, peers,     *)
(* attempts, crashes and any length of queue and log.  The daemon calls    *)
(* Connect only when nothing of an earlier session is attached             *)
(* (Reentry = FALSE) wherever a theorem says so.                           *)
(***************************************************************************)
EXTENDS OpenVPNBackend, TLAPS

Phases == {"unborn", "starting", "held", "connecting", "pushed", "up", "failed", "leaving",
           "dead", "reaped"}

VPNStates == {"DISCONNECTED", "CONNECTING", "AUTHENTICATING", "CONNECTED", "RECONNECTING",
              "ERROR"}

\* The phases in which the child was told to go on, so has a management client.
Managed == {"connecting", "pushed", "up"}

\* The phases after which a child says nothing more.
Silent == {"leaving", "dead", "reaped"}

\* A poll runs for a child and has an attempt left.
PollCounts == fMgmtPoll => fPid \in Child /\ fMgmtAttempt < MgmtAttempts

\* A daemon that died has nothing in memory.
DeadHasNothing ==
    ~alive => /\ crashes > 0
              /\ fPid = NoChild /\ fSocket = NoChild /\ ~fMgmtPoll /\ ~fRoutesInstalled
              /\ readers = {} /\ scanners = {} /\ inbox = <<>>

\* At most one child has threads, and it is fPid's.
OneAttached ==
    /\ readers \subseteq {fPid} /\ readers \subseteq {fSocket} /\ scanners \subseteq {fPid}
    /\ fSocket \in {NoChild, fPid}
    /\ fPid = NoChild => /\ ~fMgmtPoll /\ ~exiting /\ ~fRoutesInstalled /\ inbox = <<>>
                         /\ fOrigGateway = None /\ fTunPeer = None
    /\ fPid # NoChild => fTunInterface /\ child[fPid] # "unborn"
    /\ fMgmtPoll => /\ readers = {} /\ fSocket = NoChild /\ inbox = <<>> /\ ~exiting
                    /\ fState = "CONNECTING"

\* The end of the reader is the last thing queued, EXITING the last before it.
QueueOrdered ==
    /\ \A i \in 1..Len(inbox) :
         /\ inbox[i] = "READER_EXITED" => i = Len(inbox) /\ readers = {}
         /\ inbox[i] = "EXITING" =>
              /\ child[fPid] \in Silent
              /\ \A j \in (i + 1)..Len(inbox) : inbox[j] = "READER_EXITED"
    /\ readers = {} /\ inbox # <<>> => inbox[Len(inbox)] = "READER_EXITED"
    /\ exiting => /\ child[fPid] \in Silent
                  /\ \A i \in 1..Len(inbox) : inbox[i] = "READER_EXITED"

\* A child that was not spawned has written nothing.
UnbornSilent == \A p \in Child : child[p] = "unborn" => log[p] = <<>>

\* Before a gateway was harvested the log names the carrier's only.
LogNamesCarrier ==
    fPid \in Child /\ fOrigGateway = None =>
        \A i \in 1..Len(log[fPid]) : log[fPid][i].gateway \in {Carrier, None}

\* Fields, file and table while the routes are installed.
InstalledFaithfully ==
    fRoutesInstalled =>
        /\ fOrigGateway = Carrier /\ fInstalledTunPeer \in Peers
        /\ defaults = {fInstalledTunPeer}
        /\ session.is = "record" /\ session.gateway = Carrier
        /\ session.peer = fInstalledTunPeer

\* A running daemon with nothing installed has left no record of a session.
NothingRecorded == alive /\ ~fRoutesInstalled => session.is # "record"

\* What a daemon that died leaves: nothing to undo, or a file to undo it from.
DeadLeavesRecord ==
    ~alive => \/ defaults = {Carrier} /\ ~pinned /\ session.is # "record"
              \/ /\ session.is = "record" /\ session.gateway = Carrier
                 /\ defaults \subseteq {Carrier, session.peer}

\* While openvpn comes up, gateway and peer are harvested or still in its log.
Harvested ==
    fPid \in Child /\ child[fPid] \in {"pushed", "up"} =>
        /\ fOrigGateway # None \/ \E i \in 1..Len(log[fPid]) : log[fPid][i].gateway # None
        /\ fTunPeer # None \/ \E i \in 1..Len(log[fPid]) : log[fPid][i].peer # None

\* A log scanner that keeps up reads every line before CONNECTED is said.
ScannerKeepsUp ==
    fPid \in Child =>
        /\ fPid \in scanners
        /\ child[fPid] \in Managed => fPid \in readers
        /\ child[fPid] = "up" => log[fPid] = <<>>

\* CONNECTED is still queued, or the route goes to the latest peer.
UpIsInstalled ==
    fPid \in Child /\ child[fPid] = "up" =>
        \/ \E i \in 1..Len(inbox) : inbox[i] = "CONNECTED"
        \/ fRoutesInstalled /\ fInstalledTunPeer = fTunPeer

TunnelInv == Harvested /\ ScannerKeepsUp /\ UpIsInstalled
-----------------------------------------------------------------------------
(***************************************************************************)
(* Type correctness, for every value of the constants.                     *)
(***************************************************************************)
Events == {"CONNECTING", "AUTHENTICATING", "RECONNECTING", "CONNECTED", "PASSWORD",
           "FAILURE", "EXITING", "READER_EXITED"}

Gateway == Peers \cup {Carrier, None}

Lines == [gateway : Gateway, peer : Peers \cup {None}]

SessionTyped ==
    /\ fState \in {"DISCONNECTED", "CONNECTING", "AUTHENTICATING", "CONNECTED",
                   "RECONNECTING", "ERROR"}
    /\ fPid \in Child \cup {NoChild} /\ fSocket \in Child \cup {NoChild}
    /\ fMgmtPoll \in BOOLEAN /\ fMgmtAttempt \in 0..MgmtAttempts
    /\ fStopRequested \in BOOLEAN /\ fTunInterface \in BOOLEAN /\ fAuth \in BOOLEAN
    /\ PollCounts

ScanTyped == fOrigGateway \in Gateway /\ fTunPeer \in Peers \cup {None}

RouteTyped ==
    /\ fInstalledTunPeer \in Peers \cup {None} /\ fRoutesInstalled \in BOOLEAN
    /\ defaults \subseteq Peers \cup {Carrier} /\ pinned \in BOOLEAN
    /\ session \in SessionFile

ChildTyped ==
    /\ child \in [Child -> Phases]
    /\ told \subseteq Child /\ readers \subseteq Child /\ scanners \subseteq Child
    /\ log \in [Child -> Seq(Lines)]

QueueTyped == inbox \in Seq(Events)

CrashTyped == alive \in BOOLEAN /\ crashes \in 0..MaxCrashes /\ exiting \in BOOLEAN

\* The type invariant by the groups of variables that change together.
TInv == /\ SessionTyped /\ ScanTyped /\ RouteTyped /\ ChildTyped /\ QueueTyped /\ CrashTyped

\* The groups together are the type invariant and the poll's counter.
LEMMA Typed == TInv <=> TypeOK /\ PollCounts
  BY DEF TInv, TypeOK, SessionTyped, ScanTyped, RouteTyped, ChildTyped, QueueTyped, CrashTyped,
         Events, Gateway, Lines, Phases

\* Facts about the constants the provers need by themselves.
LEMMA Constants ==
    /\ MaxSpawns \in Nat /\ MgmtAttempts \in Nat /\ MgmtAttempts > 0 /\ MaxCrashes \in Nat
    /\ NoChild \notin Child /\ Child \subseteq Nat
    /\ Carrier \notin Peers /\ None \notin Peers /\ None # Carrier
  BY OpenVPNAssumption DEF Child, NoChild

\* An absent session file is a session file, and so is a corrupt one.
LEMMA FilesTyped == NoFile \in SessionFile /\ CorruptFile \in SessionFile
  BY DEF NoFile, CorruptFile, SessionFile

\* _ApplyRestore leaves gateways.
LEMMA RestoredTyped ==
    ASSUME NEW routes \in SUBSET (Peers \cup {Carrier}), NEW tun, NEW peer, NEW gateway \in Gateway
    PROVE  Restored(routes, tun, peer, gateway) \subseteq Peers \cup {Carrier}
  BY DEF Restored, Gateway

\* The three operations on the routes keep their types.
LEMMA RouteOpsTyped ==
    ASSUME TInv,
           InstallRoutes \/ RefreshTunRoute \/ \E tun \in BOOLEAN : RemoveRoutes(tun)
    PROVE  RouteTyped'
<1>0. RouteTyped /\ ScanTyped /\ fPid \in Child \cup {NoChild}
  BY DEF TInv, SessionTyped
<1>1. WriteSessionFile => session' \in SessionFile
  BY <1>0 DEF WriteSessionFile, SessionFile, ScanTyped, Gateway
<1>a. CASE UNCHANGED routeVars
  BY <1>0, <1>a DEF routeVars, RouteTyped
<1>2. CASE InstallRoutes
  BY <1>0, <1>1, <1>2, <1>a DEF InstallRoutes, RouteTyped, ScanTyped
<1>3. CASE RefreshTunRoute
  BY <1>0, <1>1, <1>3, <1>a DEF RefreshTunRoute, RouteTyped, ScanTyped
<1>4. CASE \E tun \in BOOLEAN : RemoveRoutes(tun)
  <2>0. PICK tun \in BOOLEAN : RemoveRoutes(tun)
    BY <1>4
  <2>1. CASE fRoutesInstalled
    <3>1. /\ defaults' = Restored(defaults, tun, fInstalledTunPeer, fOrigGateway)
          /\ pinned' \in BOOLEAN /\ fRoutesInstalled' = FALSE /\ session' = NoFile
          /\ fInstalledTunPeer' = None
      BY <2>0, <2>1 DEF RemoveRoutes
    <3>2. Restored(defaults, tun, fInstalledTunPeer, fOrigGateway) \subseteq Peers \cup {Carrier}
      BY <1>0, RestoredTyped DEF RouteTyped, ScanTyped
    <3> QED
      BY <3>1, <3>2, FilesTyped DEF RouteTyped
  <2>2. CASE ~fRoutesInstalled
    BY <1>a, <2>0, <2>2 DEF RemoveRoutes
  <2> QED
    BY <2>1, <2>2
<1> QED
  BY <1>2, <1>3, <1>4

\* What _Cleanup leaves behind is typed, and empty.
LEMMA CleanupTyped ==
    ASSUME TInv, NEW pid, NEW tun \in BOOLEAN, Cleanup(pid, tun)
    PROVE  /\ ScanTyped' /\ RouteTyped' /\ ChildTyped'
           /\ fPid' = NoChild /\ fSocket' = NoChild /\ fMgmtPoll' = FALSE
           /\ fTunInterface' = FALSE /\ fAuth' = FALSE
<1>1. RouteTyped'
  BY RouteOpsTyped DEF Cleanup
<1>2. child' \in [Child -> Phases] /\ log' \in [Child -> Seq(Lines)]
  BY DEF TInv, ChildTyped, Cleanup, Reap, Phases
<1>3. ChildTyped'
  BY <1>2 DEF TInv, ChildTyped, Cleanup
<1>4. ScanTyped'
  BY DEF Cleanup, ScanTyped, Gateway
<1> QED
  BY <1>1, <1>3, <1>4 DEF Cleanup

\* The end of the reader that closing the socket may add is an event.
LEMMA PostsTyped == CleanupPosts \in Seq(Events)
<1>1. <<"READER_EXITED">> \in Seq(Events) /\ <<>> \in Seq(Events)
  BY DEF Events
<1> QED
  BY <1>1 DEF CleanupPosts

\* Calls of the daemon keep the types.
LEMMA CallsTyped == ASSUME TInv, Connect \/ Disconnect PROVE TInv'
<1> USE DEF TInv
<1>0. SessionTyped /\ ScanTyped /\ RouteTyped /\ ChildTyped /\ QueueTyped /\ CrashTyped
  OBVIOUS
<1>1. CASE ConnectFails
  <2>1. UNCHANGED <<fPid, fMgmtPoll, fMgmtAttempt, fSocket, scanVars, routeVars, childVars,
                    inbox, crashVars>>
        /\ fStopRequested' = FALSE /\ exiting' = FALSE /\ fState' = "ERROR"
        /\ fTunInterface' \in BOOLEAN /\ fAuth' \in BOOLEAN
    BY <1>0, <1>1 DEF ConnectFails, Connectable, SetCredentials, SessionTyped
  <2>2. SessionTyped'
    BY <1>0, <2>1 DEF SessionTyped, PollCounts
  <2> QED
    BY <1>0, <2>1, <2>2 DEF scanVars, routeVars, childVars, crashVars, ScanTyped, RouteTyped,
                            ChildTyped, QueueTyped, CrashTyped
<1>2. CASE ConnectWithoutPoll
  <2>1. PICK p \in Fresh : Cleanup(p, TRUE)
    BY <1>2 DEF ConnectWithoutPoll
  <2>2. /\ ScanTyped' /\ RouteTyped' /\ ChildTyped'
        /\ fPid' = NoChild /\ fSocket' = NoChild /\ fMgmtPoll' = FALSE
        /\ fTunInterface' = FALSE /\ fAuth' = FALSE
    BY <2>1, CleanupTyped
  <2>3. SessionTyped'
    <3>1. fStopRequested' = FALSE /\ fMgmtAttempt' = 0 /\ fState' = "ERROR"
      BY <1>2 DEF ConnectWithoutPoll, Connectable
    <3>2. 0 \in 0..MgmtAttempts
      BY Constants
    <3> QED
      BY <2>2, <3>1, <3>2 DEF SessionTyped, PollCounts
  <2>4. QueueTyped'
    BY <1>0, <1>2, PostsTyped DEF ConnectWithoutPoll, QueueTyped
  <2>5. CrashTyped'
    BY <1>0, <1>2 DEF ConnectWithoutPoll, Connectable, CrashTyped, crashVars
  <2> QED
    BY <2>2, <2>3, <2>4, <2>5
<1>3. CASE ConnectStarts
  <2>1. PICK p \in Fresh :
          /\ fPid' = p
          /\ child' = [child EXCEPT ![p] = "starting"]
          /\ scanners' \subseteq scanners \cup {p}
    BY <1>3 DEF ConnectStarts
  <2>2. p \in Child
    BY DEF Fresh
  <2>3. SessionTyped'
    <3>1. /\ fStopRequested' = FALSE /\ fMgmtAttempt' = 0 /\ fState' = "CONNECTING"
          /\ fMgmtPoll' = TRUE /\ fTunInterface' = TRUE /\ fAuth' \in BOOLEAN
          /\ fSocket' = fSocket
      BY <1>0, <1>3 DEF ConnectStarts, Connectable, SetState, SetCredentials, SessionTyped
    <3>2. 0 \in 0..MgmtAttempts /\ 0 < MgmtAttempts
      BY Constants
    <3> QED
      BY <1>0, <2>1, <2>2, <3>1, <3>2 DEF SessionTyped, PollCounts
  <2>4. ChildTyped'
    BY <1>0, <1>3, <2>1, <2>2 DEF ConnectStarts, ChildTyped, Phases
  <2> QED
    BY <1>0, <1>3, <2>3, <2>4 DEF ConnectStarts, Connectable, scanVars, routeVars, crashVars,
                                  ScanTyped, RouteTyped, QueueTyped, CrashTyped
<1>4. CASE Disconnect
  <2>1. fStopRequested' \in BOOLEAN /\ told' \subseteq Child /\ fState' = fState
    BY <1>0, <1>4 DEF Disconnect, NoReport, StopTarget, SessionTyped, ChildTyped
  <2>2. SessionTyped'
    BY <1>0, <1>4, <2>1 DEF Disconnect, SessionTyped, PollCounts
  <2>3. ChildTyped'
    BY <1>0, <1>4, <2>1 DEF Disconnect, ChildTyped
  <2> QED
    BY <1>0, <1>4, <2>2, <2>3 DEF Disconnect, scanVars, routeVars, crashVars,
                                  ScanTyped, RouteTyped, QueueTyped, CrashTyped
<1> QED
  BY <1>1, <1>2, <1>3, <1>4 DEF Connect
\* A tick of the poll ends the session, connects, or waits for the next one.
PollEnds ==
    \E s \in DownStates : PollCleanup(s) /\ fMgmtAttempt' \in {fMgmtAttempt, fMgmtAttempt + 1}

PollConnects ==
    /\ child[fPid] = "held"
    /\ fSocket' = fPid /\ fMgmtPoll' = FALSE /\ readers' = readers \cup {fPid}
    /\ child' = [child EXCEPT ![fPid] = "connecting"]
    /\ UNCHANGED <<fState, fStopRequested, fPid, fMgmtAttempt, fTunInterface, fAuth, scanVars,
                   routeVars, told, scanners, log, inbox, crashVars, reportVars>>

PollWaits ==
    /\ fMgmtAttempt' = fMgmtAttempt + 1 /\ ~AttemptsUsedUp
    /\ UNCHANGED <<fState, fStopRequested, fPid, fMgmtPoll, fSocket, fTunInterface, fAuth,
                   scanVars, routeVars, childVars, inbox, crashVars, reportVars>>

\* These are the outcomes of a tick (_TryMgmtConnect).
LEMMA PollCases ==
    ASSUME TryMgmtConnect PROVE alive /\ fMgmtPoll /\ (PollEnds \/ PollConnects \/ PollWaits)
  BY DEF TryMgmtConnect, PollEnds, PollConnects, PollWaits, DownStates

\* The poll keeps the types: it stops before its attempts are used up.
LEMMA PollTyped == ASSUME TInv, TryMgmtConnect PROVE TInv'
<1> USE DEF TInv
<1>0. SessionTyped /\ ScanTyped /\ RouteTyped /\ ChildTyped /\ QueueTyped /\ CrashTyped
      /\ fMgmtPoll
  BY PollCases
<1>1. fPid \in Child /\ fMgmtAttempt \in Nat /\ fMgmtAttempt < MgmtAttempts
      /\ fMgmtAttempt + 1 \in 0..MgmtAttempts
  BY <1>0, Constants DEF SessionTyped, PollCounts
<1>2. CASE PollEnds
  <2>1. PICK s \in DownStates : PollCleanup(s) /\ fMgmtAttempt' \in {fMgmtAttempt, fMgmtAttempt + 1}
    BY <1>2 DEF PollEnds
  <2>2. Cleanup(fPid, fTunInterface) /\ inbox' = inbox \o CleanupPosts /\ fState' = s
        /\ exiting' = FALSE /\ UNCHANGED <<fStopRequested, crashVars>>
    BY <2>1 DEF PollCleanup, SetState
  <2>3. /\ ScanTyped' /\ RouteTyped' /\ ChildTyped'
        /\ fPid' = NoChild /\ fSocket' = NoChild /\ fMgmtPoll' = FALSE
        /\ fTunInterface' = FALSE /\ fAuth' = FALSE
    BY <1>0, <2>2, CleanupTyped DEF SessionTyped
  <2>4. SessionTyped'
    BY <1>0, <1>1, <2>1, <2>2, <2>3 DEF SessionTyped, PollCounts, DownStates
  <2>5. QueueTyped'
    BY <1>0, <2>2, PostsTyped DEF QueueTyped
  <2>6. CrashTyped'
    BY <1>0, <2>2 DEF CrashTyped, crashVars
  <2> QED
    BY <2>3, <2>4, <2>5, <2>6
<1>3. CASE PollConnects
  <2>1. SessionTyped'
    BY <1>0, <1>1, <1>3 DEF PollConnects, SessionTyped, PollCounts
  <2>2. ChildTyped'
    BY <1>0, <1>1, <1>3 DEF PollConnects, ChildTyped, Phases
  <2> QED
    BY <1>0, <1>3, <2>1, <2>2 DEF PollConnects, scanVars, routeVars, crashVars, reportVars,
                                  ScanTyped, RouteTyped, QueueTyped, CrashTyped
<1>4. CASE PollWaits
  <2>1. fMgmtAttempt + 1 < MgmtAttempts
    BY <1>1, <1>4, Constants DEF PollWaits, AttemptsUsedUp
  <2>2. SessionTyped'
    BY <1>0, <1>1, <1>4, <2>1 DEF PollWaits, SessionTyped, PollCounts
  <2> QED
    BY <1>0, <1>4, <2>2 DEF PollWaits, scanVars, routeVars, childVars, crashVars, reportVars,
                            ScanTyped, RouteTyped, ChildTyped, QueueTyped, CrashTyped
<1> QED
  BY <1>2, <1>3, <1>4, PollCases

\* An event that is not the reader's end: one is taken off the queue, and only
\* state, report, routes and the flag of EXITING change.
QuietEvent ==
    /\ alive /\ inbox # <<>> /\ Head(inbox) # "READER_EXITED"
    /\ QuietHandling
    /\ UNCHANGED <<fStopRequested, fMgmtAttempt, crashVars>>
    /\ fState' \in {"DISCONNECTED", "CONNECTING", "AUTHENTICATING", "CONNECTED",
                    "RECONNECTING", "ERROR"}
    /\ \/ exiting' = exiting /\ Head(inbox) # "EXITING"
       \/ exiting' = TRUE /\ Head(inbox) = "EXITING"
    /\ \/ UNCHANGED routeVars /\ Head(inbox) # "CONNECTED"
       \/ /\ Head(inbox) = "CONNECTED"
          /\ IF fRoutesInstalled THEN RefreshTunRoute ELSE InstallRoutes

\* Every event but the reader's end is handled so.
LEMMA EventCases ==
    ASSUME TInv, HandleEvent PROVE QuietEvent \/ HandleReaderExited
<1>0. fState \in {"DISCONNECTED", "CONNECTING", "AUTHENTICATING", "CONNECTED",
                 "RECONNECTING", "ERROR"}
  BY DEF TInv, SessionTyped
<1>1. CASE HandleProgress
  BY <1>1 DEF HandleProgress, Handles, SetState, QuietEvent
<1>2. CASE HandleFailure
  BY <1>2 DEF HandleFailure, Handles, SetState, QuietEvent
<1>3. CASE HandlePassword
  BY <1>0, <1>3 DEF HandlePassword, Handles, SetState, QuietEvent
<1>4. CASE HandleConnected
  BY <1>4 DEF HandleConnected, Handles, SetState, QuietEvent
<1>5. CASE HandleExiting
  BY <1>0, <1>5 DEF HandleExiting, Handles, SetState, NoReport, QuietEvent
<1> QED
  BY <1>1, <1>2, <1>3, <1>4, <1>5 DEF HandleEvent

\* Handling an event keeps the types.
LEMMA EventsTyped == ASSUME TInv, HandleEvent PROVE TInv'
<1> USE DEF TInv
<1>0. SessionTyped /\ ScanTyped /\ RouteTyped /\ ChildTyped /\ QueueTyped /\ CrashTyped
  OBVIOUS
<1>1. CASE QuietEvent
  <2>1. SessionTyped'
    BY <1>0, <1>1 DEF QuietEvent, QuietHandling, SessionTyped, PollCounts
  <2>2. RouteTyped'
    <3>1. CASE UNCHANGED routeVars
      BY <1>0, <3>1 DEF RouteTyped, routeVars
    <3>2. CASE RefreshTunRoute \/ InstallRoutes
      BY <3>2, RouteOpsTyped
    <3> QED
      BY <1>1, <3>1, <3>2 DEF QuietEvent
  <2>3. QueueTyped'
    BY <1>0, <1>1 DEF QuietEvent, QuietHandling, QueueTyped
  <2> QED
    BY <1>0, <1>1, <2>1, <2>2, <2>3 DEF QuietEvent, QuietHandling, scanVars, childVars,
                                        crashVars, ScanTyped, ChildTyped, CrashTyped
<1>2. CASE HandleReaderExited
  <2>1. Cleanup(fPid, fTunInterface) /\ inbox # <<>> /\ inbox' = Tail(inbox) \o CleanupPosts
        /\ exiting' = FALSE /\ UNCHANGED <<fStopRequested, fMgmtAttempt, crashVars>>
    BY <1>2 DEF HandleReaderExited, Handles
  <2>2. fState' \in {fState, "DISCONNECTED"}
    BY <1>2 DEF HandleReaderExited, NoReport, SetState
  <2>3. /\ ScanTyped' /\ RouteTyped' /\ ChildTyped'
        /\ fPid' = NoChild /\ fSocket' = NoChild /\ fMgmtPoll' = FALSE
        /\ fTunInterface' = FALSE /\ fAuth' = FALSE
    BY <1>0, <2>1, CleanupTyped DEF SessionTyped
  <2>4. SessionTyped'
    BY <1>0, <2>1, <2>2, <2>3 DEF SessionTyped, PollCounts
  <2>5. QueueTyped'
    BY <1>0, <2>1, PostsTyped DEF QueueTyped
  <2> QED
    BY <1>0, <2>1, <2>3, <2>4, <2>5 DEF CrashTyped, crashVars
<1> QED
  BY <1>1, <1>2, EventCases

\* A child moves on from a phase in which it runs, and says at most one thing.
ChildMoves(p, phase) ==
    /\ child[p] \notin {"unborn", "dead", "reaped"}
    /\ child' = [child EXCEPT ![p] = phase]
    /\ child[p] \in Silent => phase = "dead"
    /\ \/ inbox' = inbox
       \/ /\ p \in readers /\ child[p] \notin Silent
          /\ \E e \in Events \ {"READER_EXITED"} :
                inbox' = Append(inbox, e) /\ (e = "EXITING" => phase = "leaving")
    /\ \/ log' = log
       \/ /\ child[p] = "connecting" /\ phase = "pushed"
          /\ \E q \in Peers, g \in defaults :
                log' = [log EXCEPT ![p] = @ \o <<[gateway |-> g, peer |-> None],
                                                 [gateway |-> None, peer |-> q]>>]
    /\ UNCHANGED <<sessionVars, scanVars, routeVars, told, readers, scanners, crashVars, reportVars>>

\* Every step of a child is such a move.
LEMMA ChildCases ==
    ASSUME TInv, NEW p \in Child, ChildStep(p)
    PROVE  \E phase \in Phases \ {"unborn"} : ChildMoves(p, phase)
<1> USE DEF Phases, Silent
<1>0. UNCHANGED <<sessionVars, scanVars, routeVars, told, readers, scanners, crashVars, reportVars>>
      /\ child[p] \in Phases
  BY DEF ChildStep, TInv, ChildTyped
<1>1. CASE ChildListens(p)
  BY <1>0, <1>1 DEF ChildListens, ChildMoves
<1>2. CASE ChildPushed(p)
  <2>1. child[p] = "connecting" /\ child' = [child EXCEPT ![p] = "pushed"]
    BY <1>2 DEF ChildPushed, Says
  <2>2. \/ inbox' = inbox
        \/ p \in readers /\ \E e \in Events \ {"READER_EXITED", "EXITING"} : inbox' = Append(inbox, e)
    BY <1>2 DEF ChildPushed, Says, Events
  <2>3. ChildMoves(p, "pushed")
    BY <1>0, <1>2, <2>1, <2>2 DEF ChildPushed, ChildMoves
  <2> QED
    BY <2>3
<1>3. CASE ChildConnected(p)
  <2>1. ChildMoves(p, "up")
    BY <1>0, <1>3 DEF ChildConnected, Says, Events, ChildMoves
  <2> QED
    BY <2>1
<1>4. CASE ChildRestarts(p)
  <2>1. ChildMoves(p, "connecting")
    BY <1>0, <1>4 DEF ChildRestarts, Says, Events, ChildMoves
  <2> QED
    BY <2>1
<1>5. CASE ChildFails(p)
  <2>1. ChildMoves(p, "failed")
    BY <1>0, <1>5 DEF ChildFails, Says, Events, ChildMoves
  <2> QED
    BY <2>1
<1>6. CASE ChildLeaves(p)
  <2>1. ChildMoves(p, "leaving")
    BY <1>0, <1>6 DEF ChildLeaves, Running, Says, Events, ChildMoves
  <2> QED
    BY <2>1
<1>7. CASE ChildDies(p)
  <2>1. ChildMoves(p, "dead")
    BY <1>0, <1>7 DEF ChildDies, Running, ChildMoves
  <2> QED
    BY <2>1
<1> QED
  BY <1>1, <1>2, <1>3, <1>4, <1>5, <1>6, <1>7 DEF ChildStep
\* Child, reader and scanner keep the types.
LEMMA ThreadsTyped ==
    ASSUME TInv, NEW p \in Child, ChildStep(p) \/ ReaderEnds(p) \/ ScanLogLine(p)
    PROVE  TInv'
<1> USE DEF TInv
<1>0. SessionTyped /\ ScanTyped /\ RouteTyped /\ ChildTyped /\ QueueTyped /\ CrashTyped
  OBVIOUS
<1>a. ASSUME UNCHANGED <<sessionVars, routeVars, crashVars, reportVars>>, ScanTyped', ChildTyped',
             QueueTyped'
      PROVE  TInv'
  BY <1>0, <1>a DEF sessionVars, routeVars, crashVars, reportVars, SessionTyped, PollCounts,
                    RouteTyped, CrashTyped
<1>1. CASE ChildStep(p)
  <2>1. PICK phase \in Phases \ {"unborn"} : ChildMoves(p, phase)
    BY <1>1, ChildCases
  <2>2. log' \in [Child -> Seq(Lines)]
    <3>1. CASE log' = log
      BY <1>0, <3>1 DEF ChildTyped
    <3>2. CASE log' # log
      <4>1. PICK q \in Peers, g \in defaults :
              log' = [log EXCEPT ![p] = @ \o <<[gateway |-> g, peer |-> None],
                                               [gateway |-> None, peer |-> q]>>]
        BY <2>1, <3>2 DEF ChildMoves
      <4>2. [gateway |-> g, peer |-> None] \in Lines /\ [gateway |-> None, peer |-> q] \in Lines
        BY <1>0 DEF Lines, Gateway, RouteTyped
      <4>3. <<[gateway |-> g, peer |-> None], [gateway |-> None, peer |-> q]>> \in Seq(Lines)
        BY <4>2
      <4>4. log[p] \o <<[gateway |-> g, peer |-> None], [gateway |-> None, peer |-> q]>> \in Seq(Lines)
        BY <1>0, <4>3 DEF ChildTyped
      <4> QED
        BY <1>0, <4>1, <4>4 DEF ChildTyped
    <3> QED
      BY <3>1, <3>2
  <2>3. ChildTyped'
    BY <1>0, <2>1, <2>2 DEF ChildTyped, ChildMoves
  <2>4. QueueTyped'
    BY <1>0, <2>1 DEF QueueTyped, ChildMoves
  <2> QED
    BY <1>0, <1>a, <2>1, <2>3, <2>4 DEF ChildMoves, ScanTyped, scanVars
<1>2. CASE ReaderEnds(p)
  <2>1. ChildTyped' /\ ScanTyped'
    BY <1>0, <1>2 DEF ReaderEnds, ChildTyped, ScanTyped, scanVars
  <2>2. QueueTyped'
    BY <1>0, <1>2 DEF ReaderEnds, QueueTyped, Events
  <2> QED
    BY <1>a, <1>2, <2>1, <2>2 DEF ReaderEnds
<1>3. CASE ScanLogLine(p)
  <2>1. log[p] \in Seq(Lines) /\ log[p] # <<>>
    BY <1>0, <1>3 DEF ScanLogLine, ChildTyped
  <2>2. Head(log[p]) \in Lines /\ Tail(log[p]) \in Seq(Lines)
    BY <2>1
  <2>3. ScanTyped'
    BY <1>0, <1>3, <2>2 DEF ScanLogLine, KeepFirstGateway, ScanTyped, Lines
  <2>4. ChildTyped'
    BY <1>0, <1>3, <2>2 DEF ScanLogLine, ChildTyped
  <2> QED
    BY <1>0, <1>a, <1>3, <2>3, <2>4 DEF ScanLogLine, QueueTyped
<1> QED
  BY <1>1, <1>2, <1>3

\* What a crash makes of the fields in memory.
LEMMA MemoryTyped ==
    ASSUME TInv, MemoryLost
    PROVE  /\ SessionTyped' /\ ScanTyped' /\ ChildTyped' /\ QueueTyped' /\ CrashTyped'
           /\ fInstalledTunPeer' = None /\ fRoutesInstalled' = FALSE
<1> USE DEF TInv
<1>1. SessionTyped'
  <2>1. 0 \in 0..MgmtAttempts
    BY Constants
  <2> QED
    BY <2>1 DEF MemoryLost, SessionTyped, PollCounts
<1>2. ScanTyped' /\ fInstalledTunPeer' = None /\ fRoutesInstalled' = FALSE
  BY DEF MemoryLost, ScanTyped, Gateway
<1>3. ChildTyped' /\ QueueTyped'
  BY DEF MemoryLost, ChildTyped, QueueTyped
<1>4. CrashTyped'
  <2>1. crashes \in 0..MaxCrashes /\ crashes < MaxCrashes /\ crashes' = crashes + 1
    BY DEF MemoryLost, CrashTyped
  <2>2. crashes' \in 0..MaxCrashes
    BY <2>1, Constants
  <2> QED
    BY <2>2 DEF MemoryLost, CrashTyped
<1> QED
  BY <1>1, <1>2, <1>3, <1>4

\* A crash, wherever it hits, and the recovery keep the types.
LEMMA CrashesTyped ==
    ASSUME TInv, CrashAtRest \/ CrashInstalling \/ CrashRefreshing \/ CrashRemoving \/ RecoverIfCrashed
    PROVE  TInv'
<1> USE DEF TInv
<1>0. SessionTyped /\ ScanTyped /\ RouteTyped /\ ChildTyped /\ QueueTyped /\ CrashTyped
  OBVIOUS
<1>1. CASE MemoryLost /\ defaults' \subseteq Peers \cup {Carrier} /\ pinned' \in BOOLEAN
           /\ session' \in SessionFile
  BY <1>1, MemoryTyped DEF RouteTyped
<1>2. CASE CrashAtRest
  BY <1>0, <1>1, <1>2 DEF CrashAtRest, RouteTyped
<1>3. CASE CrashInstalling
  <2>1. fTunPeer \in Peers
    BY <1>0, <1>3 DEF CrashInstalling, ScanTyped
  <2> QED
    BY <1>0, <1>1, <1>3, <2>1, FilesTyped DEF CrashInstalling, RouteTyped
<1>4. CASE CrashRefreshing
  <2>1. fTunPeer \in Peers
    BY <1>0, <1>4 DEF CrashRefreshing, ScanTyped
  <2> QED
    BY <1>0, <1>1, <1>4, <2>1, FilesTyped DEF CrashRefreshing, RouteTyped
<1>5. CASE CrashRemoving
  <2>1. Restored(defaults, fTunInterface, fInstalledTunPeer, fOrigGateway) \subseteq Peers \cup {Carrier}
    BY <1>0, RestoredTyped DEF RouteTyped, ScanTyped
  <2> QED
    BY <1>0, <1>1, <1>5, <2>1 DEF CrashRemoving, RouteTyped
<1>6. CASE RecoverIfCrashed
  <2>0. session.peer \in Peers \cup {None} /\ session.gateway \in Gateway
    BY <1>0 DEF RouteTyped, SessionFile, Gateway
  <2>1. Restored(defaults, TRUE, session.peer, session.gateway) \subseteq Peers \cup {Carrier}
    BY <1>0, <2>0, RestoredTyped DEF RouteTyped
  <2>2. RouteTyped'
    BY <1>0, <1>6, <2>1, FilesTyped DEF RecoverIfCrashed, RecoverSession, RouteTyped
  <2>3. child' \in [Child -> Phases]
    BY <1>0, <1>6 DEF RecoverIfCrashed, RecoverSession, ChildTyped, Phases
  <2>4. ChildTyped'
    BY <1>0, <1>6, <2>3 DEF RecoverIfCrashed, ChildTyped
  <2>5. SessionTyped' /\ ScanTyped' /\ QueueTyped'
    BY <1>0, <1>6 DEF RecoverIfCrashed, sessionVars, scanVars, SessionTyped, PollCounts,
                      ScanTyped, QueueTyped
  <2>6. CrashTyped'
    BY <1>0, <1>6 DEF RecoverIfCrashed, CrashTyped, reportVars
  <2> QED
    BY <2>2, <2>4, <2>5, <2>6
<1> QED
  BY <1>2, <1>3, <1>4, <1>5, <1>6

\* The initial state has values of their types.
LEMMA InitTyped == Init => TInv
<1> SUFFICES ASSUME Init PROVE TInv
  OBVIOUS
<1>1. SessionTyped
  <2>1. 0 \in 0..MgmtAttempts
    BY Constants
  <2> QED
    BY <2>1 DEF Init, SessionTyped, PollCounts
<1>2. ScanTyped /\ RouteTyped
  BY FilesTyped DEF Init, ScanTyped, RouteTyped, Gateway
<1>3. ChildTyped
  BY DEF Init, ChildTyped, Phases
<1>4. QueueTyped
  BY DEF Init, QueueTyped
<1>5. CrashTyped
  <2>1. 0 \in 0..MaxCrashes
    BY Constants
  <2> QED
    BY <2>1 DEF Init, CrashTyped
<1> QED
  BY <1>1, <1>2, <1>3, <1>4, <1>5 DEF TInv

\* Every step keeps the types.
LEMMA TypeStep == TInv /\ [Next]_vars => TInv'
<1> SUFFICES ASSUME TInv, [Next]_vars PROVE TInv'
  OBVIOUS
<1>1. CASE UNCHANGED vars
  BY <1>1 DEF vars, sessionVars, scanVars, routeVars, childVars, crashVars, reportVars, TInv,
              SessionTyped, PollCounts, ScanTyped, RouteTyped, ChildTyped, QueueTyped, CrashTyped
<1> QED
  BY <1>1, CallsTyped, PollTyped, EventsTyped, ThreadsTyped, CrashesTyped DEF Next

\* The backend's fields, its threads and the kernel's routes hold values of
\* their types, for any number of children, peers, attempts and crashes, and
\* also when Connect comes while an earlier child is attached.
THEOREM TypeCorrect == Spec => []TypeOK
<1>1. TInv => TypeOK
  BY Typed
<1> QED
  BY <1>1, InitTyped, TypeStep, PTL DEF Spec
-----------------------------------------------------------------------------
(***************************************************************************)
(* One child at a time: what is attached and what is queued.               *)
(***************************************************************************)
AttachInv == DeadHasNothing /\ OneAttached /\ QueueOrdered

\* Nothing is attached, nothing queued, nothing installed.
Emptied ==
    /\ fPid = NoChild /\ fSocket = NoChild /\ fMgmtPoll = FALSE /\ exiting = FALSE
    /\ readers = {} /\ scanners = {} /\ inbox = <<>>
    /\ fRoutesInstalled = FALSE /\ fOrigGateway = None /\ fTunPeer = None

\* That is the state a session ends in, whatever else the last step did.
LEMMA EmptiedIsFine == Emptied' /\ (alive' \/ crashes' > 0) => AttachInv'
  BY DEF Emptied, AttachInv, DeadHasNothing, OneAttached, QueueOrdered

\* With nothing attached there is no scanner and no route either.
LEMMA DetachedIsEmpty == TInv /\ AttachInv /\ fPid = NoChild => Emptied
<1> SUFFICES ASSUME TInv, AttachInv, fPid = NoChild PROVE Emptied
  OBVIOUS
<1>1. readers = {} /\ scanners = {}
  BY Constants DEF TInv, ChildTyped, AttachInv, OneAttached
<1> QED
  BY <1>1 DEF AttachInv, OneAttached, Emptied, TInv, SessionTyped, RouteTyped, CrashTyped

\* _Cleanup of the attached child, or of one that was never attached, empties
\* everything but the queue.
LEMMA CleanupEmpties ==
    ASSUME TInv, AttachInv, NEW pid, NEW tun \in BOOLEAN, Cleanup(pid, tun),
           pid = fPid \/ fPid = NoChild
    PROVE  /\ fPid' = NoChild /\ fSocket' = NoChild /\ fMgmtPoll' = FALSE
           /\ readers' = {} /\ scanners' = {}
           /\ fRoutesInstalled' = FALSE /\ fOrigGateway' = None /\ fTunPeer' = None
<1>1. readers' = {}
  BY DEF AttachInv, OneAttached, Cleanup
<1>2. scanners' = {}
  BY DetachedIsEmpty DEF AttachInv, OneAttached, Cleanup, Emptied
<1>3. fRoutesInstalled' = FALSE
  BY DEF Cleanup, RemoveRoutes, routeVars, TInv, RouteTyped
<1> QED
  BY <1>1, <1>2, <1>3 DEF Cleanup

\* Taking the first event off the queue leaves the rest in order.
LEMMA TailFacts ==
    ASSUME NEW S, NEW q \in Seq(S), q # <<>>
    PROVE  /\ Head(q) = q[1] /\ 1 \in 1..Len(q)
           /\ Len(q) \in Nat /\ Len(Tail(q)) = Len(q) - 1
           /\ Len(q) = 1 => Tail(q) = <<>>
           /\ \A i \in 1..Len(Tail(q)) : Tail(q)[i] = q[i + 1] /\ i + 1 \in 1..Len(q)
  OBVIOUS

\* When the reader's end is handled nothing else is queued or reading.
LEMMA ReaderExitIsLast ==
    ASSUME TInv, AttachInv, inbox # <<>>, Head(inbox) = "READER_EXITED"
    PROVE  readers = {} /\ Tail(inbox) \o CleanupPosts = <<>>
<1>0. inbox \in Seq(Events)
  BY DEF TInv, QueueTyped
<1>1. inbox[1] = "READER_EXITED" /\ 1 \in 1..Len(inbox)
  BY <1>0, TailFacts
<1>2. Len(inbox) = 1 /\ readers = {}
  BY <1>1 DEF AttachInv, QueueOrdered
<1>3. Tail(inbox) = <<>> /\ CleanupPosts = <<>>
  BY <1>0, <1>2, TailFacts DEF CleanupPosts
<1> QED
  BY <1>2, <1>3

\* The daemon's calls keep one child at a time, when Connect is called only
\* with nothing attached.
LEMMA CallsAttach ==
    ASSUME ~Reentry, TInv, AttachInv, Connect \/ Disconnect
    PROVE  AttachInv'
<1>1. CASE Connect
  <2>0. Emptied /\ alive /\ alive' = alive
    BY <1>1, DetachedIsEmpty DEF Connect, ConnectFails, ConnectWithoutPoll, ConnectStarts,
                                 Connectable, Detached, crashVars
  <2>1. CASE ConnectFails
    <3>1. Emptied'
      BY <2>0, <2>1 DEF ConnectFails, Connectable, Emptied, scanVars, routeVars, childVars
    <3> QED
      BY <2>0, <3>1, EmptiedIsFine
  <2>2. CASE ConnectWithoutPoll
    <3>1. PICK p \in Fresh : Cleanup(p, TRUE)
      BY <2>2 DEF ConnectWithoutPoll
    <3>2. /\ fPid' = NoChild /\ fSocket' = NoChild /\ fMgmtPoll' = FALSE
          /\ readers' = {} /\ scanners' = {}
          /\ fRoutesInstalled' = FALSE /\ fOrigGateway' = None /\ fTunPeer' = None
      BY <2>0, <3>1, CleanupEmpties DEF Emptied
    <3>3. CleanupPosts = <<>>
      BY <2>0 DEF CleanupPosts, Emptied
    <3>4. inbox' = <<>> /\ exiting' = FALSE
      BY <2>0, <2>2, <3>3 DEF ConnectWithoutPoll, Connectable, Emptied
    <3>5. Emptied'
      BY <3>2, <3>4 DEF Emptied
    <3> QED
      BY <2>0, <3>5, EmptiedIsFine
  <2>3. CASE ConnectStarts
    <3>1. PICK p \in Fresh :
            /\ fPid' = p
            /\ child' = [child EXCEPT ![p] = "starting"]
            /\ scanners' \subseteq scanners \cup {p}
      BY <2>3 DEF ConnectStarts
    <3>2. p \in Child /\ p # NoChild /\ child'[p] = "starting"
      BY <3>1, Constants DEF Fresh, TInv, ChildTyped
    <3>3. /\ fSocket' = NoChild /\ readers' = {} /\ inbox' = <<>> /\ exiting' = FALSE
          /\ fMgmtPoll' = TRUE /\ fTunInterface' = TRUE /\ fState' = "CONNECTING"
      BY <2>0, <2>3 DEF ConnectStarts, Connectable, SetState, Emptied
    <3>4. OneAttached'
      BY <2>0, <3>1, <3>2, <3>3 DEF OneAttached, Emptied
    <3>5. QueueOrdered'
      BY <3>3 DEF QueueOrdered
    <3> QED
      BY <2>0, <3>4, <3>5 DEF AttachInv, DeadHasNothing
  <2> QED
    BY <1>1, <2>1, <2>2, <2>3 DEF Connect
<1>2. CASE Disconnect
  BY <1>2 DEF Disconnect, NoReport, AttachInv, DeadHasNothing, OneAttached, QueueOrdered,
              scanVars, routeVars, crashVars
<1> QED
  BY <1>1, <1>2

\* The poll, while it runs, is all that is attached.
LEMMA PollAttach == ASSUME TInv, AttachInv, TryMgmtConnect PROVE AttachInv'
<1>0. /\ alive /\ fMgmtPoll /\ readers = {} /\ inbox = <<>> /\ ~exiting /\ fSocket = NoChild
      /\ fPid \in Child /\ fTunInterface \in BOOLEAN
  BY PollCases DEF AttachInv, OneAttached, TInv, SessionTyped, PollCounts
<1>1. CASE PollEnds
  <2>1. /\ Cleanup(fPid, fTunInterface) /\ inbox' = inbox \o CleanupPosts /\ exiting' = FALSE
        /\ alive' = alive
    BY <1>1 DEF PollEnds, PollCleanup, crashVars
  <2>2. inbox' = <<>>
    BY <1>0, <2>1 DEF CleanupPosts
  <2>3. Emptied'
    BY <1>0, <2>1, <2>2, CleanupEmpties DEF Emptied
  <2> QED
    BY <1>0, <2>1, <2>3, EmptiedIsFine
<1>2. CASE PollConnects
  <2>1. child'[fPid] = "connecting" /\ fPid # NoChild
    BY <1>0, <1>2, Constants DEF PollConnects, TInv, ChildTyped
  <2>2. OneAttached'
    BY <1>0, <1>2, <2>1 DEF PollConnects, AttachInv, OneAttached, scanVars, routeVars, reportVars
  <2>3. QueueOrdered'
    BY <1>0, <1>2 DEF PollConnects, QueueOrdered, reportVars
  <2> QED
    BY <1>0, <1>2, <2>2, <2>3 DEF PollConnects, AttachInv, DeadHasNothing, crashVars
<1>3. CASE PollWaits
  BY <1>0, <1>3 DEF PollWaits, AttachInv, DeadHasNothing, OneAttached, QueueOrdered, scanVars,
                    routeVars, childVars, crashVars, reportVars
<1> QED
  BY <1>1, <1>2, <1>3, PollCases
\* Handling an event keeps the queue in order; the reader's end empties all.
LEMMA EventsAttach == ASSUME TInv, AttachInv, HandleEvent PROVE AttachInv'
<1>1. CASE QuietEvent
  <2>0. /\ alive /\ inbox # <<>> /\ inbox \in Seq(Events) /\ inbox' = Tail(inbox)
        /\ UNCHANGED <<fPid, fSocket, fMgmtPoll, fTunInterface, scanVars, childVars, crashVars>>
    BY <1>1 DEF QuietEvent, QuietHandling, TInv, QueueTyped
  <2>1. /\ Head(inbox) = inbox[1] /\ 1 \in 1..Len(inbox) /\ Len(inbox) \in Nat
        /\ Len(inbox') = Len(inbox) - 1
        /\ \A i \in 1..Len(inbox') : inbox'[i] = inbox[i + 1] /\ i + 1 \in 1..Len(inbox)
    BY <2>0, TailFacts
  <2>2. fPid # NoChild /\ ~fMgmtPoll
    BY <2>0 DEF AttachInv, OneAttached
  <2>3. OneAttached'
    BY <2>0, <2>2 DEF AttachInv, OneAttached, scanVars, childVars
  <2>4. QueueOrdered'
    <3>1. \A i \in 1..Len(inbox') : inbox'[i] = "READER_EXITED" => i = Len(inbox') /\ readers = {}
      BY <2>1 DEF AttachInv, QueueOrdered
    <3>2. ASSUME NEW i \in 1..Len(inbox'), inbox'[i] = "EXITING"
          PROVE  /\ child[fPid] \in Silent
                 /\ \A j \in (i + 1)..Len(inbox') : inbox'[j] = "READER_EXITED"
      <4>1. i \in Nat /\ i + 1 \in 1..Len(inbox) /\ inbox[i + 1] = "EXITING"
        BY <2>1, <3>2
      <4>2. /\ child[fPid] \in Silent
            /\ \A k \in ((i + 1) + 1)..Len(inbox) : inbox[k] = "READER_EXITED"
        BY <4>1 DEF AttachInv, QueueOrdered
      <4>3. ASSUME NEW j \in (i + 1)..Len(inbox') PROVE inbox'[j] = "READER_EXITED"
        <5>1. j \in 1..Len(inbox') /\ j + 1 \in ((i + 1) + 1)..Len(inbox)
          BY <2>1, <4>1, <4>3
        <5> QED
          BY <2>1, <4>2, <5>1
      <4> QED
        BY <4>2, <4>3
    <3>3. readers = {} /\ inbox' # <<>> => inbox'[Len(inbox')] = "READER_EXITED"
      <4> SUFFICES ASSUME readers = {}, inbox' # <<>> PROVE inbox'[Len(inbox')] = "READER_EXITED"
        OBVIOUS
      <4>1. inbox[Len(inbox)] = "READER_EXITED"
        BY <2>0 DEF AttachInv, QueueOrdered
      <4>2. Len(inbox') \in 1..Len(inbox')
        BY <2>0, <2>1
      <4> QED
        BY <2>1, <4>1, <4>2
    <3>4. exiting' => child[fPid] \in Silent /\ \A i \in 1..Len(inbox') : inbox'[i] = "READER_EXITED"
      <4>1. CASE exiting' = exiting
        BY <2>1, <4>1 DEF AttachInv, QueueOrdered
      <4>2. CASE inbox[1] = "EXITING"
        <5>1. /\ child[fPid] \in Silent
              /\ \A k \in (1 + 1)..Len(inbox) : inbox[k] = "READER_EXITED"
          BY <2>1, <4>2 DEF AttachInv, QueueOrdered
        <5>2. \A i \in 1..Len(inbox') : i + 1 \in (1 + 1)..Len(inbox)
          BY <2>1
        <5> QED
          BY <2>1, <5>1, <5>2
      <4> QED
        BY <1>1, <2>1, <4>1, <4>2 DEF QuietEvent
    <3>5. UNCHANGED <<readers, child, fPid>>
      BY <2>0 DEF childVars
    <3> QED
      BY <3>1, <3>2, <3>3, <3>4, <3>5 DEF QueueOrdered
  <2> QED
    BY <2>0, <2>3, <2>4 DEF AttachInv, DeadHasNothing, crashVars
<1>2. CASE HandleReaderExited
  <2>1. /\ alive /\ alive' = alive /\ inbox # <<>> /\ Head(inbox) = "READER_EXITED"
        /\ inbox' = Tail(inbox) \o CleanupPosts /\ Cleanup(fPid, fTunInterface) /\ exiting' = FALSE
    BY <1>2 DEF HandleReaderExited, Handles, crashVars
  <2>2. inbox' = <<>>
    BY <2>1, ReaderExitIsLast
  <2>3. Emptied'
    BY <2>1, <2>2, CleanupEmpties DEF Emptied, TInv, SessionTyped
  <2> QED
    BY <2>1, <2>3, EmptiedIsFine
<1> QED
  BY <1>1, <1>2, EventCases

\* What is appended to the queue comes last.
LEMMA AppendFacts ==
    ASSUME NEW S, NEW q \in Seq(S), NEW e \in S
    PROVE  /\ Len(q) \in Nat /\ Len(Append(q, e)) = Len(q) + 1 /\ Append(q, e) # <<>>
           /\ Append(q, e)[Len(q) + 1] = e
           /\ \A i \in 1..Len(q) : Append(q, e)[i] = q[i]
           /\ \A i \in 1..(Len(q) + 1) : i \in 1..Len(q) \/ i = Len(q) + 1
<1>1. Len(q) \in Nat /\ Append(q, e) \in Seq(S) /\ Len(Append(q, e)) = Len(q) + 1
  OBVIOUS
<1>2. Append(q, e)[Len(q) + 1] = e
  BY <1>1
<1>3. \A i \in 1..Len(q) : Append(q, e)[i] = q[i]
  BY <1>1
<1>4. Append(q, e) # <<>>
  <2>1. Len(<<>>) = 0
    OBVIOUS
  <2> QED BY <1>1, <2>1
<1>5. \A i \in 1..(Len(q) + 1) : i \in 1..Len(q) \/ i = Len(q) + 1
  BY <1>1
<1> QED BY <1>1, <1>2, <1>3, <1>4, <1>5

\* Child, reader and scanner keep the queue in order: a child says nothing
\* after EXITING, and nothing is forwarded after the reader's end.
LEMMA ThreadsAttach ==
    ASSUME TInv, AttachInv, NEW p \in Child, ChildStep(p) \/ ReaderEnds(p) \/ ScanLogLine(p)
    PROVE  AttachInv'
<1>0. inbox \in Seq(Events) /\ p # NoChild /\ child \in [Child -> Phases]
  BY Constants DEF TInv, QueueTyped, ChildTyped
<1>1. CASE ChildStep(p)
  <2>1. PICK phase \in Phases \ {"unborn"} : ChildMoves(p, phase)
    BY <1>1, ChildCases
  <2>2. /\ UNCHANGED <<sessionVars, scanVars, routeVars, readers, scanners, crashVars, reportVars>>
        /\ \A q \in Child : child[q] # "unborn" => child'[q] # "unborn"
        /\ \A q \in Child : child[q] \in Silent => child'[q] \in Silent
    BY <1>0, <2>1 DEF ChildMoves, Silent
  <2>3. fPid \in Child \cup {NoChild}
    BY DEF TInv, SessionTyped
  <2>4. CASE inbox' = inbox
    <3>1. fPid = NoChild => inbox = <<>> /\ ~exiting
      BY DEF AttachInv, OneAttached
    <3>2. OneAttached'
      BY <2>2, <2>3, <2>4 DEF AttachInv, OneAttached, sessionVars, scanVars, routeVars, reportVars
    <3>3. QueueOrdered'
      <4>1. CASE fPid = NoChild
        BY <2>2, <2>4, <3>1, <4>1 DEF QueueOrdered, reportVars
      <4>2. CASE fPid \in Child
        BY <2>2, <2>4, <4>2 DEF AttachInv, QueueOrdered, sessionVars, reportVars
      <4> QED
        BY <2>3, <4>1, <4>2
    <3> QED
      BY <2>2, <2>4, <3>2, <3>3 DEF AttachInv, DeadHasNothing, sessionVars, routeVars, crashVars
  <2>5. CASE inbox' # inbox
    <3>1. PICK e \in Events \ {"READER_EXITED"} :
            inbox' = Append(inbox, e) /\ (e = "EXITING" => phase = "leaving")
      BY <2>1, <2>5 DEF ChildMoves
    <3>2. p \in readers /\ child[p] \notin Silent
      BY <2>1, <2>5 DEF ChildMoves
    <3>3. fPid = p /\ fPid # NoChild /\ alive /\ ~fMgmtPoll
      BY <1>0, <3>2 DEF AttachInv, OneAttached, DeadHasNothing
    <3>4. /\ Len(inbox) \in Nat /\ Len(inbox') = Len(inbox) + 1 /\ inbox' # <<>>
          /\ inbox'[Len(inbox) + 1] = e
          /\ \A i \in 1..Len(inbox) : inbox'[i] = inbox[i]
          /\ \A i \in 1..Len(inbox') : i \in 1..Len(inbox) \/ i = Len(inbox) + 1
      BY <1>0, <3>1, AppendFacts
    <3>5. OneAttached'
      BY <2>2, <3>3 DEF AttachInv, OneAttached, sessionVars, scanVars, routeVars, reportVars
    <3>6. ~exiting /\ \A i \in 1..Len(inbox) : inbox[i] \notin {"EXITING", "READER_EXITED"}
      BY <3>2, <3>3 DEF AttachInv, QueueOrdered
    <3>7. e = "EXITING" => child'[fPid] \in Silent
      BY <1>0, <2>1, <3>1, <3>3 DEF ChildMoves, Silent
    <3>8. \A j \in ((Len(inbox) + 1) + 1)..Len(inbox') : inbox'[j] = "READER_EXITED"
      BY <3>4
    <3>9. QueueOrdered'
      BY <2>2, <3>1, <3>2, <3>4, <3>6, <3>7, <3>8 DEF QueueOrdered, sessionVars, reportVars
    <3> QED
      BY <2>2, <3>3, <3>5, <3>9 DEF AttachInv, DeadHasNothing, crashVars
  <2> QED
    BY <2>4, <2>5
<1>2. CASE ReaderEnds(p)
  <2>1. p \in readers /\ child[p] \in {"dead", "reaped"} /\ readers' = readers \ {p}
        /\ inbox' = Append(inbox, "READER_EXITED")
        /\ UNCHANGED <<sessionVars, scanVars, routeVars, child, scanners, crashVars, reportVars>>
    BY <1>2 DEF ReaderEnds
  <2>2. fPid = p /\ alive /\ ~fMgmtPoll /\ readers' = {}
    BY <1>0, <2>1 DEF AttachInv, OneAttached, DeadHasNothing
  <2>3. /\ Len(inbox) \in Nat /\ Len(inbox') = Len(inbox) + 1 /\ inbox' # <<>>
        /\ inbox'[Len(inbox) + 1] = "READER_EXITED"
        /\ \A i \in 1..Len(inbox) : inbox'[i] = inbox[i]
        /\ \A i \in 1..Len(inbox') : i \in 1..Len(inbox) \/ i = Len(inbox) + 1
    BY <1>0, <2>1, AppendFacts DEF Events
  <2>4. OneAttached'
    BY <1>0, <2>1, <2>2 DEF AttachInv, OneAttached, sessionVars, scanVars, routeVars, reportVars
  <2>5. \A i \in 1..Len(inbox) : inbox[i] # "READER_EXITED"
    BY <2>1 DEF AttachInv, QueueOrdered
  <2>6. QueueOrdered'
    <3>1. ASSUME NEW i \in 1..Len(inbox'), inbox'[i] = "EXITING"
          PROVE  /\ child[fPid] \in Silent
                 /\ \A j \in (i + 1)..Len(inbox') : inbox'[j] = "READER_EXITED"
      <4>1. i \in 1..Len(inbox) /\ inbox[i] = "EXITING"
        BY <2>3, <3>1
      <4>2. child[fPid] \in Silent /\ \A j \in (i + 1)..Len(inbox) : inbox[j] = "READER_EXITED"
        BY <4>1 DEF AttachInv, QueueOrdered
      <4>3. \A j \in (i + 1)..Len(inbox') : j \in (i + 1)..Len(inbox) \/ j = Len(inbox) + 1
        BY <2>3, <4>1
      <4>4. (i + 1)..Len(inbox) \subseteq 1..Len(inbox)
        BY <2>3, <4>1
      <4> QED
        BY <2>3, <4>2, <4>3, <4>4
    <3>2. \A i \in 1..Len(inbox') : inbox'[i] = "READER_EXITED" => i = Len(inbox')
      BY <2>3, <2>5
    <3>3. exiting => child[fPid] \in Silent /\ \A i \in 1..Len(inbox') : inbox'[i] = "READER_EXITED"
      BY <2>3 DEF AttachInv, QueueOrdered
    <3>4. UNCHANGED <<fPid, child, exiting>>
      BY <2>1 DEF sessionVars, reportVars
    <3> QED
      BY <2>2, <2>3, <3>1, <3>2, <3>3, <3>4 DEF QueueOrdered
  <2> QED
    BY <2>1, <2>2, <2>4, <2>6 DEF AttachInv, DeadHasNothing, crashVars
<1>3. CASE ScanLogLine(p)
  <2>1. fPid = p
    BY <1>3 DEF ScanLogLine, AttachInv, OneAttached
  <2> QED
    BY <1>0, <1>3, <2>1 DEF ScanLogLine, AttachInv, DeadHasNothing, OneAttached, QueueOrdered,
                            sessionVars, routeVars, crashVars, reportVars
<1> QED
  BY <1>1, <1>2, <1>3

\* A crash empties the memory, and the recovery puts nothing there.
LEMMA CrashesAttach ==
    ASSUME TInv, AttachInv,
           CrashAtRest \/ CrashInstalling \/ CrashRefreshing \/ CrashRemoving \/ RecoverIfCrashed
    PROVE  AttachInv'
<1>1. CASE MemoryLost
  <2>1. Emptied'
    BY <1>1 DEF MemoryLost, Emptied
  <2>2. crashes' > 0
    BY <1>1, Constants DEF MemoryLost, TInv, CrashTyped
  <2> QED
    BY <2>1, <2>2, EmptiedIsFine
<1>2. CASE RecoverIfCrashed
  <2>1. ~alive /\ alive'
        /\ UNCHANGED <<sessionVars, scanVars, fRoutesInstalled, readers, scanners, inbox, reportVars>>
    BY <1>2 DEF RecoverIfCrashed
  <2>2. Emptied
    BY <2>1, DetachedIsEmpty DEF AttachInv, DeadHasNothing
  <2>3. Emptied'
    BY <2>1, <2>2 DEF Emptied, sessionVars, scanVars, reportVars
  <2> QED
    BY <2>1, <2>3, EmptiedIsFine
<1> QED
  BY <1>1, <1>2 DEF CrashAtRest, CrashInstalling, CrashRefreshing, CrashRemoving

\* A daemon that calls Connect only with nothing attached has one child at a
\* time, and its queue ends with the reader's end.
LEMMA AttachStep == ASSUME ~Reentry PROVE TInv /\ AttachInv /\ [Next]_vars => AttachInv'
<1> SUFFICES ASSUME TInv, AttachInv, [Next]_vars PROVE AttachInv'
  OBVIOUS
<1>1. CASE UNCHANGED vars
  BY <1>1 DEF vars, sessionVars, scanVars, routeVars, childVars, crashVars, reportVars,
              AttachInv, DeadHasNothing, OneAttached, QueueOrdered
<1> QED
  BY <1>1, CallsAttach, PollAttach, EventsAttach, ThreadsAttach, CrashesAttach DEF Next

\* Nothing is attached at first.
LEMMA InitAttach == Init => AttachInv
  BY DEF Init, AttachInv, DeadHasNothing, OneAttached, QueueOrdered

\* So in every reachable state.
LEMMA Attached == ASSUME ~Reentry PROVE Spec => [](TInv /\ AttachInv)
<1>1. Init => TInv /\ AttachInv
  BY InitTyped, InitAttach
<1>2. TInv /\ AttachInv /\ [Next]_vars => (TInv /\ AttachInv)'
  BY TypeStep, AttachStep
<1> QED
  BY <1>1, <1>2, PTL DEF Spec
-----------------------------------------------------------------------------
(***************************************************************************)
(* Every child is reaped.                                                  *)
(***************************************************************************)
\* Steps of every kind keep the children that are neither unborn nor reaped
\* down to the one fPid names.
LEMMA OneChildStep ==
    ASSUME ~Reentry PROVE TInv /\ AttachInv /\ OneChild /\ [Next]_vars => OneChild'
<1> SUFFICES ASSUME TInv, AttachInv, OneChild, [Next]_vars, crashes' = 0 PROVE OneChild'
  BY DEF OneChild
<1>0. child \in [Child -> Phases] /\ crashes \in Nat
  BY Constants DEF TInv, ChildTyped, CrashTyped
<1>1. CASE UNCHANGED <<child, fPid, crashes>>
  BY <1>1 DEF OneChild
<1>2. CASE ConnectFails \/ Disconnect \/ QuietEvent \/ PollWaits \/ UNCHANGED vars
           \/ \E p \in Child : ReaderEnds(p) \/ ScanLogLine(p)
  BY <1>1, <1>2 DEF ConnectFails, Connectable, Disconnect, QuietEvent, QuietHandling, PollWaits,
                    ReaderEnds, ScanLogLine, vars, sessionVars, childVars, crashVars
<1>3. CASE ConnectWithoutPoll \/ ConnectStarts
  <2>1. fPid = NoChild /\ crashes = 0
    BY <1>3 DEF ConnectWithoutPoll, ConnectStarts, Connectable, Detached, crashVars
  <2>2. \A q \in Child : child[q] \in {"unborn", "reaped"}
    BY <2>1, Constants DEF OneChild
  <2>3. CASE ConnectWithoutPoll
    BY <1>0, <2>2, <2>3 DEF ConnectWithoutPoll, Cleanup, Reap, OneChild, Fresh
  <2>4. CASE ConnectStarts
    BY <1>0, <2>2, <2>4 DEF ConnectStarts, OneChild, Fresh
  <2> QED
    BY <1>3, <2>3, <2>4
<1>4. CASE Cleanup(fPid, fTunInterface) /\ crashes' = crashes
  BY <1>0, <1>4 DEF Cleanup, Reap, OneChild
<1>5. CASE PollConnects
  BY <1>0, <1>5 DEF PollConnects, OneChild, crashVars
<1>6. ASSUME NEW p \in Child, ChildStep(p) PROVE OneChild'
  <2>1. PICK phase \in Phases \ {"unborn"} : ChildMoves(p, phase)
    BY <1>6, ChildCases
  <2>2. child' = [child EXCEPT ![p] = phase] /\ child[p] \notin {"unborn", "reaped"}
        /\ UNCHANGED <<fPid, crashes>>
    BY <2>1 DEF ChildMoves, sessionVars, crashVars
  <2> QED
    BY <1>0, <2>2 DEF OneChild
<1>7. CASE TryMgmtConnect
  BY <1>2, <1>4, <1>5, <1>7, PollCases DEF PollEnds, PollCleanup, crashVars
<1>8. CASE HandleEvent
  BY <1>2, <1>4, <1>8, EventCases DEF HandleReaderExited, Handles, crashVars
<1>9. CASE CrashAtRest \/ CrashInstalling \/ CrashRefreshing \/ CrashRemoving
  <2>1. crashes' = crashes + 1
    BY <1>9 DEF CrashAtRest, CrashInstalling, CrashRefreshing, CrashRemoving, MemoryLost
  <2> QED
    BY <1>0, <2>1
<1>10. CASE RecoverIfCrashed
  <2>1. ~alive /\ crashes' = crashes
    BY <1>10 DEF RecoverIfCrashed
  <2> QED
    BY <1>0, <2>1 DEF AttachInv, DeadHasNothing
<1> QED
  BY <1>2, <1>3, <1>6, <1>7, <1>8, <1>9, <1>10 DEF Next, Connect

\* Every openvpn that a daemon which never died has spawned and not reaped is the
\* one its clean-up will reap, for any number of children, when Connect comes
\* only with nothing attached (_Cleanup, TryMgmtConnect).
THEOREM EveryChildReaped == ASSUME ~Reentry PROVE Spec => []OneChild
<1>1. Init => OneChild
  BY DEF Init, OneChild
<1>2. TInv /\ AttachInv /\ OneChild /\ [Next]_vars => OneChild'
  BY OneChildStep
<1> QED
  BY <1>1, <1>2, Attached, PTL DEF Spec
-----------------------------------------------------------------------------
(***************************************************************************)
(* The routes, when the daemon does not die between two route commands of  *)
(* an installation or a refresh.                                           *)
(***************************************************************************)
\* The daemon may die at rest and while it removes routes.
SafeCrashes == "install" \notin CrashPoints /\ "refresh" \notin CrashPoints

\* What the log scanner harvests is right.
HarvestInv == UnbornSilent /\ GatewayIsCarrier /\ LogNamesCarrier

\* What is installed can be undone, and what was undone is.
TableInv == InstalledFaithfully /\ CarrierRestored /\ NothingRecorded /\ DeadLeavesRecord

\* While the carrier's gateway was not harvested, the table is the carrier's.
LEMMA NoGatewayNoRoutes ==
    ASSUME TInv, AttachInv, TableInv, fPid \in Child, fOrigGateway = None
    PROVE  defaults = {Carrier}
  BY Constants DEF AttachInv, DeadHasNothing, TableInv, InstalledFaithfully, CarrierRestored

\* _Cleanup leaves the harvest empty.
LEMMA CleanupHarvest ==
    ASSUME TInv, HarvestInv, NEW pid, NEW tun, Cleanup(pid, tun) PROVE HarvestInv'
<1>1. fOrigGateway' = None /\ fPid' = NoChild
      /\ child' = [p \in Child |-> IF p = pid THEN "reaped" ELSE child[p]]
      /\ log' = [p \in Child |-> IF p = pid THEN <<>> ELSE log[p]]
  BY DEF Cleanup, Reap
<1>2. UnbornSilent'
  BY <1>1 DEF HarvestInv, UnbornSilent
<1> QED
  BY <1>1, <1>2, Constants DEF HarvestInv, GatewayIsCarrier, LogNamesCarrier

\* Child and scanner: before a gateway is kept, every one in the log is the
\* carrier's; afterwards the tunnel's do not replace it.
LEMMA ThreadsHarvest ==
    ASSUME TInv, AttachInv, HarvestInv, TableInv, NEW p \in Child,
           ChildStep(p) \/ ReaderEnds(p) \/ ScanLogLine(p)
    PROVE  HarvestInv'
<1>0. child \in [Child -> Phases] /\ log \in [Child -> Seq(Lines)]
      /\ UnbornSilent /\ GatewayIsCarrier /\ LogNamesCarrier
  BY DEF TInv, ChildTyped, HarvestInv
<1>1. CASE ChildStep(p)
  <2>1. PICK phase \in Phases \ {"unborn"} : ChildMoves(p, phase)
    BY <1>1, ChildCases
  <2>2. /\ child' = [child EXCEPT ![p] = phase] /\ child[p] # "unborn"
        /\ UNCHANGED <<fPid, fOrigGateway, fTunPeer>>
    BY <2>1 DEF ChildMoves, sessionVars, scanVars
  <2>3. CASE log' = log
    BY <1>0, <2>2, <2>3 DEF HarvestInv, UnbornSilent, GatewayIsCarrier, LogNamesCarrier
  <2>4. CASE log' # log
    <3>1. PICK q \in Peers, g \in defaults :
            log' = [log EXCEPT ![p] = @ \o <<[gateway |-> g, peer |-> None],
                                             [gateway |-> None, peer |-> q]>>]
      BY <2>1, <2>4 DEF ChildMoves
    <3>2. UnbornSilent' /\ GatewayIsCarrier'
      BY <1>0, <2>2, <3>1 DEF UnbornSilent, GatewayIsCarrier
    <3>3. LogNamesCarrier'
      <4> SUFFICES ASSUME fPid \in Child, fOrigGateway = None,
                          NEW i \in 1..Len(log'[fPid])
                   PROVE  log'[fPid][i].gateway \in {Carrier, None}
        BY <2>2 DEF LogNamesCarrier
      <4>1. CASE fPid # p
        BY <1>0, <3>1, <4>1 DEF LogNamesCarrier
      <4>2. CASE fPid = p
        <5> DEFINE a == [gateway |-> g, peer |-> None]
                   b == [gateway |-> None, peer |-> q]
        <5>1. g = Carrier
          BY NoGatewayNoRoutes
        <5>2. log[p] \in Seq(Lines) /\ log'[p] = log[p] \o <<a, b>>
          BY <1>0, <3>1
        <5>3. a.gateway = Carrier /\ b.gateway = None
          BY <5>1
        <5> HIDE DEF a, b
        <5>4. /\ Len(log[p]) \in Nat /\ Len(log'[p]) = Len(log[p]) + 2
              /\ \A k \in 1..Len(log[p]) : log'[p][k] = log[p][k]
              /\ log'[p][Len(log[p]) + 1] = a /\ log'[p][Len(log[p]) + 2] = b
              /\ \A k \in 1..(Len(log[p]) + 2) :
                    k \in 1..Len(log[p]) \/ k = Len(log[p]) + 1 \/ k = Len(log[p]) + 2
          BY <5>2
        <5> QED
          BY <1>0, <4>2, <5>3, <5>4 DEF LogNamesCarrier
      <4> QED
        BY <4>1, <4>2
    <3> QED
      BY <3>2, <3>3 DEF HarvestInv
  <2> QED
    BY <2>3, <2>4
<1>2. CASE ReaderEnds(p)
  BY <1>0, <1>2 DEF ReaderEnds, sessionVars, scanVars, HarvestInv, UnbornSilent,
                    GatewayIsCarrier, LogNamesCarrier
<1>3. CASE ScanLogLine(p)
  <2>1. /\ p \in scanners /\ log[p] # <<>> /\ log' = [log EXCEPT ![p] = Tail(@)]
        /\ fOrigGateway' = IF fOrigGateway = None THEN Head(log[p]).gateway ELSE fOrigGateway
        /\ UNCHANGED <<fPid, child>>
    BY <1>3 DEF ScanLogLine, KeepFirstGateway, sessionVars
  <2>2. p = fPid
    BY <2>1 DEF AttachInv, OneAttached
  <2>3. log[p] \in Seq(Lines) /\ log'[p] = Tail(log[p])
    BY <1>0, <2>1
  <2>4. /\ Head(log[p]) = log[p][1] /\ 1 \in 1..Len(log[p])
        /\ \A i \in 1..Len(log'[p]) : log'[p][i] = log[p][i + 1] /\ i + 1 \in 1..Len(log[p])
    BY <2>1, <2>3, TailFacts
  <2>5. UnbornSilent'
    BY <1>0, <2>1 DEF UnbornSilent
  <2>6. GatewayIsCarrier'
    BY <1>0, <2>1, <2>2, <2>4 DEF GatewayIsCarrier, LogNamesCarrier
  <2>7. LogNamesCarrier'
    BY <1>0, <2>1, <2>2, <2>4, Constants DEF LogNamesCarrier
  <2> QED
    BY <2>5, <2>6, <2>7 DEF HarvestInv
<1> QED
  BY <1>1, <1>2, <1>3

\* Every step keeps the harvest right.
LEMMA HarvestStep ==
    ASSUME ~Reentry
    PROVE  TInv /\ AttachInv /\ HarvestInv /\ TableInv /\ [Next]_vars => HarvestInv'
<1> SUFFICES ASSUME TInv, AttachInv, HarvestInv, TableInv, [Next]_vars PROVE HarvestInv'
  OBVIOUS
<1>0. child \in [Child -> Phases] /\ log \in [Child -> Seq(Lines)]
      /\ UnbornSilent /\ GatewayIsCarrier /\ LogNamesCarrier
  BY DEF TInv, ChildTyped, HarvestInv
<1>1. CASE UNCHANGED <<child, log, fPid, fOrigGateway>>
  BY <1>0, <1>1 DEF HarvestInv, UnbornSilent, GatewayIsCarrier, LogNamesCarrier
<1>2. CASE ConnectFails \/ Disconnect \/ QuietEvent \/ PollWaits \/ UNCHANGED vars
  BY <1>1, <1>2 DEF ConnectFails, Connectable, Disconnect, QuietEvent, QuietHandling, PollWaits,
                    vars, sessionVars, scanVars, childVars
<1>3. CASE ConnectWithoutPoll
  BY <1>3, CleanupHarvest DEF ConnectWithoutPoll
<1>4. CASE ConnectStarts
  <2>1. PICK p \in Fresh : fPid' = p /\ child' = [child EXCEPT ![p] = "starting"]
    BY <1>4 DEF ConnectStarts
  <2>2. p \in Child /\ log[p] = <<>> /\ UNCHANGED <<log, fOrigGateway>>
    BY <1>0, <1>4 DEF ConnectStarts, Fresh, UnbornSilent, scanVars
  <2> QED
    BY <1>0, <2>1, <2>2 DEF HarvestInv, UnbornSilent, GatewayIsCarrier, LogNamesCarrier
<1>5. CASE PollConnects
  BY <1>0, <1>5 DEF PollConnects, scanVars, HarvestInv, UnbornSilent, GatewayIsCarrier,
                    LogNamesCarrier
<1>6. CASE TryMgmtConnect
  BY <1>2, <1>5, <1>6, PollCases, CleanupHarvest DEF PollEnds, PollCleanup
<1>7. CASE HandleEvent
  BY <1>2, <1>7, EventCases, CleanupHarvest DEF HandleReaderExited
<1>8. CASE MemoryLost
  BY <1>0, <1>8, Constants DEF MemoryLost, HarvestInv, UnbornSilent, GatewayIsCarrier,
                               LogNamesCarrier
<1>9. CASE RecoverIfCrashed
  <2>1. UNCHANGED <<log, fPid, fOrigGateway>>
    BY <1>9 DEF RecoverIfCrashed, sessionVars, scanVars
  <2>2. \A p \in Child : child'[p] = "unborn" => child[p] = "unborn"
    BY <1>0, <1>9 DEF RecoverIfCrashed, RecoverSession
  <2> QED
    BY <1>0, <2>1, <2>2 DEF HarvestInv, UnbornSilent, GatewayIsCarrier, LogNamesCarrier
<1> QED
  BY <1>2, <1>3, <1>4, <1>6, <1>7, <1>8, <1>9, ThreadsHarvest
  DEF Next, Connect, CrashAtRest, CrashInstalling, CrashRefreshing, CrashRemoving
\* _RemoveRoutes through the tun gives the carrier's route back.
LEMMA RemovalRestores ==
    ASSUME TInv, AttachInv, TableInv, NEW pid, NEW tun, Cleanup(pid, tun), alive,
           fRoutesInstalled => tun
    PROVE  /\ defaults' = {Carrier} /\ pinned' = FALSE /\ fRoutesInstalled' = FALSE
           /\ session'.is # "record"
<1>0. RemoveRoutes(tun)
  BY DEF Cleanup
<1>1. CASE fRoutesInstalled
  <2>1. /\ fOrigGateway = Carrier /\ fInstalledTunPeer \in Peers /\ defaults = {fInstalledTunPeer}
        /\ tun /\ Carrier # None /\ fInstalledTunPeer # None
    BY <1>1, Constants DEF TableInv, InstalledFaithfully
  <2>2. Restored(defaults, tun, fInstalledTunPeer, fOrigGateway) = {Carrier}
    BY <2>1 DEF Restored
  <2>3. /\ defaults' = Restored(defaults, tun, fInstalledTunPeer, fOrigGateway)
        /\ pinned' = (pinned /\ fOrigGateway = None)
        /\ fRoutesInstalled' = FALSE /\ session' = NoFile
    BY <1>0, <1>1 DEF RemoveRoutes
  <2>4. pinned' = FALSE
    BY <2>1, <2>3
  <2>5. session'.is # "record"
    BY <2>3 DEF NoFile
  <2> QED
    BY <2>2, <2>3, <2>4, <2>5
<1>2. CASE ~fRoutesInstalled
  <2>1. UNCHANGED <<defaults, pinned, fRoutesInstalled, session>>
    BY <1>0, <1>2 DEF RemoveRoutes, routeVars
  <2>2. defaults = {Carrier} /\ ~pinned /\ session.is # "record"
    BY <1>2 DEF TableInv, CarrierRestored, NothingRecorded
  <2> QED
    BY <1>2, <2>1, <2>2 DEF TInv, RouteTyped
<1> QED
  BY <1>1, <1>2

\* A table that is the carrier's, in a running daemon, satisfies everything.
LEMMA RestoredIsFine ==
    /\ alive' /\ defaults' = {Carrier} /\ pinned' = FALSE /\ fRoutesInstalled' = FALSE
    /\ session'.is # "record"
    => TableInv'
  BY DEF TableInv, InstalledFaithfully, CarrierRestored,
         NothingRecorded, DeadLeavesRecord

\* CONNECTED installs the tunnel's route or moves it to the latest peer.
LEMMA ConnectedInstalls ==
    ASSUME TInv, AttachInv, HarvestInv, TableInv, alive, alive', fOrigGateway' = fOrigGateway,
           IF fRoutesInstalled THEN RefreshTunRoute ELSE InstallRoutes
    PROVE  TableInv'
<1>0. fTunPeer \in Peers \cup {None} /\ fOrigGateway \in {None, Carrier}
      /\ InstalledFaithfully /\ CarrierRestored
  BY DEF TInv, ScanTyped, HarvestInv, GatewayIsCarrier, TableInv
<1>1. CASE UNCHANGED routeVars
  BY <1>1 DEF routeVars, TableInv, InstalledFaithfully, CarrierRestored,
         NothingRecorded, DeadLeavesRecord
<1>2. CASE fRoutesInstalled /\ ~UNCHANGED routeVars
  <2>1. /\ fTunPeer \in Peers
        /\ defaults' = (defaults \ {fInstalledTunPeer}) \cup {fTunPeer}
        /\ fInstalledTunPeer' = fTunPeer /\ fRoutesInstalled' = fRoutesInstalled
        /\ WriteSessionFile
    BY <1>0, <1>2 DEF RefreshTunRoute
  <2>2. session'.is = "record" /\ session'.gateway = Carrier /\ session'.peer = fTunPeer
    BY <1>0, <1>2, <2>1 DEF WriteSessionFile, InstalledFaithfully
  <2>3. defaults' = {fTunPeer} /\ fOrigGateway' = Carrier
    BY <1>0, <1>2, <2>1 DEF InstalledFaithfully
  <2> QED
    BY <1>2, <2>1, <2>2, <2>3 DEF TableInv, InstalledFaithfully, CarrierRestored,
         NothingRecorded, DeadLeavesRecord
<1>3. CASE ~fRoutesInstalled /\ ~UNCHANGED routeVars
  <2>1. /\ fTunPeer \in Peers /\ fOrigGateway = Carrier
        /\ defaults' = (defaults \ {fOrigGateway}) \cup {fTunPeer}
        /\ fInstalledTunPeer' = fTunPeer /\ fRoutesInstalled' = TRUE
        /\ WriteSessionFile
    BY <1>0, <1>3 DEF InstallRoutes
  <2>2. session'.is = "record" /\ session'.gateway = Carrier /\ session'.peer = fTunPeer
    BY <2>1 DEF WriteSessionFile
  <2>3. defaults' = {fTunPeer}
    BY <1>0, <1>3, <2>1 DEF CarrierRestored
  <2> QED
    BY <2>1, <2>2, <2>3 DEF TableInv, InstalledFaithfully, CarrierRestored,
         NothingRecorded, DeadLeavesRecord
<1> QED
  BY <1>1, <1>2, <1>3

\* Every step keeps the table one that can be undone, when the daemon does not
\* die between the commands of an installation or a refresh.
LEMMA TableStep ==
    ASSUME ~Reentry, SafeCrashes
    PROVE  TInv /\ AttachInv /\ HarvestInv /\ TableInv /\ [Next]_vars => TableInv'
<1> SUFFICES ASSUME TInv, AttachInv, HarvestInv, TableInv, [Next]_vars PROVE TableInv'
  OBVIOUS
<1>0. InstalledFaithfully /\ CarrierRestored /\ NothingRecorded /\ DeadLeavesRecord
      /\ (fRoutesInstalled => fTunInterface) /\ fRoutesInstalled \in BOOLEAN
  BY DEF TableInv, AttachInv, OneAttached, TInv, RouteTyped
<1>1. CASE UNCHANGED <<routeVars, fOrigGateway, alive>>
  BY <1>0, <1>1 DEF routeVars, TableInv, InstalledFaithfully, CarrierRestored,
         NothingRecorded, DeadLeavesRecord
<1>2. CASE ConnectFails \/ ConnectStarts \/ Disconnect \/ PollWaits \/ PollConnects \/ UNCHANGED vars
  BY <1>1, <1>2 DEF ConnectFails, ConnectStarts, Connectable, Disconnect, PollWaits, PollConnects,
                    vars, scanVars, crashVars
<1>3. CASE ConnectWithoutPoll
  <2>1. alive /\ alive' /\ \E p \in Fresh : Cleanup(p, TRUE)
    BY <1>3 DEF ConnectWithoutPoll, Connectable, crashVars
  <2> QED
    BY <2>1, RemovalRestores, RestoredIsFine
<1>4. CASE PollEnds /\ alive
  <2>1. alive' /\ Cleanup(fPid, fTunInterface)
    BY <1>4 DEF PollEnds, PollCleanup, crashVars
  <2> QED
    BY <1>0, <1>4, <2>1, RemovalRestores, RestoredIsFine
<1>5. CASE TryMgmtConnect
  BY <1>2, <1>4, <1>5, PollCases
<1>6. CASE HandleReaderExited
  <2>1. alive /\ alive' /\ Cleanup(fPid, fTunInterface)
    BY <1>6 DEF HandleReaderExited, Handles, crashVars
  <2> QED
    BY <1>0, <2>1, RemovalRestores, RestoredIsFine
<1>7. CASE QuietEvent
  <2>1. alive /\ alive' = alive /\ fOrigGateway' = fOrigGateway
    BY <1>7 DEF QuietEvent, QuietHandling, crashVars, scanVars
  <2>2. CASE UNCHANGED routeVars
    BY <1>1, <2>1, <2>2
  <2>3. CASE IF fRoutesInstalled THEN RefreshTunRoute ELSE InstallRoutes
    BY <2>1, <2>3, ConnectedInstalls
  <2> QED
    BY <1>7, <2>2, <2>3 DEF QuietEvent
<1>8. CASE HandleEvent
  BY <1>6, <1>7, <1>8, EventCases
<1>9. ASSUME NEW p \in Child, ChildStep(p) \/ ReaderEnds(p) PROVE TableInv'
  BY <1>1, <1>9 DEF ChildStep, ReaderEnds, scanVars, crashVars
<1>10. ASSUME NEW p \in Child, ScanLogLine(p) PROVE TableInv'
  <2>1. UNCHANGED <<routeVars, alive>> /\ (fOrigGateway # None => fOrigGateway' = fOrigGateway)
    BY <1>10 DEF ScanLogLine, KeepFirstGateway, crashVars
  <2> QED
    BY <1>0, <2>1, Constants DEF routeVars, TableInv, InstalledFaithfully, CarrierRestored,
                                 NothingRecorded, DeadLeavesRecord
<1>11. CASE CrashAtRest
  <2>1. alive /\ ~alive' /\ fRoutesInstalled' = FALSE /\ UNCHANGED <<defaults, pinned, session>>
    BY <1>11 DEF CrashAtRest, MemoryLost
  <2> QED
    BY <1>0, <2>1 DEF TableInv, InstalledFaithfully, CarrierRestored,
         NothingRecorded, DeadLeavesRecord
<1>12. CASE CrashRemoving
  <2>1. alive /\ ~alive' /\ fRoutesInstalled /\ fRoutesInstalled' = FALSE /\ session' = session
    BY <1>12 DEF CrashRemoving, MemoryLost
  <2>2. \/ defaults' = defaults \ {fInstalledTunPeer}
        \/ defaults' = Restored(defaults, fTunInterface, fInstalledTunPeer, fOrigGateway)
    BY <1>12 DEF CrashRemoving
  <2>3. defaults' \subseteq {Carrier, session.peer}
    BY <1>0, <2>1, <2>2 DEF InstalledFaithfully, Restored
  <2> QED
    BY <1>0, <2>1, <2>3 DEF TableInv, InstalledFaithfully, CarrierRestored,
         NothingRecorded, DeadLeavesRecord
<1>13. CASE RecoverIfCrashed
  <2>1. ~alive /\ alive' /\ fRoutesInstalled' = FALSE /\ session'.is # "record"
    BY <1>13 DEF RecoverIfCrashed, AttachInv, DeadHasNothing, TInv, RouteTyped, NoFile
  <2>2. CASE session.is = "record"
    <3>1. /\ defaults' = Restored(defaults, TRUE, session.peer, session.gateway)
          /\ pinned' = (pinned /\ session.gateway = None)
      BY <1>13, <2>2 DEF RecoverIfCrashed, RecoverSession
    <3>2. CASE session.gateway = Carrier /\ defaults \subseteq {Carrier, session.peer}
      <4>1. Restored(defaults, TRUE, session.peer, session.gateway) = {Carrier}
        BY <3>2, Constants DEF Restored, TInv, RouteTyped
      <4>2. pinned' = FALSE
        BY <3>1, <3>2, Constants
      <4> QED
        BY <2>1, <3>1, <4>1, <4>2, RestoredIsFine
    <3> QED
      BY <1>0, <2>1, <2>2, <3>2 DEF DeadLeavesRecord
  <2>3. CASE session.is # "record"
    <3>1. UNCHANGED <<defaults, pinned>> /\ defaults = {Carrier} /\ ~pinned
      BY <1>0, <1>13, <2>1, <2>3 DEF RecoverIfCrashed, DeadLeavesRecord
    <3> QED
      BY <2>1, <3>1, RestoredIsFine DEF TInv, RouteTyped
  <2> QED
    BY <2>2, <2>3
<1> QED
  BY <1>2, <1>3, <1>5, <1>8, <1>9, <1>10, <1>11, <1>12, <1>13
  DEF Next, Connect, SafeCrashes, CrashInstalling, CrashRefreshing
\* All of it, in every reachable state.
LEMMA RoutesInvariant ==
    ASSUME ~Reentry, SafeCrashes
    PROVE  Spec => [](TInv /\ AttachInv /\ HarvestInv /\ TableInv)
<1>1. Init => HarvestInv /\ TableInv
  <2> SUFFICES ASSUME Init PROVE HarvestInv /\ TableInv
    OBVIOUS
  <2>1. HarvestInv
    BY Constants DEF Init, HarvestInv, UnbornSilent, GatewayIsCarrier, LogNamesCarrier
  <2>2. TableInv
    BY DEF Init, TableInv, InstalledFaithfully, CarrierRestored, NothingRecorded,
           DeadLeavesRecord, NoFile
  <2> QED
    BY <2>1, <2>2
<1>2. TInv /\ AttachInv /\ HarvestInv /\ TableInv /\ [Next]_vars => (HarvestInv /\ TableInv)'
  BY HarvestStep, TableStep
<1> QED
  BY <1>1, <1>2, Attached, PTL DEF Spec

\* With no routes of its own installed a running daemon leaves the machine with
\* the carrier's default route, that one only, and no pin: after any number of
\* sessions, soft restarts and crashes at rest or in a removal.
THEOREM CarrierComesBack ==
    ASSUME ~Reentry, SafeCrashes
    PROVE  Spec => []CarrierRestored
<1>1. TableInv => CarrierRestored
  BY DEF TableInv
<1> QED
  BY <1>1, RoutesInvariant, PTL

\* The gateway remembered is the carrier's, and whenever the default route is
\* the tunnel's the session file holds what it takes to undo that.
THEOREM RecordsStayFaithful ==
    ASSUME ~Reentry, SafeCrashes
    PROVE  Spec => []RecordsFaithful
<1>1. TInv /\ AttachInv /\ HarvestInv /\ TableInv => RecordsFaithful
  <2> SUFFICES ASSUME TInv, AttachInv, HarvestInv, TableInv PROVE RecordsFaithful
    OBVIOUS
  <2>1. RoutesRecorded
    <3>1. CASE fRoutesInstalled
      BY <3>1 DEF TableInv, InstalledFaithfully, RoutesRecorded
    <3>2. CASE ~fRoutesInstalled /\ alive
      BY <3>2 DEF TableInv, CarrierRestored, RoutesRecorded
    <3>3. CASE ~alive
      BY <3>3 DEF TableInv, DeadLeavesRecord, RoutesRecorded
    <3> QED
      BY <3>1, <3>2, <3>3
  <2> QED
    BY <2>1, Typed DEF RecordsFaithful, HarvestInv
<1> QED
  BY <1>1, RoutesInvariant, PTL
-----------------------------------------------------------------------------
(***************************************************************************)
(* CONNECTED over the right tunnel, when the log scanner keeps up.         *)
(***************************************************************************)
\* With no child attached there is nothing to show.
LEMMA NoChildTunnel == fPid' = NoChild => TunnelInv'
  BY Constants DEF TunnelInv, Harvested, ScannerKeepsUp, UpIsInstalled

\* Handling an event: CONNECTED finds gateway and peer harvested and installs
\* the route to the latest peer, any other leaves CONNECTED queued.
LEMMA EventsTunnel ==
    ASSUME TInv, AttachInv, TunnelInv, QuietEvent PROVE TunnelInv'
<1>0. /\ inbox # <<>> /\ inbox \in Seq(Events) /\ inbox' = Tail(inbox)
      /\ UNCHANGED <<fPid, fOrigGateway, fTunPeer, child, log, readers, scanners>>
  BY DEF QuietEvent, QuietHandling, TInv, QueueTyped, scanVars, childVars
<1>1. /\ Head(inbox) = inbox[1] /\ Len(inbox) \in Nat /\ Len(inbox') = Len(inbox) - 1
      /\ \A i \in 1..Len(inbox') : inbox'[i] = inbox[i + 1] /\ i + 1 \in 1..Len(inbox)
  BY <1>0, TailFacts
<1>2. Harvested' /\ ScannerKeepsUp'
  BY <1>0 DEF TunnelInv, Harvested, ScannerKeepsUp
<1>3. UpIsInstalled'
  <2> SUFFICES ASSUME fPid \in Child, child[fPid] = "up",
                      \A i \in 1..Len(inbox') : inbox'[i] # "CONNECTED"
               PROVE  fRoutesInstalled' /\ fInstalledTunPeer' = fTunPeer
    BY <1>0 DEF UpIsInstalled
  <2>1. log[fPid] = <<>> /\ fOrigGateway # None /\ fTunPeer # None
    BY DEF TunnelInv, ScannerKeepsUp, Harvested
  <2>2. CASE inbox[1] = "CONNECTED"
    <3>1. IF fRoutesInstalled THEN RefreshTunRoute ELSE InstallRoutes
      BY <1>1, <2>2 DEF QuietEvent
    <3> QED
      BY <2>1, <3>1 DEF RefreshTunRoute, InstallRoutes, routeVars
  <2>3. CASE inbox[1] # "CONNECTED"
    <3>1. UNCHANGED <<fRoutesInstalled, fInstalledTunPeer>>
      BY <1>1, <2>3 DEF QuietEvent, routeVars
    <3>2. \A i \in 1..Len(inbox) : inbox[i] # "CONNECTED"
      <4> SUFFICES ASSUME NEW i \in 1..Len(inbox) PROVE inbox[i] # "CONNECTED"
        OBVIOUS
      <4>1. CASE i = 1
        BY <2>3, <4>1
      <4>2. CASE i # 1
        <5>1. i - 1 \in 1..Len(inbox') /\ (i - 1) + 1 = i
          BY <1>1, <4>2
        <5>2. inbox'[i - 1] = inbox[i]
          BY <1>1, <5>1
        <5> QED
          BY <5>1, <5>2
      <4> QED
        BY <4>1, <4>2
    <3> QED
      BY <3>1, <3>2 DEF TunnelInv, UpIsInstalled
  <2> QED
    BY <2>2, <2>3
<1> QED
  BY <1>2, <1>3 DEF TunnelInv

\* The child: PUSH_REPLY writes gateway and peer, CONNECTED comes when both
\* were read and is queued, every other phase ends the obligation.
LEMMA ChildTunnel ==
    ASSUME ~LateLog, TInv, AttachInv, TunnelInv, NEW p \in Child, ChildStep(p)
    PROVE  TunnelInv'
<1>0. child \in [Child -> Phases] /\ log \in [Child -> Seq(Lines)] /\ inbox \in Seq(Events)
      /\ UNCHANGED <<fPid, fOrigGateway, fTunPeer, readers, scanners, fRoutesInstalled,
                     fInstalledTunPeer>>
  BY DEF TInv, ChildTyped, QueueTyped, ChildStep, sessionVars, scanVars, routeVars
<1>1. CASE fPid # p
  <2>1. PICK phase \in Phases \ {"unborn"} : ChildMoves(p, phase)
    BY ChildCases
  <2>2. p \notin readers
    BY <1>1 DEF AttachInv, OneAttached
  <2>3. fPid \in Child => child'[fPid] = child[fPid] /\ log'[fPid] = log[fPid]
    BY <1>0, <1>1, <2>1 DEF ChildMoves
  <2>4. inbox' = inbox
    BY <2>1, <2>2 DEF ChildMoves
  <2> QED
    BY <1>0, <2>3, <2>4 DEF TunnelInv, Harvested, ScannerKeepsUp, UpIsInstalled
<1>2. CASE fPid = p
  <2>0. p \in scanners /\ (child[p] \in Managed => p \in readers)
    BY <1>2 DEF TunnelInv, ScannerKeepsUp
  <2>1. CASE ChildPushed(p)
    <3>1. PICK q \in Peers, g \in defaults :
            log' = [log EXCEPT ![p] = @ \o <<[gateway |-> g, peer |-> None],
                                             [gateway |-> None, peer |-> q]>>]
      BY <2>1 DEF ChildPushed
    <3>2. child[p] = "connecting" /\ child'[p] = "pushed"
      BY <1>0, <2>1 DEF ChildPushed, Says
    <3> DEFINE a == [gateway |-> g, peer |-> None]
               b == [gateway |-> None, peer |-> q]
    <3>3. log[p] \in Seq(Lines) /\ log'[p] = log[p] \o <<a, b>>
      BY <1>0, <3>1
    <3>4. /\ Len(log[p]) \in Nat /\ Len(log'[p]) = Len(log[p]) + 2
          /\ log'[p][Len(log[p]) + 1] = a /\ log'[p][Len(log[p]) + 2] = b
      BY <3>3
    <3>5. a.gateway # None /\ b.peer # None
      BY Constants DEF TInv, RouteTyped
    <3> HIDE DEF a, b
    <3>6. Harvested'
      <4>1. Len(log[p]) + 1 \in 1..Len(log'[p]) /\ Len(log[p]) + 2 \in 1..Len(log'[p])
        BY <3>4
      <4> QED
        BY <1>0, <1>2, <3>4, <3>5, <4>1 DEF Harvested
    <3> QED
      BY <1>0, <1>2, <2>0, <3>2, <3>6 DEF TunnelInv, ScannerKeepsUp, UpIsInstalled, Managed
  <2>2. CASE ChildConnected(p)
    <3>1. child[p] = "pushed" /\ child'[p] = "up" /\ log' = log /\ log[p] = <<>>
      BY <1>0, <2>2 DEF ChildConnected, Says
    <3>2. inbox' = Append(inbox, "CONNECTED")
      BY <2>0, <2>2, <3>1 DEF ChildConnected, Says, Managed
    <3>3. Len(inbox') \in 1..Len(inbox') /\ inbox'[Len(inbox')] = "CONNECTED"
      BY <1>0, <3>2, AppendFacts DEF Events
    <3>4. Harvested'
      BY <1>0, <1>2, <3>1 DEF TunnelInv, Harvested
    <3> QED
      BY <1>0, <1>2, <2>0, <3>1, <3>3, <3>4 DEF TunnelInv, ScannerKeepsUp, UpIsInstalled, Managed
  <2>3. CASE ChildListens(p) \/ ChildRestarts(p) \/ ChildFails(p) \/ ChildLeaves(p) \/ ChildDies(p)
    <3>1. child'[p] \in {"held", "connecting", "failed", "leaving", "dead"}
          /\ (child'[p] = "connecting" => child[p] = "up")
      BY <1>0, <2>3 DEF ChildListens, ChildRestarts, ChildFails, ChildLeaves, ChildDies, Says
    <3> QED
      BY <1>0, <1>2, <2>0, <3>1 DEF TunnelInv, Harvested, ScannerKeepsUp, UpIsInstalled, Managed
  <2> QED
    BY <2>1, <2>2, <2>3 DEF ChildStep
<1> QED
  BY <1>1, <1>2

\* The scanner reads ahead of CONNECTED; the reader ends after the child.
LEMMA ThreadsTunnel ==
    ASSUME TInv, AttachInv, TunnelInv, NEW p \in Child, ReaderEnds(p) \/ ScanLogLine(p)
    PROVE  TunnelInv'
<1>0. log \in [Child -> Seq(Lines)] /\ inbox \in Seq(Events)
  BY DEF TInv, ChildTyped, QueueTyped
<1>1. CASE ReaderEnds(p)
  <2>1. /\ p = fPid /\ child[p] \in {"dead", "reaped"}
        /\ UNCHANGED <<fPid, child, scanners>>
    BY <1>1 DEF ReaderEnds, AttachInv, OneAttached, sessionVars
  <2> QED
    BY <2>1 DEF TunnelInv, Harvested, ScannerKeepsUp, UpIsInstalled, Managed
<1>2. CASE ScanLogLine(p)
  <2>1. /\ p \in scanners /\ log[p] # <<>> /\ log' = [log EXCEPT ![p] = Tail(@)]
        /\ fOrigGateway' = IF fOrigGateway = None THEN Head(log[p]).gateway ELSE fOrigGateway
        /\ fTunPeer' = IF Head(log[p]).peer # None THEN Head(log[p]).peer ELSE fTunPeer
        /\ UNCHANGED <<fPid, child, readers, scanners>>
    BY <1>2 DEF ScanLogLine, KeepFirstGateway, sessionVars
  <2>2. p = fPid /\ child[p] # "up"
    BY <2>1 DEF AttachInv, OneAttached, TunnelInv, ScannerKeepsUp
  <2>3. log[p] \in Seq(Lines) /\ log'[p] = Tail(log[p])
    BY <1>0, <2>1
  <2>4. /\ Head(log[p]) = log[p][1] /\ Len(log[p]) \in Nat /\ Len(log'[p]) = Len(log[p]) - 1
        /\ \A i \in 1..Len(log'[p]) : log'[p][i] = log[p][i + 1]
    BY <2>1, <2>3, TailFacts
  <2>5. \A i \in 1..Len(log[p]) : i = 1 \/ (i - 1 \in 1..Len(log'[p]) /\ log'[p][i - 1] = log[p][i])
    <3> SUFFICES ASSUME NEW i \in 1..Len(log[p]), i # 1
                 PROVE  i - 1 \in 1..Len(log'[p]) /\ log'[p][i - 1] = log[p][i]
      OBVIOUS
    <3>1. i - 1 \in 1..Len(log'[p]) /\ (i - 1) + 1 = i
      BY <2>4
    <3> QED
      BY <2>4, <3>1
  <2>6. Harvested'
    <3> SUFFICES ASSUME child[p] = "pushed"
                 PROVE  /\ fOrigGateway' # None \/ \E i \in 1..Len(log'[p]) : log'[p][i].gateway # None
                        /\ fTunPeer' # None \/ \E i \in 1..Len(log'[p]) : log'[p][i].peer # None
      BY <2>1, <2>2 DEF Harvested
    <3>1. fOrigGateway # None \/ \E i \in 1..Len(log[p]) : log[p][i].gateway # None
      BY <2>2 DEF TunnelInv, Harvested
    <3>2. fTunPeer # None \/ \E i \in 1..Len(log[p]) : log[p][i].peer # None
      BY <2>2 DEF TunnelInv, Harvested
    <3>3. fOrigGateway' # None \/ \E i \in 1..Len(log'[p]) : log'[p][i].gateway # None
      <4>1. CASE fOrigGateway # None
        BY <2>1, <4>1
      <4>2. CASE fOrigGateway = None
        <5>1. PICK i \in 1..Len(log[p]) : log[p][i].gateway # None
          BY <3>1, <4>2
        <5>2. CASE i = 1
          BY <2>1, <2>4, <4>2, <5>1, <5>2
        <5>3. CASE i # 1
          BY <2>5, <5>1, <5>3
        <5> QED BY <5>2, <5>3
      <4> QED BY <4>1, <4>2
    <3>4. fTunPeer' # None \/ \E i \in 1..Len(log'[p]) : log'[p][i].peer # None
      <4>1. CASE fTunPeer # None
        BY <2>1, <4>1
      <4>2. CASE fTunPeer = None
        <5>1. PICK i \in 1..Len(log[p]) : log[p][i].peer # None
          BY <3>2, <4>2
        <5>2. CASE i = 1
          BY <2>1, <2>4, <4>2, <5>1, <5>2
        <5>3. CASE i # 1
          BY <2>5, <5>1, <5>3
        <5> QED BY <5>2, <5>3
      <4> QED BY <4>1, <4>2
    <3> QED
      BY <3>3, <3>4
  <2> QED
    BY <2>1, <2>2, <2>6 DEF TunnelInv, ScannerKeepsUp, UpIsInstalled
<1> QED
  BY <1>1, <1>2

\* Every step keeps the tunnel's route the one of the latest peer.
LEMMA TunnelStep ==
    ASSUME ~Reentry, ~LateLog
    PROVE  TInv /\ AttachInv /\ TunnelInv /\ [Next]_vars => TunnelInv'
<1> SUFFICES ASSUME TInv, AttachInv, TunnelInv, [Next]_vars PROVE TunnelInv'
  OBVIOUS
<1>0. child \in [Child -> Phases]
  BY DEF TInv, ChildTyped
<1>1. CASE UNCHANGED <<fPid, fOrigGateway, fTunPeer, child, log, readers, scanners, inbox,
                       fRoutesInstalled, fInstalledTunPeer>>
  BY <1>1 DEF TunnelInv, Harvested, ScannerKeepsUp, UpIsInstalled
<1>2. CASE ConnectFails \/ Disconnect \/ PollWaits \/ UNCHANGED vars
  BY <1>1, <1>2 DEF ConnectFails, Connectable, Disconnect, PollWaits, vars, sessionVars, scanVars,
                    routeVars, childVars
<1>3. CASE ConnectWithoutPoll \/ PollEnds \/ HandleReaderExited \/ MemoryLost
  BY <1>3, NoChildTunnel DEF ConnectWithoutPoll, PollEnds, PollCleanup, HandleReaderExited,
                             Cleanup, MemoryLost
<1>4. CASE ConnectStarts
  <2>1. PICK p \in Fresh : /\ fPid' = p /\ child' = [child EXCEPT ![p] = "starting"]
                           /\ scanners' = scanners \cup {p}
    BY <1>4 DEF ConnectStarts
  <2>2. child'[p] = "starting"
    BY <1>0, <2>1 DEF Fresh
  <2> QED
    BY <2>1, <2>2 DEF TunnelInv, Harvested, ScannerKeepsUp, UpIsInstalled, Managed
<1>5. CASE PollConnects
  <2>1. fPid' = fPid /\ (fPid \in Child => child'[fPid] = "connecting")
        /\ readers' = readers \cup {fPid} /\ scanners' = scanners
    BY <1>0, <1>5 DEF PollConnects
  <2> QED
    BY <2>1 DEF TunnelInv, Harvested, ScannerKeepsUp, UpIsInstalled
<1>6. CASE TryMgmtConnect
  BY <1>2, <1>3, <1>5, <1>6, PollCases
<1>7. CASE HandleEvent
  BY <1>3, <1>7, EventCases, EventsTunnel
<1>8. CASE RecoverIfCrashed
  <2>1. fPid' = NoChild
    BY <1>8 DEF RecoverIfCrashed, sessionVars, AttachInv, DeadHasNothing
  <2> QED
    BY <2>1, NoChildTunnel
<1> QED
  BY <1>2, <1>3, <1>4, <1>6, <1>7, <1>8, ChildTunnel, ThreadsTunnel
  DEF Next, Connect, CrashAtRest, CrashInstalling, CrashRefreshing, CrashRemoving

\* While openvpn is up and CONNECTED has been handled, the only default route
\* goes to the peer of the latest PUSH_REPLY, through any number of soft
\* restarts and peers, when the log scanner keeps up with the child.
THEOREM TunnelFollowsPush ==
    ASSUME ~Reentry, ~LateLog, SafeCrashes
    PROVE  Spec => []ConnectedMeansTunnelled
<1>1. Init => TunnelInv
  BY Constants DEF Init, TunnelInv, Harvested, ScannerKeepsUp, UpIsInstalled
<1>2. TInv /\ AttachInv /\ TunnelInv /\ [Next]_vars => TunnelInv'
  BY TunnelStep
<1>3. TunnelInv /\ TableInv => ConnectedMeansTunnelled
  BY DEF TunnelInv, UpIsInstalled, TableInv, InstalledFaithfully, ConnectedMeansTunnelled
<1> QED
  BY <1>1, <1>2, <1>3, RoutesInvariant, PTL DEF Spec
-----------------------------------------------------------------------------
(***************************************************************************)
(* The contract with the daemon.                                           *)
(***************************************************************************)
\* What the daemon sees, by what fPid and the flag of EXITING say.
View == [state |-> fState,
         worker |-> IF fPid = NoChild THEN "none" ELSE IF exiting THEN "exiting" ELSE "running",
         stop |-> fStopRequested]

\* With one child at a time a session is over when fPid is empty.
LEMMA SeenIsView ==
    ASSUME TInv, AttachInv, TInv', AttachInv' PROVE Seen = View /\ Seen' = View'
<1>1. Detached <=> fPid = NoChild
  BY DetachedIsEmpty DEF Detached, Emptied
<1>2. TInv' /\ AttachInv' /\ fPid' = NoChild => Emptied'
  <2>1. fPid' = NoChild => readers' = {} /\ scanners' = {}
    BY Constants DEF TInv, ChildTyped, AttachInv, OneAttached
  <2> QED
    BY <2>1 DEF AttachInv, OneAttached, Emptied, TInv, SessionTyped, RouteTyped, CrashTyped
<1>3. Detached' <=> fPid' = NoChild
  BY <1>2 DEF Detached, Emptied
<1> QED
  BY <1>1, <1>3 DEF Seen, View

\* A call of the daemon has the outcomes the contract names.
LEMMA CallsKeepContract ==
    ASSUME ~Reentry, TInv, AttachInv, TInv', AttachInv', Connect \/ Disconnect
    PROVE  [Contract!Next]_<<Seen, posted>>
<1>1. CASE Connect
  <2>0. Emptied /\ fState \in DownStates /\ fStopRequested' = FALSE /\ exiting' = FALSE
    BY <1>1, DetachedIsEmpty DEF Connect, ConnectFails, ConnectWithoutPoll, ConnectStarts,
                                 Connectable, Detached
  <2>1. Seen = [state |-> fState, worker |-> "none", stop |-> fStopRequested]
    BY <2>0, SeenIsView DEF View, Emptied
  <2>2. Contract!OpenVPNConnect(Seen) =
          {Contract!Started, Contract!FailedLate("none", FALSE),
           [Contract!FailedLate("none", FALSE) EXCEPT !.ok = TRUE]}
    BY <2>0, <2>1 DEF Contract!OpenVPNConnect, Contract!DownStates, DownStates
  <2>3. CASE ConnectFails \/ ConnectWithoutPoll
    <3>1. fPid' = NoChild /\ fState' = "ERROR" /\ posted' = <<"CONNECTING", "ERROR">>
      BY <2>0, <2>3 DEF ConnectFails, ConnectWithoutPoll, Cleanup, Emptied
    <3>2. Seen' = [state |-> "ERROR", worker |-> "none", stop |-> FALSE]
      BY <2>0, <3>1, SeenIsView DEF View
    <3>3. Contract!Takes(Contract!FailedLate("none", FALSE))
      BY <3>1, <3>2 DEF Contract!Takes, Contract!FailedLate
    <3>4. Contract!Connect
      BY <2>2, <3>3 DEF Contract!Connect, Contract!ConnectOutcomes
    <3> QED
      BY <3>4 DEF Contract!Next
  <2>4. CASE ConnectStarts
    <3>1. fPid' \in Child /\ fState' = "CONNECTING" /\ posted' = <<"CONNECTING">>
      BY <2>4 DEF ConnectStarts, SetState, Fresh
    <3>2. Seen' = [state |-> "CONNECTING", worker |-> "running", stop |-> FALSE]
      BY <2>0, <3>1, Constants, SeenIsView DEF View
    <3>3. Contract!Takes(Contract!Started)
      BY <3>1, <3>2 DEF Contract!Takes, Contract!Started
    <3>4. Contract!Connect
      BY <2>2, <3>3 DEF Contract!Connect, Contract!ConnectOutcomes
    <3> QED
      BY <3>4 DEF Contract!Next
  <2> QED
    BY <1>1, <2>3, <2>4 DEF Connect
<1>2. CASE Disconnect
  <2>1. UNCHANGED <<fPid, exiting, fState>> /\ posted' = <<>>
    BY <1>2 DEF Disconnect, NoReport
  <2>2. CASE fState = "DISCONNECTED"
    <3>1. Seen' = Seen /\ Seen.state = "DISCONNECTED"
      BY <1>2, <2>1, <2>2, SeenIsView DEF Disconnect, View
    <3>2. Contract!Takes([Contract!Refused(Seen) EXCEPT !.ok = TRUE])
      BY <2>1, <3>1 DEF Contract!Takes, Contract!Refused
    <3> QED
      BY <3>1, <3>2 DEF Contract!Disconnect, Contract!DisconnectOutcome, Contract!Next
  <2>3. CASE fState # "DISCONNECTED"
    <3>0. fStopRequested' = TRUE
      BY <1>2, <2>3 DEF Disconnect
    <3>1. PICK w : /\ Seen = [state |-> fState, worker |-> w, stop |-> fStopRequested]
                   /\ Seen' = [state |-> fState, worker |-> w, stop |-> TRUE]
      BY <2>1, <3>0, SeenIsView DEF View
    <3>2. Contract!Takes(Contract!StopAsked(Seen))
      BY <2>1, <3>1 DEF Contract!Takes, Contract!StopAsked
    <3> QED
      BY <2>3, <3>1, <3>2 DEF Contract!Disconnect, Contract!DisconnectOutcome, Contract!Next
  <2> QED
    BY <2>2, <2>3
<1> QED
  BY <1>1, <1>2

\* A tick of the poll is not seen unless it ends the session, and then it is a
\* stop or a failure of a session that is still CONNECTING.
LEMMA PollKeepsContract ==
    ASSUME TInv, AttachInv, TInv', AttachInv', TryMgmtConnect
    PROVE  [Contract!Next]_<<Seen, posted>>
<1>0. fMgmtPoll /\ fPid \in Child /\ ~exiting /\ fState = "CONNECTING"
  BY PollCases DEF TInv, SessionTyped, PollCounts, AttachInv, OneAttached
<1>1. Seen = [state |-> "CONNECTING", worker |-> "running", stop |-> fStopRequested]
  BY <1>0, Constants, SeenIsView DEF View
<1>2. CASE PollEnds
  <2>1. PICK s \in DownStates : PollCleanup(s)
    BY <1>2 DEF PollEnds
  <2>2. Seen' = [state |-> s, worker |-> "none", stop |-> fStopRequested] /\ posted' = <<s>>
    BY <2>1, SeenIsView DEF PollCleanup, Cleanup, SetState, View
  <2>3. Contract!SetState(Seen, s, "none") \in Contract!OpenVPNWorkerSteps(Seen)
    BY <1>1, <2>1 DEF Contract!OpenVPNWorkerSteps, DownStates
  <2>4. Contract!Takes(Contract!SetState(Seen, s, "none"))
    BY <1>1, <2>2 DEF Contract!Takes, Contract!SetState
  <2> QED
    BY <2>3, <2>4 DEF Contract!Work, Contract!WorkerSteps, Contract!Next
<1>3. CASE PollConnects \/ PollWaits
  BY <1>3, SeenIsView DEF PollConnects, PollWaits, reportVars, View
<1> QED
  BY <1>2, <1>3, PollCases

\* Events are handled for an attached child, and after EXITING only the end of
\* the reader is.
LEMMA EventsAreAttached ==
    ASSUME TInv, AttachInv, HandleEvent
    PROVE  fPid # NoChild /\ (Head(inbox) # "READER_EXITED" => ~exiting)
<1>0. inbox \in Seq(Events) /\ inbox # <<>>
  BY DEF TInv, QueueTyped, HandleEvent, HandleProgress, HandleFailure, HandlePassword,
         HandleConnected, HandleExiting, HandleReaderExited, Handles
<1>1. Head(inbox) = inbox[1] /\ 1 \in 1..Len(inbox)
  BY <1>0, TailFacts
<1> QED
  BY <1>0, <1>1 DEF AttachInv, OneAttached, QueueOrdered

\* Handling what the reader queued is what the contract lets a worker report.
LEMMA EventsKeepContract ==
    ASSUME TInv, AttachInv, TInv', AttachInv', HandleEvent
    PROVE  [Contract!Next]_<<Seen, posted>>
<1>0. fPid # NoChild
  BY EventsAreAttached
<1>1. CASE HandleReaderExited
  <2>1. fPid' = NoChild /\ fStopRequested' = fStopRequested
        /\ IF fState = "ERROR" THEN NoReport ELSE SetState("DISCONNECTED")
    BY <1>1 DEF HandleReaderExited, Handles, Cleanup
  <2>2. Seen.worker # "none" /\ Seen.state = fState
    BY <1>0, SeenIsView DEF View
  <2>a. PICK w : Seen = [state |-> fState, worker |-> w, stop |-> fStopRequested]
    BY SeenIsView DEF View
  <2>3. CASE fState = "ERROR"
    <3>1. Seen' = [Seen EXCEPT !.worker = "none"] /\ posted' = <<>>
      BY <2>1, <2>3, SeenIsView DEF NoReport, View
    <3> DEFINE o == [Contract!Refused([Seen EXCEPT !.worker = "none"]) EXCEPT !.ok = TRUE]
    <3>2. o \in Contract!OpenVPNWorkerSteps(Seen)
      BY <2>2, <2>3 DEF Contract!OpenVPNWorkerSteps
    <3>3. Contract!Takes(o)
      BY <3>1 DEF Contract!Takes, Contract!Refused
    <3> QED
      BY <3>2, <3>3 DEF Contract!Work, Contract!WorkerSteps, Contract!Next
  <2>4. CASE fState # "ERROR"
    <3>1. Seen' = [state |-> "DISCONNECTED", worker |-> "none", stop |-> fStopRequested]
          /\ posted' = <<"DISCONNECTED">>
      BY <2>1, <2>4, SeenIsView DEF SetState, View
    <3>2. Contract!SetState(Seen, "DISCONNECTED", "none") \in Contract!OpenVPNWorkerSteps(Seen)
      BY <2>2, <2>4 DEF Contract!OpenVPNWorkerSteps
    <3>3. Contract!Takes(Contract!SetState(Seen, "DISCONNECTED", "none"))
      BY <2>a, <3>1 DEF Contract!Takes, Contract!SetState
    <3> QED
      BY <3>2, <3>3 DEF Contract!Work, Contract!WorkerSteps, Contract!Next
  <2> QED
    BY <2>3, <2>4
<1>2. CASE ~HandleReaderExited
  <2>1. ~exiting /\ UNCHANGED <<fPid, fStopRequested>>
    BY <1>2, EventsAreAttached, EventCases DEF QuietEvent, QuietHandling
  <2>2. Seen = [state |-> fState, worker |-> "running", stop |-> fStopRequested]
    BY <1>0, <2>1, SeenIsView DEF View
  <2>3. ASSUME NEW s \in (VPNStates \ DownStates) \cup {"ERROR"}, SetState(s), exiting' = exiting
        PROVE  [Contract!Next]_<<Seen, posted>>
    <3>1. Seen' = [state |-> s, worker |-> "running", stop |-> fStopRequested] /\ posted' = <<s>>
      BY <1>0, <2>1, <2>3, SeenIsView DEF SetState, View
    <3>2. Contract!SetState(Seen, s, "running") \in Contract!OpenVPNWorkerSteps(Seen)
      BY <2>2, <2>3 DEF Contract!OpenVPNWorkerSteps, Contract!VPNState, Contract!DownStates,
                        VPNStates, DownStates
    <3>3. Contract!Takes(Contract!SetState(Seen, s, "running"))
      BY <2>2, <3>1 DEF Contract!Takes, Contract!SetState
    <3> QED
      BY <3>2, <3>3 DEF Contract!Work, Contract!WorkerSteps, Contract!Next
  <2>4. CASE HandleProgress \/ HandleFailure \/ HandleConnected
    BY <2>3, <2>4 DEF HandleProgress, HandleFailure, HandleConnected, VPNStates, DownStates
  <2>5. CASE HandlePassword
    <3>1. CASE fAuth
      BY <2>1, <2>5, <3>1, SeenIsView DEF HandlePassword, View
    <3>2. CASE ~fAuth
      BY <2>3, <2>5, <3>2 DEF HandlePassword, VPNStates, DownStates
    <3> QED
      BY <3>1, <3>2
  <2>6. CASE HandleExiting
    <3>1. exiting' = TRUE /\ IF fState = "ERROR" THEN NoReport ELSE SetState("DISCONNECTED")
      BY <2>6 DEF HandleExiting
    <3>2. CASE fState = "ERROR"
      <4>1. Seen' = [Seen EXCEPT !.worker = "exiting"] /\ posted' = <<>>
        BY <1>0, <2>1, <2>2, <3>1, <3>2, SeenIsView DEF NoReport, View
      <4> DEFINE o == [Contract!Refused([Seen EXCEPT !.worker = "exiting"]) EXCEPT !.ok = TRUE]
      <4>2. o \in Contract!OpenVPNWorkerSteps(Seen)
        BY <2>2, <3>2 DEF Contract!OpenVPNWorkerSteps
      <4>3. Contract!Takes(o)
        BY <4>1 DEF Contract!Takes, Contract!Refused
      <4> QED
        BY <4>2, <4>3 DEF Contract!Work, Contract!WorkerSteps, Contract!Next
    <3>3. CASE fState # "ERROR"
      <4>1. Seen' = [state |-> "DISCONNECTED", worker |-> "exiting", stop |-> fStopRequested]
            /\ posted' = <<"DISCONNECTED">>
        BY <1>0, <2>1, <2>2, <3>1, <3>3, SeenIsView DEF SetState, View
      <4>2. Contract!SetState(Seen, "DISCONNECTED", "exiting") \in Contract!OpenVPNWorkerSteps(Seen)
        BY <2>2, <3>3 DEF Contract!OpenVPNWorkerSteps
      <4>3. Contract!Takes(Contract!SetState(Seen, "DISCONNECTED", "exiting"))
        BY <2>2, <4>1 DEF Contract!Takes, Contract!SetState
      <4> QED
        BY <4>2, <4>3 DEF Contract!Work, Contract!WorkerSteps, Contract!Next
    <3> QED
      BY <3>2, <3>3
  <2> QED
    BY <1>2, <2>4, <2>5, <2>6 DEF HandleEvent
<1> QED
  BY <1>1, <1>2

\* With one child at a time the backend is an implementation of the contract:
\* every step is one of its calls, reports or restarts, or is not seen by the
\* daemon at all.
THEOREM KeepsContract == ASSUME ~Reentry PROVE Spec => ImplementsContract
<1>1. Init => Contract!Init
  <2> SUFFICES ASSUME Init PROVE Contract!Init
    OBVIOUS
  <2>1. Detached
    BY DEF Init, Detached
  <2>2. Seen = [state |-> "DISCONNECTED", worker |-> "none", stop |-> FALSE]
    BY <2>1 DEF Init, Seen
  <2> QED
    BY <2>2 DEF Init, Contract!Init, Contract!IdleBackend
<1>2. TInv /\ AttachInv /\ TInv' /\ AttachInv' /\ [Next]_vars => [Contract!Next]_<<Seen, posted>>
  <2> SUFFICES ASSUME TInv, AttachInv, TInv', AttachInv', [Next]_vars
               PROVE  [Contract!Next]_<<Seen, posted>>
    OBVIOUS
  <2>1. CASE MemoryLost
    <3>1. Seen' = [state |-> "DISCONNECTED", worker |-> "none", stop |-> FALSE] /\ posted' = <<>>
      BY <2>1, SeenIsView DEF MemoryLost, View
    <3> QED
      BY <3>1 DEF Contract!Restart, Contract!IdleBackend, Contract!Next
  <2>2. CASE UNCHANGED <<sessionVars, reportVars>>
    BY <2>2, SeenIsView DEF sessionVars, reportVars, View
  <2>3. CASE RecoverIfCrashed \/ UNCHANGED vars
             \/ \E p \in Child : ChildStep(p) \/ ReaderEnds(p) \/ ScanLogLine(p)
    BY <2>2, <2>3 DEF RecoverIfCrashed, ChildStep, ReaderEnds, ScanLogLine, vars
  <2>4. CASE CrashAtRest \/ CrashInstalling \/ CrashRefreshing \/ CrashRemoving
    BY <2>1, <2>4 DEF CrashAtRest, CrashInstalling, CrashRefreshing, CrashRemoving
  <2> QED
    BY <2>3, <2>4, CallsKeepContract, PollKeepsContract, EventsKeepContract DEF Next
<1> QED
  BY <1>1, <1>2, Attached, PTL DEF Spec, ImplementsContract, Contract!Spec
=============================================================================
