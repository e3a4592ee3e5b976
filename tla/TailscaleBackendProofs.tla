----------------------- MODULE TailscaleBackendProofs -----------------------
(***************************************************************************)
(* A Tailscale session, for any set of exit nodes and any length of the    *)
(* looper's queue: what CONNECTED means, what is left in the routing table *)
(* and that the backend implements the contract the daemon relies on.      *)
(***************************************************************************)
EXTENDS TailscaleBackend, TLAPS

Messages == {"AuthURL", "Authorized", "NetmapUp", "NetmapWait"} \cup LastMessages

WorkerPlaces == {"none", "register", "poll", "openFirst", "open", "wait", "read", "relay",
                 "sync"}

States == {"DISCONNECTED", "CONNECTING", "AUTHENTICATING", "CONNECTED", "ERROR"}

\* The looper's side of a session: its fields and its queue.
LooperTyped ==
    /\ fState \in States
    /\ fStopRequested \in BOOLEAN /\ fWorker \in BOOLEAN
    /\ worker \in WorkerPlaces
    /\ inbox \in Seq(Messages)
    /\ looper \in [is : {"Idle", "Quit"} \cup LastMessages, asked : BOOLEAN]

\* The data plane, the routes it remembers and the kernel's table.
PlaneTyped ==
    /\ fTunInterface \in BOOLEAN /\ fTunFd \in BOOLEAN /\ fTunReader \in BOOLEAN
    /\ fDerpHost \in BOOLEAN
    /\ netmap \in [exits : SUBSET Exits, subnets : SUBSET Subnets]
    /\ fInstalledRoutes \subseteq Subnets
    /\ fDesiredExitNode \in Exits \cup {None} /\ fActiveExitNode \in Exits \cup {None}
    /\ fExitCarveouts \subseteq Addresses /\ fExitOrigGateway \in Gateways
    /\ table \in [default : Gateways, pins : SUBSET Addresses, subnets : SUBSET Subnets]

TypeOK == LooperTyped /\ PlaneTyped

\* The places of the worker before a first map was accepted.
BeforeMap == {"register", "poll", "openFirst"}

\* Nothing is queued and nothing works for a worker that was given up.
NothingUnattached == ~fWorker => worker = "none" /\ inbox = <<>>

\* A last message ends the attachment, and only one that was asked for is clean.
EndIsEnd ==
    looper.is \in LastMessages =>
        ~fWorker /\ fStopRequested /\ (looper.is = "Stopped" => looper.asked)

\* What is queued is still true when it is handled: the last message is the
\* last one, an up map was reported over an open tun, a clean end was asked for.
QueueOrdered ==
    \A i \in 1..Len(inbox) :
        /\ inbox[i] \in LastMessages => i = Len(inbox) /\ worker = "none"
        /\ inbox[i] = "NetmapUp" => fTunFd
        /\ inbox[i] = "Stopped" => fStopRequested

\* A session that fails has never been up.
FailsEarly ==
    (worker \in BeforeMap \/ looper.is = "Failed" \/ \E i \in 1..Len(inbox) : inbox[i] = "Failed")
        => /\ fState # "CONNECTED"
           /\ \A i \in 1..Len(inbox) : inbox[i] # "NetmapUp"

SessionInv ==
    NothingUnattached /\ EndIsEnd /\ QueueOrdered /\ FailsEarly /\ ConnectedMeansTun

\* The parts of the data plane stand on each other, and on a session.
PlaneStands ==
    /\ fTunReader => fTunFd
    /\ fTunFd => fTunInterface
    /\ fTunInterface => fWorker \/ looper.is \in LastMessages
    /\ ~fTunInterface => fActiveExitNode = None /\ fInstalledRoutes = {}
    /\ fActiveExitNode = None => fExitCarveouts = {}

\* What the fields say is installed is what the table holds beyond the carrier's
\* route, unless a daemon died and took its fields along.
TableRemembered ==
    ~crashed =>
        /\ table.default = IF fActiveExitNode = None THEN "carrier" ELSE "tun"
        /\ fActiveExitNode # None => fExitOrigGateway = "carrier"
        /\ table.pins = fExitCarveouts
        /\ table.subnets = fInstalledRoutes

\* The pins the fields name are in the table, and the control server's is one.
PinsInstalled ==
    fActiveExitNode # None => "control" \in fExitCarveouts /\ fExitCarveouts \subseteq table.pins

IInv == TypeOK /\ SessionInv /\ PlaneStands /\ TableRemembered

-----------------------------------------------------------------------------
(***************************************************************************)
(* The worker.                                                             *)
(***************************************************************************)
\* What a step of the worker may do to the session, whichever it is.
Progress(m) ==
    /\ inbox' = Append(inbox, m)
    /\ m \in LastMessages <=> worker' = "none"
    /\ m = "NetmapUp" => fTunFd /\ worker \notin BeforeMap
    /\ m = "Stopped" => fStopRequested
    /\ m = "Failed" => worker \in BeforeMap

WorkerMoves ==
    /\ worker # "none" /\ worker' \in WorkerPlaces
    /\ worker' \in BeforeMap => worker \in BeforeMap
    /\ UNCHANGED <<lifeVars, crashed>>
    /\ fTunFd => fTunFd'
    /\ \/ inbox' = inbox /\ worker' # "none"
       \/ \E m \in Messages : Progress(m)

\* Every step of the worker is one of these moves: it posts at most one message,
\* its last one when it ends, and reports a failure only before the first map.
LEMMA WorkerStep == TypeOK /\ Worker => WorkerMoves
<1> SUFFICES ASSUME TypeOK, Worker PROVE WorkerMoves
  OBVIOUS
<1> USE DEF BeforeMap, WorkerPlaces, Messages, LastMessages
<1>1. CASE RegisterNode
  <2>1. UNCHANGED <<lifeVars, crashed, fTunFd>> /\ worker = "register"
    BY <1>1 DEF RegisterNode
  <2>2. \/ Finish("Stopped") /\ fStopRequested
        \/ Finish("Failed")
        \/ EnterMap
        \/ Post("AuthURL") /\ worker' = "poll"
    BY <1>1 DEF RegisterNode, Answers
  <2> QED
    BY <2>1, <2>2 DEF WorkerMoves, Progress, Finish, EnterMap, Post
<1>2. CASE PollLogin
  <2>1. UNCHANGED <<lifeVars, crashed, fTunFd>> /\ worker = "poll"
    BY <1>2 DEF PollLogin
  <2>2. \/ Finish("Stopped") /\ fStopRequested
        \/ Finish("Failed")
        \/ EnterMap
        \/ UNCHANGED <<inbox, worker>>
    BY <1>2 DEF PollLogin, Answers
  <2> QED
    BY <2>1, <2>2 DEF WorkerMoves, Progress, Finish, EnterMap, Post
<1>3. CASE OpenMap
  <2>1. UNCHANGED <<lifeVars, crashed, fTunFd>> /\ worker \in {"openFirst", "open"}
    BY <1>3 DEF OpenMap
  <2>2. \/ Finish("Stopped") /\ fStopRequested
        \/ Finish("Failed") /\ worker = "openFirst"
        \/ worker' \in {"wait", "read"} /\ inbox' = inbox
    BY <1>3 DEF OpenMap, MapSessionOver
  <2> QED
    BY <2>1, <2>2 DEF WorkerMoves, Progress, Finish, Post
<1>4. CASE MapBackoff
  <2>1. UNCHANGED <<lifeVars, crashed, fTunFd>> /\ worker = "wait"
    BY <1>4 DEF MapBackoff
  <2>2. \/ Finish("Stopped") /\ fStopRequested
        \/ worker' = "open" /\ inbox' = inbox
    BY <1>4 DEF MapBackoff
  <2> QED
    BY <2>1, <2>2 DEF WorkerMoves, Progress, Finish, Post
<1>5. CASE MapStreamEnds
  <2>1. UNCHANGED <<lifeVars, crashed, fTunFd>> /\ worker = "read"
    BY <1>5 DEF MapStreamEnds
  <2>2. \/ Finish("Stopped") /\ fStopRequested
        \/ worker' = "wait" /\ inbox' = inbox
    BY <1>5 DEF MapStreamEnds, MapSessionOver
  <2> QED
    BY <2>1, <2>2 DEF WorkerMoves, Progress, Finish, Post
<1>6. CASE MapMessage
  BY <1>6 DEF MapMessage, WorkerMoves, StartDataPlane, planeVars
<1>7. CASE BringUpRelay
  BY <1>7 DEF BringUpRelay, WorkerMoves, planeVars
<1>8. CASE SyncAndReport
  <2>1. UNCHANGED <<lifeVars, crashed, fTunFd>> /\ worker = "sync"
    BY <1>8 DEF SyncAndReport, planeVars
  <2>2. worker' \in {"wait", "read"}
        /\ ((inbox' = Append(inbox, "NetmapUp") /\ fTunFd)
            \/ inbox' = Append(inbox, "NetmapWait"))
    BY <1>8 DEF SyncAndReport, Post
  <2> QED
    BY <2>1, <2>2 DEF WorkerMoves, Progress
<1> QED
  BY <1>1, <1>2, <1>3, <1>4, <1>5, <1>6, <1>7, <1>8 DEF Worker

-----------------------------------------------------------------------------
(***************************************************************************)
(* Type correctness.                                                       *)
(***************************************************************************)
\* A new daemon's looper starts from values of their types.
LEMMA NewDaemonLooper == NewDaemon => LooperTyped'
<1> SUFFICES ASSUME NewDaemon PROVE LooperTyped'
  OBVIOUS
<1>1. looper' \in [is : {"Idle", "Quit"} \cup LastMessages, asked : BOOLEAN]
  BY DEF NewDaemon, Idle
<1>2. inbox' \in Seq(Messages)
  BY DEF NewDaemon
<1> QED
  BY <1>1, <1>2 DEF NewDaemon, LooperTyped, States, WorkerPlaces

\* The looper's fields and its queue keep their types.
LEMMA LooperTypedStep == TypeOK /\ Next => LooperTyped'
<1> SUFFICES ASSUME TypeOK, Next PROVE LooperTyped'
  OBVIOUS
<1> USE DEF LooperTyped, lifeVars
<1>0. LooperTyped
  BY DEF TypeOK
<1>1. CASE ConnectRefused \/ Disconnect \/ SetExitNode
  BY <1>0, <1>1 DEF ConnectRefused, Disconnect, SetExitNode, SetState, States
<1>2. CASE ConnectStarts
  BY <1>0, <1>2 DEF ConnectStarts, SetState, States, WorkerPlaces
<1>3. CASE MessageReceived
  <2>1. Head(inbox) \in Messages \ LastMessages /\ Tail(inbox) \in Seq(Messages)
    BY <1>0, <1>3 DEF MessageReceived
  <2>2. Reports(Head(inbox)) \in States
    BY <2>1 DEF Reports, States, Messages, LastMessages
  <2> QED
    BY <1>0, <1>3, <2>1, <2>2 DEF MessageReceived, SetState
<1>4. CASE TsFailed
  <2>1. Head(inbox) \in LastMessages /\ Tail(inbox) \in Seq(Messages)
    BY <1>0, <1>4 DEF TsFailed
  <2>2. looper' \in [is : {"Idle", "Quit"} \cup LastMessages, asked : BOOLEAN]
    BY <1>0, <1>4, <2>1 DEF TsFailed
  <2> QED
    BY <1>0, <1>4, <2>1, <2>2 DEF TsFailed
<1>5. CASE SessionEnds
  <2>1. Reports(looper.is) \in States
    BY <1>0, <1>5 DEF SessionEnds, Reports, States, LastMessages
  <2>2. looper' \in [is : {"Idle", "Quit"} \cup LastMessages, asked : BOOLEAN]
    BY <1>5 DEF SessionEnds, Idle
  <2> QED
    BY <1>0, <1>5, <2>1, <2>2 DEF SessionEnds, SetState
<1>6. CASE QuitEnds \/ Crash
  BY <1>6, NewDaemonLooper DEF QuitEnds, Crash
<1>7. CASE Worker
  <2>1. WorkerMoves
    BY <1>7, WorkerStep
  <2>2. inbox' \in Seq(Messages)
    BY <1>0, <2>1 DEF WorkerMoves, Progress
  <2> QED
    BY <1>0, <2>1, <2>2 DEF WorkerMoves
<1>8. CASE Relay \/ SyncExitNode \/ TunReaderExits
  BY <1>0, <1>8 DEF Relay, DerpDropped, DerpReconnect, SyncExitNode, TunReaderExits
<1>9. CASE QuitBegins
  <2>1. looper' \in [is : {"Idle", "Quit"} \cup LastMessages, asked : BOOLEAN]
    BY <1>0, <1>9 DEF QuitBegins
  <2> QED
    BY <1>0, <1>9, <2>1 DEF QuitBegins
<1> QED
  BY <1>1, <1>2, <1>3, <1>4, <1>5, <1>6, <1>7, <1>8, <1>9 DEF Next, Calls, LooperWorks

Table == [default : Gateways, pins : SUBSET Addresses, subnets : SUBSET Subnets]

\* The underlay addresses are addresses, whatever the lookups answered.
LEMMA UnderlaysTyped ==
    ASSUME TypeOK, NEW x \in Exits, NEW u \in Underlays(x)
    PROVE  u \subseteq Addresses
  BY DEF TypeOK, PlaneTyped, Underlays, Resolved, Addresses

\* Giving the exit node or the subnet routes back leaves a table.
LEMMA RestoredTyped ==
    TypeOK => ExitRestored \in Table /\ TeardownRoutes(ExitRestored) \in Table
<1> SUFFICES ASSUME TypeOK PROVE ExitRestored \in Table /\ TeardownRoutes(ExitRestored) \in Table
  OBVIOUS
<1>1. table \in Table /\ fExitOrigGateway \in Gateways
  BY DEF TypeOK, PlaneTyped, Table
<1>2. ExitRestored \in Table
  BY <1>1 DEF ExitRestored, Table
<1> QED
  BY <1>2 DEF TeardownRoutes, Table

\* Data plane, remembered routes and the kernel's table keep their types.
LEMMA PlaneTypedStep == TypeOK /\ Next => PlaneTyped'
<1> SUFFICES ASSUME TypeOK, Next PROVE PlaneTyped'
  OBVIOUS
<1> USE DEF PlaneTyped
<1>0. PlaneTyped /\ table \in Table
  BY DEF TypeOK, Table
<1>a. ASSUME UNCHANGED <<planeVars, routeVars, fDerpHost, netmap>> PROVE PlaneTyped'
  BY <1>0, <1>a DEF planeVars, routeVars, exitVars
<1>1. CASE ConnectRefused \/ Disconnect \/ QuitBegins \/ MessageReceived \/ TsFailed \/ Relay
  BY <1>a, <1>1 DEF ConnectRefused, Disconnect, QuitBegins, MessageReceived, TsFailed, Relay,
                    DerpDropped, DerpReconnect, derpVars
<1>2. CASE ConnectStarts
  BY <1>0, <1>2 DEF ConnectStarts, planeVars, derpVars
<1>3. CASE SetExitNode
  BY <1>0, <1>3 DEF SetExitNode, planeVars, derpVars
<1>4. CASE SyncExitNode
  <2>0. UNCHANGED <<planeVars, derpVars, netmap, fInstalledRoutes, fDesiredExitNode>>
    BY <1>4 DEF SyncExitNode
  <2>1. CASE /\ fDesiredExitNode # None /\ CanEnable(fDesiredExitNode, ExitRestored)
             /\ EnableExitNode(fDesiredExitNode, ExitRestored)
    <3>1. fDesiredExitNode \in Exits
      BY <1>0, <2>1
    <3>2. PICK carve \in Underlays(fDesiredExitNode) :
            /\ table' = [ExitRestored EXCEPT !.default = "tun", !.pins = @ \cup carve]
            /\ fExitOrigGateway' = ExitRestored.default
            /\ fExitCarveouts' = carve
            /\ fActiveExitNode' = fDesiredExitNode
      BY <2>1 DEF EnableExitNode
    <3>3. carve \subseteq Addresses /\ ExitRestored \in Table
      BY <3>1, UnderlaysTyped, RestoredTyped
    <3>4. table' \in Table /\ fExitOrigGateway' \in Gateways
      BY <3>2, <3>3 DEF Table, Gateways
    <3> QED
      BY <1>0, <2>0, <3>1, <3>2, <3>3, <3>4 DEF planeVars, derpVars, Table
  <2>2. CASE table' = ExitRestored /\ NoExitNode
    BY <1>0, <2>0, <2>2, RestoredTyped DEF NoExitNode, planeVars, derpVars, Table, Gateways
  <2>3. CASE fActiveExitNode # None /\ ReconcileExitCarveouts
    <3>1. fActiveExitNode \in Exits
      BY <1>0, <2>3
    <3>2. PICK desired \in Underlays(fActiveExitNode) :
            /\ table' = [table EXCEPT !.pins = Apply(DiffRoutes(desired, fExitCarveouts), @)]
            /\ fExitCarveouts' = desired
            /\ UNCHANGED <<fActiveExitNode, fExitOrigGateway>>
      BY <2>3 DEF ReconcileExitCarveouts
    <3>3. desired \subseteq Addresses
      BY <3>1, UnderlaysTyped
    <3>4. Apply(DiffRoutes(desired, fExitCarveouts), table.pins) \subseteq Addresses
      BY <1>0, <3>3 DEF Apply, DiffRoutes, Table
    <3>5. table' \in Table
      BY <1>0, <3>2, <3>4 DEF Table
    <3> QED
      BY <1>0, <2>0, <3>2, <3>3, <3>5 DEF planeVars, derpVars, Table
  <2> QED
    BY <1>4, <2>1, <2>2, <2>3 DEF SyncExitNode
<1>5. CASE TunReaderExits
  BY <1>0, <1>5 DEF TunReaderExits, derpVars, routeVars, exitVars
<1>6. CASE SessionEnds
  <2>1. UNCHANGED <<netmap, fTunReader, fDesiredExitNode>> /\ fDerpHost' = FALSE /\ fTunFd' = FALSE
    BY <1>6 DEF SessionEnds, StopDataPlane
  <2>2. CASE ~fTunInterface
    BY <1>0, <1>6, <2>1, <2>2 DEF SessionEnds, TeardownTun
  <2>3. CASE fTunInterface
    BY <1>0, <1>6, <2>1, <2>3, RestoredTyped DEF SessionEnds, TeardownTun, NoExitNode, Table, Gateways
  <2> QED
    BY <1>0, <2>2, <2>3
<1>7. CASE QuitEnds \/ Crash
  <2>1. table' \in Table
    BY <1>0, <1>7, RestoredTyped DEF QuitEnds, Crash
  <2>2. NewDaemon
    BY <1>7 DEF QuitEnds, Crash
  <2>3. netmap' \in [exits : SUBSET Exits, subnets : SUBSET Subnets]
    BY <2>2 DEF NewDaemon
  <2> QED
    BY <2>1, <2>2, <2>3 DEF NewDaemon, Gateways, Table
<1>8. CASE MapMessage
  <2>1. UNCHANGED <<derpVars, fInstalledRoutes, exitVars>>
        /\ netmap' \in [exits : SUBSET Exits, subnets : SUBSET Subnets]
    BY <1>8 DEF MapMessage
  <2>2. CASE fTunFd
    BY <1>0, <1>8, <2>1, <2>2 DEF MapMessage, planeVars, derpVars, exitVars
  <2>3. CASE ~fTunFd
    <3>1. fTunInterface' \in BOOLEAN /\ table' \in Table
      BY <1>0, <1>8, <2>3 DEF MapMessage, BringUpTun, Table, Gateways
    <3>2. fTunFd' \in BOOLEAN /\ fTunReader' \in BOOLEAN
      BY <1>0, <1>8, <2>3 DEF MapMessage, StartDataPlane
    <3> QED
      BY <1>0, <2>1, <3>1, <3>2 DEF derpVars, exitVars, Table
  <2> QED
    BY <1>0, <2>2, <2>3
<1>9. CASE BringUpRelay
  <2>1. fDerpHost' \in BOOLEAN
    BY <1>0, <1>9 DEF BringUpRelay, DerpConnect, TlsConnect, derpVars
  <2> QED
    BY <1>0, <1>9, <2>1 DEF BringUpRelay, planeVars, routeVars, exitVars
<1>10. CASE SyncAndReport
  <2>1. UNCHANGED <<netmap, planeVars, derpVars, exitVars>> /\ SyncRoutes
    BY <1>10 DEF SyncAndReport
  <2>2. Apply(DiffRoutes(netmap.subnets, fInstalledRoutes), table.subnets) \subseteq Subnets
    BY <1>0 DEF Apply, DiffRoutes, Table
  <2>3. fInstalledRoutes' \subseteq Subnets /\ table' \in Table
    BY <1>0, <2>1, <2>2 DEF SyncRoutes, Table
  <2> QED
    BY <1>0, <2>1, <2>3 DEF planeVars, derpVars, exitVars, Table
<1>11. CASE RegisterNode \/ PollLogin \/ OpenMap \/ MapBackoff \/ MapStreamEnds
  BY <1>0, <1>11 DEF RegisterNode, PollLogin, OpenMap, MapBackoff, MapStreamEnds, derpVars,
                     routeVars, exitVars
<1> QED
  BY <1>1, <1>2, <1>3, <1>4, <1>5, <1>6, <1>7, <1>8, <1>9, <1>10, <1>11
  DEF Next, Calls, LooperWorks, Worker

\* The initial state has values of their types.
LEMMA InitTyped == Init => TypeOK
<1> SUFFICES ASSUME Init PROVE TypeOK
  OBVIOUS
<1>0. looper \in [is : {"Idle", "Quit"} \cup LastMessages, asked : BOOLEAN]
  BY DEF Init, ProcessInit, Idle
<1>1. LooperTyped
  <2>1. inbox \in Seq(Messages)
    BY DEF Init, ProcessInit
  <2> QED
    BY <1>0, <2>1 DEF Init, ProcessInit, LooperTyped, States, WorkerPlaces
<1>2. PlaneTyped
  BY DEF Init, ProcessInit, PlaneTyped, CarrierTable, Gateways
<1> QED
  BY <1>1, <1>2 DEF TypeOK

\* A stuttering step changes no variable.
LEMMA TypeStep == TypeOK /\ [Next]_vars => TypeOK'
<1> SUFFICES ASSUME TypeOK, [Next]_vars PROVE TypeOK'
  OBVIOUS
<1>1. CASE Next
  BY <1>1, LooperTypedStep, PlaneTypedStep DEF TypeOK
<1>2. CASE UNCHANGED vars
  BY <1>2 DEF vars, lifeVars, planeVars, derpVars, routeVars, exitVars, TypeOK, LooperTyped,
              PlaneTyped
<1> QED
  BY <1>1, <1>2

\* The backend's fields, its queue and the routing table hold values of their
\* types in every reachable state.
THEOREM TypeCorrect == Spec => []TypeOK
  BY InitTyped, TypeStep, PTL DEF Spec
-----------------------------------------------------------------------------
(***************************************************************************)
(* The session: what is queued, what is attached and what is shown.        *)
(***************************************************************************)
\* A new daemon has no session.
LEMMA NewDaemonSession == NewDaemon => SessionInv'
  BY DEF NewDaemon, SessionInv, NothingUnattached, EndIsEnd, QueueOrdered, FailsEarly,
         ConnectedMeansTun, Idle, LastMessages, BeforeMap

\* Taking the first message off the queue leaves the rest in order.
LEMMA TailFacts ==
    ASSUME NEW S, NEW q \in Seq(S), q # <<>>
    PROVE  /\ Head(q) = q[1] /\ 1 \in 1..Len(q)
           /\ Len(q) \in Nat /\ Len(Tail(q)) = Len(q) - 1
           /\ Len(q) = 1 => Tail(q) = <<>>
           /\ \A i \in 1..Len(Tail(q)) : Tail(q)[i] = q[i + 1] /\ i + 1 \in 1..Len(q)
  OBVIOUS

\* The worker keeps the session in order: what it posts is true when it posts
\* it, and it posts nothing after its last message.
LEMMA WorkerKeepsSession == TypeOK /\ SessionInv /\ WorkerMoves => SessionInv'
<1> SUFFICES ASSUME TypeOK, SessionInv, WorkerMoves PROVE SessionInv'
  OBVIOUS
<1>0. /\ inbox \in Seq(Messages) /\ (fTunFd => fTunFd')
      /\ UNCHANGED <<fState, fStopRequested, fWorker, looper>>
      /\ worker # "none"
  BY DEF TypeOK, LooperTyped, PlaneTyped, WorkerMoves, lifeVars
<1>1. fWorker /\ looper.is # "Failed" /\ \A i \in 1..Len(inbox) : inbox[i] \notin LastMessages
  BY <1>0 DEF SessionInv, NothingUnattached, QueueOrdered, EndIsEnd, LastMessages
<1>2. NothingUnattached' /\ EndIsEnd'
  BY <1>0, <1>1 DEF SessionInv, NothingUnattached, EndIsEnd
<1>3. ConnectedMeansTun'
  BY <1>0 DEF SessionInv, ConnectedMeansTun, WorkerMoves
<1>4. CASE inbox' = inbox /\ worker' # "none"
  <2>1. QueueOrdered'
    BY <1>0, <1>1, <1>4 DEF SessionInv, QueueOrdered, WorkerMoves
  <2>2. FailsEarly'
    BY <1>0, <1>1, <1>4 DEF SessionInv, FailsEarly, WorkerMoves
  <2> QED
    BY <1>2, <1>3, <2>1, <2>2 DEF SessionInv
<1>5. CASE \E m \in Messages : Progress(m)
  <2>0. PICK m \in Messages : Progress(m)
    BY <1>5
  <2>1. /\ Len(inbox') = Len(inbox) + 1
        /\ \A i \in 1..Len(inbox') : inbox'[i] = IF i = Len(inbox) + 1 THEN m ELSE inbox[i]
        /\ \A i \in 1..Len(inbox') : i = Len(inbox) + 1 \/ i \in 1..Len(inbox)
    BY <1>0, <2>0 DEF Progress
  <2>2. QueueOrdered'
    BY <1>0, <1>1, <2>0, <2>1 DEF SessionInv, QueueOrdered, WorkerMoves, Progress
  <2>3. FailsEarly'
    <3> SUFFICES ASSUME worker' \in BeforeMap \/ \E i \in 1..Len(inbox') : inbox'[i] = "Failed"
                 PROVE  fState # "CONNECTED" /\ \A i \in 1..Len(inbox') : inbox'[i] # "NetmapUp"
      BY <1>0, <1>1 DEF FailsEarly
    <3>1. worker \in BeforeMap
      BY <1>1, <2>0, <2>1 DEF WorkerMoves, Progress, LastMessages
    <3>2. m # "NetmapUp"
      BY <2>0, <3>1 DEF Progress
    <3> QED
      BY <2>1, <3>1, <3>2 DEF SessionInv, FailsEarly
  <2> QED
    BY <1>2, <1>3, <2>2, <2>3 DEF SessionInv
<1> QED
  BY <1>4, <1>5 DEF WorkerMoves

\* Every step of looper, worker and readers, a quit and a crash keep the
\* session in order.
LEMMA SessionStep == TypeOK /\ SessionInv /\ [Next]_vars => SessionInv'
<1> SUFFICES ASSUME TypeOK, SessionInv, [Next]_vars PROVE SessionInv'
  OBVIOUS
<1> USE DEF SessionInv
<1>0. /\ LooperTyped /\ NothingUnattached /\ EndIsEnd /\ QueueOrdered /\ FailsEarly
      /\ ConnectedMeansTun
  BY DEF TypeOK
<1>a. ASSUME UNCHANGED <<fState, fStopRequested, fWorker, looper, worker, inbox, fTunFd>>
      PROVE  SessionInv'
  BY <1>0, <1>a DEF NothingUnattached, EndIsEnd, QueueOrdered, FailsEarly, ConnectedMeansTun
<1>1. CASE ConnectRefused
  BY <1>0, <1>1 DEF ConnectRefused, SetState, planeVars, NothingUnattached, EndIsEnd,
                    QueueOrdered, FailsEarly, ConnectedMeansTun
<1>2. CASE ConnectStarts
  <2>1. inbox = <<>> /\ inbox' = <<>> /\ looper' = looper /\ looper.is = "Idle"
    BY <1>0, <1>2 DEF ConnectStarts, LooperFree, NothingUnattached
  <2> QED
    BY <1>0, <1>2, <2>1 DEF ConnectStarts, SetState, planeVars, NothingUnattached, EndIsEnd,
                            QueueOrdered, FailsEarly, ConnectedMeansTun, LastMessages
<1>3. CASE Disconnect
  BY <1>0, <1>3 DEF Disconnect, SetState, planeVars, NothingUnattached, EndIsEnd,
                    QueueOrdered, FailsEarly, ConnectedMeansTun, LooperTyped
<1>4. CASE QuitBegins
  BY <1>0, <1>4 DEF QuitBegins, planeVars, NothingUnattached, EndIsEnd,
                    QueueOrdered, FailsEarly, ConnectedMeansTun, LooperTyped, LastMessages
<1>5. CASE MessageReceived
  <2>0. inbox \in Seq(Messages) /\ inbox # <<>> /\ inbox' = Tail(inbox)
        /\ Head(inbox) \in Messages \ LastMessages
        /\ UNCHANGED <<fStopRequested, fWorker, looper, worker, fTunFd>>
        /\ fState' = Reports(Head(inbox)) /\ looper.is = "Idle"
    BY <1>0, <1>5 DEF LooperTyped, MessageReceived, SetState, planeVars, LooperFree
  <2>1. /\ Head(inbox) = inbox[1] /\ 1 \in 1..Len(inbox)
        /\ Len(inbox) \in Nat /\ Len(inbox') = Len(inbox) - 1
        /\ \A i \in 1..Len(inbox') : inbox'[i] = inbox[i + 1] /\ i + 1 \in 1..Len(inbox)
    BY <2>0, TailFacts
  <2>2. fState' = "CONNECTED" <=> inbox[1] = "NetmapUp"
    BY <2>0, <2>1 DEF Reports, Messages, LastMessages
  <2>3. NothingUnattached' /\ EndIsEnd'
    BY <1>0, <2>0 DEF NothingUnattached, EndIsEnd, LastMessages
  <2>4. QueueOrdered'
    <3>1. \A i \in 1..Len(inbox') : i + 1 = Len(inbox) => i = Len(inbox')
      BY <2>1
    <3>2. \A i \in 1..Len(inbox') :
            /\ inbox'[i] \in LastMessages => i = Len(inbox') /\ worker = "none"
            /\ inbox'[i] = "NetmapUp" => fTunFd
            /\ inbox'[i] = "Stopped" => fStopRequested
      BY <1>0, <2>1, <3>1 DEF QueueOrdered
    <3> QED
      BY <2>0, <3>2 DEF QueueOrdered
  <2>5. ConnectedMeansTun'
    BY <1>0, <2>0, <2>1, <2>2 DEF QueueOrdered, ConnectedMeansTun
  <2>6. FailsEarly'
    BY <1>0, <2>0, <2>1, <2>2 DEF FailsEarly
  <2> QED
    BY <2>3, <2>4, <2>5, <2>6
<1>6. CASE TsFailed
  <2>0. inbox \in Seq(Messages) /\ inbox # <<>> /\ inbox' = Tail(inbox)
        /\ Head(inbox) \in LastMessages
        /\ UNCHANGED <<fState, worker, fTunFd>>
        /\ fWorker' = FALSE /\ fStopRequested' = TRUE
        /\ looper' = [is |-> Head(inbox), asked |-> fStopRequested]
    BY <1>0, <1>6 DEF LooperTyped, TsFailed, planeVars
  <2>1. /\ Head(inbox) = inbox[1] /\ 1 \in 1..Len(inbox)
        /\ Len(inbox') = Len(inbox) - 1
    BY <2>0, TailFacts
  <2>2. Len(inbox) = 1 /\ worker = "none" /\ inbox' = <<>> /\ 1..Len(inbox') = {}
    <3>1. Len(inbox) = 1 /\ worker = "none"
      BY <1>0, <2>0, <2>1 DEF QueueOrdered
    <3> QED
      BY <2>0, <3>1, TailFacts
  <2>3. looper'.is = inbox[1] /\ looper'.asked = fStopRequested
    BY <2>0, <2>1
  <2>4. NothingUnattached' /\ ConnectedMeansTun' /\ QueueOrdered'
    BY <1>0, <2>0, <2>2 DEF NothingUnattached, ConnectedMeansTun, QueueOrdered
  <2>5. EndIsEnd'
    BY <1>0, <2>0, <2>1, <2>3 DEF EndIsEnd, QueueOrdered
  <2>6. FailsEarly'
    BY <1>0, <2>0, <2>1, <2>2, <2>3 DEF FailsEarly, BeforeMap
  <2> QED
    BY <2>4, <2>5, <2>6
<1>7. CASE SessionEnds
  <2>1. ~fWorker /\ fStopRequested /\ inbox = <<>> /\ worker = "none"
    BY <1>0, <1>7 DEF SessionEnds, EndIsEnd, NothingUnattached
  <2>2. fState' # "CONNECTED" /\ looper' = Idle
        /\ UNCHANGED <<fStopRequested, fWorker, inbox, worker>>
    BY <1>7 DEF SessionEnds, SetState, Reports, LastMessages
  <2> QED
    BY <2>1, <2>2 DEF NothingUnattached, EndIsEnd, QueueOrdered, FailsEarly,
                      ConnectedMeansTun, Idle, LastMessages, BeforeMap
<1>8. CASE QuitEnds \/ Crash
  BY <1>8, NewDaemonSession DEF QuitEnds, Crash
<1>9. CASE Worker
  BY <1>9, WorkerStep, WorkerKeepsSession
<1>10. CASE Relay \/ SyncExitNode \/ TunReaderExits \/ SetExitNode
  BY <1>a, <1>10 DEF Relay, DerpDropped, DerpReconnect, SyncExitNode, TunReaderExits,
                     SetExitNode, lifeVars, planeVars
<1>11. CASE UNCHANGED vars
  BY <1>a, <1>11 DEF vars, lifeVars, planeVars
<1> QED
  BY <1>1, <1>2, <1>3, <1>4, <1>5, <1>6, <1>7, <1>8, <1>9, <1>10, <1>11
  DEF Next, Calls, LooperWorks

\* Nothing is shown, queued or attached at first.
LEMMA InitSession == Init => SessionInv
  BY DEF Init, ProcessInit, SessionInv, NothingUnattached, EndIsEnd, QueueOrdered, FailsEarly,
         ConnectedMeansTun, Idle, LastMessages, BeforeMap

\* CONNECTED is shown only over an open tun, for any number of exit nodes and any
\* length of the queue: a summary that was queued before the end is handled
\* before the end is (kMsgTsNetmap, kMsgTsFailed).
THEOREM ShownOverTun == Spec => []ConnectedMeansTun
<1>1. Init => TypeOK /\ SessionInv
  BY InitTyped, InitSession
<1>2. TypeOK /\ SessionInv /\ [Next]_vars => (TypeOK /\ SessionInv)'
  BY TypeStep, SessionStep
<1>3. SessionInv => ConnectedMeansTun
  BY DEF SessionInv
<1> QED
  BY <1>1, <1>2, <1>3, PTL DEF Spec
-----------------------------------------------------------------------------
(***************************************************************************)
(* The data plane and the routing table.                                   *)
(***************************************************************************)
\* The steps that leave the data plane, the routes and the session's place alone.
RoutesAside ==
    UNCHANGED <<fTunInterface, fTunFd, fTunReader, fInstalledRoutes, fActiveExitNode,
                fExitCarveouts, fExitOrigGateway, table, crashed>>

\* Calls, messages that are not the last one, most of the worker and the relay
\* are such steps.
LEMMA MostlyAside ==
    ASSUME \/ ConnectRefused \/ Disconnect \/ SetExitNode \/ QuitBegins \/ MessageReceived
           \/ TsFailed \/ RegisterNode \/ PollLogin \/ OpenMap \/ MapBackoff \/ MapStreamEnds
           \/ BringUpRelay \/ Relay \/ UNCHANGED vars
    PROVE  RoutesAside
  BY DEF RoutesAside, ConnectRefused, Disconnect, SetExitNode, QuitBegins, MessageReceived,
         TsFailed, RegisterNode, PollLogin, OpenMap, MapBackoff, MapStreamEnds, BringUpRelay,
         Relay, DerpDropped, DerpReconnect, vars, planeVars, routeVars, exitVars

\* Only a worker brings the data plane up, and only the end of its session
\* takes it down again.
LEMMA PlaneStep == TypeOK /\ SessionInv /\ PlaneStands /\ [Next]_vars => PlaneStands'
<1> SUFFICES ASSUME TypeOK, SessionInv, PlaneStands, [Next]_vars PROVE PlaneStands'
  OBVIOUS
<1> USE DEF PlaneStands
<1>0. PlaneTyped /\ LooperTyped /\ NothingUnattached /\ EndIsEnd
  BY DEF TypeOK, SessionInv
<1>1. CASE ConnectRefused \/ Disconnect \/ SetExitNode \/ MessageReceived
             \/ RegisterNode \/ PollLogin \/ OpenMap \/ MapBackoff \/ MapStreamEnds \/ BringUpRelay
             \/ Relay \/ UNCHANGED vars
  <2>1. UNCHANGED <<fWorker, looper>>
    BY <1>1 DEF ConnectRefused, Disconnect, SetExitNode, MessageReceived, RegisterNode,
                PollLogin, OpenMap, MapBackoff, MapStreamEnds, BringUpRelay, Relay,
                DerpDropped, DerpReconnect, vars, lifeVars
  <2>2. RoutesAside
    BY <1>1, MostlyAside
  <2> QED
    BY <2>1, <2>2 DEF RoutesAside
<1>2. CASE QuitBegins
  <2>1. fWorker' = fWorker /\ looper.is = "Idle"
    BY <1>2 DEF QuitBegins, LooperFree
  <2>2. RoutesAside
    BY <1>2, MostlyAside
  <2> QED
    BY <2>1, <2>2 DEF RoutesAside, LastMessages
<1>3. CASE TsFailed
  <2>1. looper'.is \in LastMessages
    BY <1>3 DEF TsFailed
  <2>2. RoutesAside
    BY <1>3, MostlyAside
  <2> QED
    BY <2>1, <2>2 DEF RoutesAside
<1>4. CASE ConnectStarts
  <2>1. ~fTunInterface
    BY <1>4 DEF ConnectStarts, LooperFree, LastMessages
  <2> QED
    BY <1>4, <2>1 DEF ConnectStarts, planeVars
<1>5. CASE SyncExitNode
  <2>0. UNCHANGED <<fTunInterface, fTunFd, fTunReader, fInstalledRoutes, fWorker, looper>>
        /\ fTunReader
    BY <1>5 DEF SyncExitNode, planeVars, lifeVars
  <2>1. fActiveExitNode' # None \/ fExitCarveouts' = {}
    BY <1>0, <1>5 DEF SyncExitNode, EnableExitNode, ReconcileExitCarveouts, NoExitNode
  <2> QED
    BY <2>0, <2>1
<1>6. CASE TunReaderExits
  BY <1>6 DEF TunReaderExits, lifeVars, routeVars, exitVars
<1>7. CASE SessionEnds
  BY <1>7 DEF SessionEnds, StopDataPlane, TeardownTun, NoExitNode
<1>8. CASE QuitEnds \/ Crash
  BY <1>8 DEF QuitEnds, Crash, NewDaemon
<1>9. CASE MapMessage
  <2>0. UNCHANGED <<fWorker, looper, fInstalledRoutes, exitVars>> /\ fWorker
    BY <1>0, <1>9 DEF MapMessage, lifeVars, NothingUnattached
  <2>1. CASE fTunFd
    BY <1>9, <2>0, <2>1 DEF MapMessage, planeVars, exitVars
  <2>2. CASE ~fTunFd
    <3>1. /\ fTunInterface => fTunInterface'
          /\ fTunFd' => fTunInterface' /\ fTunReader'
          /\ fTunReader' => fTunFd'
      BY <1>9, <2>2 DEF MapMessage, BringUpTun, StartDataPlane
    <3> QED
      BY <2>0, <3>1 DEF exitVars
  <2> QED
    BY <2>1, <2>2
<1>10. CASE SyncAndReport
  BY <1>10 DEF SyncAndReport, SyncRoutes, lifeVars, planeVars, exitVars
<1> QED
  BY <1>1, <1>2, <1>3, <1>4, <1>5, <1>6, <1>7, <1>8, <1>9, <1>10
  DEF Next, Calls, LooperWorks, Worker

\* What a diff does to the routes it was taken for: the desired ones are left,
\* with whatever was there besides (DiffRoutes, DiffCarveouts).
LEMMA DiffApplied ==
    ASSUME NEW desired, NEW installed, NEW routes
    PROVE  /\ Apply(DiffRoutes(desired, installed), installed) = desired
           /\ installed \subseteq routes => desired \subseteq Apply(DiffRoutes(desired, installed), routes)
  BY DEF Apply, DiffRoutes

\* Without a crash the exit node goes and the carrier's route is back.
LEMMA ExitGoes ==
    TypeOK /\ PlaneStands /\ TableRemembered /\ ~crashed
        => ExitRestored = [default |-> "carrier", pins |-> {}, subnets |-> fInstalledRoutes]
<1> SUFFICES ASSUME TypeOK, PlaneStands, TableRemembered, ~crashed
             PROVE  ExitRestored = [default |-> "carrier", pins |-> {}, subnets |-> fInstalledRoutes]
  OBVIOUS
<1>0. table \in Table
  BY DEF TypeOK, PlaneTyped, Table
<1>1. CASE fActiveExitNode = None
  <2>1. table.default = "carrier" /\ table.pins = {} /\ table.subnets = fInstalledRoutes
    BY <1>1 DEF TableRemembered, PlaneStands
  <2> QED
    BY <1>0, <1>1, <2>1 DEF ExitRestored, Table
<1>2. CASE fActiveExitNode # None
  <2>1. fExitOrigGateway = "carrier" /\ table.pins = fExitCarveouts /\ table.subnets = fInstalledRoutes
    BY <1>2 DEF TableRemembered
  <2>2. table.pins \ fExitCarveouts = {}
    BY <2>1
  <2> QED
    BY <1>0, <1>2, <2>1, <2>2 DEF ExitRestored, Table
<1> QED
  BY <1>1, <1>2

\* Every step keeps the fields and the table in step.
LEMMA TableStep ==
    TypeOK /\ SessionInv /\ PlaneStands /\ TableRemembered /\ [Next]_vars => TableRemembered'
<1> SUFFICES ASSUME TypeOK, SessionInv, PlaneStands, TableRemembered, [Next]_vars, ~crashed'
             PROVE  TableRemembered'
  BY DEF TableRemembered
<1>0. PlaneTyped /\ table \in Table /\ None \notin Exits
  BY TailscaleAssumption DEF TypeOK, PlaneTyped, Table
<1>1. CASE RoutesAside
  BY <1>1 DEF RoutesAside, TableRemembered
<1>2. CASE ConnectStarts
  <2>1. fActiveExitNode = None
    BY <1>2 DEF ConnectStarts, LooperFree, LastMessages, PlaneStands
  <2> QED
    BY <1>2, <2>1 DEF ConnectStarts, TableRemembered
<1>3. CASE SyncExitNode
  <2>0. UNCHANGED <<fInstalledRoutes, crashed>> /\ ~crashed
    BY <1>3 DEF SyncExitNode
  <2>a. ExitRestored = [default |-> "carrier", pins |-> {}, subnets |-> fInstalledRoutes]
    BY <2>0, ExitGoes
  <2>1. CASE fDesiredExitNode # None /\ EnableExitNode(fDesiredExitNode, ExitRestored)
    BY <2>0, <2>a, <2>1 DEF EnableExitNode, TableRemembered
  <2>2. CASE table' = ExitRestored /\ NoExitNode
    BY <2>0, <2>a, <2>2 DEF NoExitNode, TableRemembered
  <2>3. CASE fActiveExitNode # None /\ ReconcileExitCarveouts
    <3>1. PICK desired :
            /\ table' = [table EXCEPT !.pins = Apply(DiffRoutes(desired, fExitCarveouts), @)]
            /\ fExitCarveouts' = desired
            /\ UNCHANGED <<fActiveExitNode, fExitOrigGateway>>
      BY <2>3 DEF ReconcileExitCarveouts
    <3>2. table.pins = fExitCarveouts
      BY <2>0 DEF TableRemembered
    <3>3. table'.pins = desired /\ table'.default = table.default /\ table'.subnets = table.subnets
      BY <1>0, <3>1, <3>2, DiffApplied DEF Table
    <3> QED
      BY <2>0, <3>1, <3>3 DEF TableRemembered
  <2> QED
    BY <1>3, <2>1, <2>2, <2>3 DEF SyncExitNode
<1>4. CASE TunReaderExits
  BY <1>4 DEF TunReaderExits, routeVars, exitVars, TableRemembered
<1>5. CASE SessionEnds
  <2>0. ~crashed /\ crashed' = crashed
    BY <1>5 DEF SessionEnds
  <2>1. CASE ~fTunInterface
    BY <1>5, <2>0, <2>1 DEF SessionEnds, TeardownTun, TableRemembered
  <2>2. CASE fTunInterface
    <3>1. table' = [default |-> "carrier", pins |-> {}, subnets |-> fInstalledRoutes \ fInstalledRoutes]
      BY <1>5, <2>0, <2>2, ExitGoes DEF SessionEnds, TeardownTun, TeardownRoutes
    <3>2. NoExitNode /\ fInstalledRoutes' = {}
      BY <1>5, <2>2 DEF SessionEnds, TeardownTun
    <3> QED
      BY <3>1, <3>2 DEF TableRemembered, NoExitNode
  <2> QED
    BY <2>1, <2>2
<1>6. CASE QuitEnds
  <2>0. ~crashed /\ NewDaemon
    BY <1>6 DEF QuitEnds
  <2>1. CASE ~fTunInterface
    <3>1. table' = table /\ fActiveExitNode = None /\ fInstalledRoutes = {} /\ fExitCarveouts = {}
      BY <1>6, <2>1 DEF QuitEnds, PlaneStands
    <3> QED
      BY <2>0, <3>1 DEF NewDaemon, TableRemembered
  <2>2. CASE fTunInterface
    <3>1. table' = [default |-> "carrier", pins |-> {}, subnets |-> fInstalledRoutes \ fInstalledRoutes]
      BY <1>6, <2>0, <2>2, ExitGoes DEF QuitEnds, TeardownRoutes
    <3> QED
      BY <2>0, <3>1 DEF TableRemembered, NewDaemon
  <2> QED
    BY <2>1, <2>2
<1>7. CASE Crash
  BY <1>7 DEF Crash
<1>8. CASE MapMessage
  <2>0. ~crashed /\ UNCHANGED <<crashed, fInstalledRoutes, exitVars>>
    BY <1>8 DEF MapMessage
  <2>1. CASE table' = table
    BY <2>0, <2>1 DEF TableRemembered, exitVars
  <2>2. CASE table' # table
    <3>1. ~fTunInterface
          /\ table' = [table EXCEPT !.default = IF @ = "tun" THEN "none" ELSE @, !.subnets = {}]
      BY <1>8, <2>2 DEF MapMessage, BringUpTun
    <3>2. fActiveExitNode = None /\ fInstalledRoutes = {} /\ table.default = "carrier"
      BY <2>0, <3>1 DEF PlaneStands, TableRemembered
    <3>3. table'.default = "carrier" /\ table'.pins = table.pins /\ table'.subnets = {}
      BY <1>0, <3>1, <3>2 DEF Table
    <3> QED
      BY <2>0, <3>2, <3>3 DEF TableRemembered, exitVars
  <2> QED
    BY <2>1, <2>2
<1>9. CASE SyncAndReport
  <2>0. ~crashed /\ UNCHANGED <<crashed, exitVars>>
    BY <1>9 DEF SyncAndReport
  <2>1. CASE ~fTunInterface
    BY <1>9, <2>0, <2>1 DEF SyncAndReport, SyncRoutes, exitVars, TableRemembered
  <2>2. CASE fTunInterface
    <3>1. /\ fInstalledRoutes' = netmap.subnets
          /\ table' = [table EXCEPT !.subnets = Apply(DiffRoutes(netmap.subnets, fInstalledRoutes), @)]
      BY <1>9, <2>2 DEF SyncAndReport, SyncRoutes
    <3>2. table.subnets = fInstalledRoutes
      BY <2>0 DEF TableRemembered
    <3>3. table'.subnets = netmap.subnets /\ table'.pins = table.pins /\ table'.default = table.default
      BY <1>0, <3>1, <3>2, DiffApplied DEF Table
    <3> QED
      BY <2>0, <3>1, <3>3 DEF TableRemembered, exitVars
  <2> QED
    BY <2>1, <2>2
<1>10. CASE \/ ConnectRefused \/ Disconnect \/ SetExitNode \/ QuitBegins \/ MessageReceived
            \/ TsFailed \/ RegisterNode \/ PollLogin \/ OpenMap \/ MapBackoff \/ MapStreamEnds
            \/ BringUpRelay \/ Relay \/ UNCHANGED vars
  <2>1. RoutesAside
    BY <1>10, MostlyAside
  <2> QED
    BY <1>1, <2>1
<1> QED
  BY <1>2, <1>3, <1>4, <1>5, <1>6, <1>7, <1>8, <1>9, <1>10
  DEF Next, Calls, LooperWorks, Worker

\* The inductive invariant holds in every reachable state.
LEMMA Invariant == Spec => []IInv
<1>1. Init => IInv
  <2>1. Init => PlaneStands /\ TableRemembered
    BY DEF Init, ProcessInit, PlaneStands, TableRemembered, CarrierTable
  <2> QED
    BY <2>1, InitTyped, InitSession DEF IInv
<1>2. IInv /\ [Next]_vars => IInv'
  BY TypeStep, SessionStep, PlaneStep, TableStep DEF IInv
<1> QED
  BY <1>1, <1>2, PTL DEF Spec

\* Without the tun the table is the one before anything was connected, however
\* the session ended and whichever exit node it was changing to.
THEOREM RoutesGivenBack == Spec => []TableGivenBack
<1>1. IInv => TableGivenBack
  <2> SUFFICES ASSUME IInv, ~crashed, ~fTunInterface PROVE table = CarrierTable
    BY DEF TableGivenBack
  <2>1. table \in Table
    BY DEF IInv, TypeOK, PlaneTyped, Table
  <2>2. table.default = "carrier" /\ table.pins = {} /\ table.subnets = {}
    BY DEF IInv, PlaneStands, TableRemembered
  <2> QED
    BY <2>1, <2>2 DEF CarrierTable, Table
<1> QED
  BY <1>1, Invariant, PTL
-----------------------------------------------------------------------------
(***************************************************************************)
(* The underlay of an exit node, when every lookup is answered.            *)
(***************************************************************************)
\* The control server is among the addresses to pin.
LEMMA ControlInUnderlay ==
    ASSUME LookupOutcomes = {TRUE}, NEW x, NEW u \in Underlays(x)
    PROVE  "control" \in u
  BY DEF Underlays, Resolved

\* Taking an exit node over, following the underlay and giving the exit node
\* back keep the remembered carve-outs in the table, crashed before or not.
LEMMA PinsStep ==
    ASSUME LookupOutcomes = {TRUE}, IInv, PinsInstalled, [Next]_vars
    PROVE  PinsInstalled'
<1> USE DEF PinsInstalled
<1>0. PlaneTyped /\ table \in Table /\ PlaneStands
  BY DEF IInv, TypeOK, PlaneTyped, Table
<1>1. CASE RoutesAside
  BY <1>1 DEF RoutesAside
<1>2. CASE ConnectStarts
  BY <1>2 DEF ConnectStarts
<1>3. CASE SyncExitNode
  <2>1. CASE EnableExitNode(fDesiredExitNode, ExitRestored)
    <3>1. PICK carve \in Underlays(fDesiredExitNode) :
            /\ table' = [ExitRestored EXCEPT !.default = "tun", !.pins = @ \cup carve]
            /\ fExitCarveouts' = carve
      BY <2>1 DEF EnableExitNode
    <3>2. ExitRestored \in Table
      BY RestoredTyped DEF IInv
    <3>3. table'.pins = ExitRestored.pins \cup carve
      BY <3>1, <3>2 DEF Table
    <3> QED
      BY <3>1, <3>3, ControlInUnderlay
  <2>2. CASE NoExitNode
    BY <2>2 DEF NoExitNode
  <2>3. CASE fActiveExitNode # None /\ ReconcileExitCarveouts
    <3>1. PICK desired \in Underlays(fActiveExitNode) :
            /\ table' = [table EXCEPT !.pins = Apply(DiffRoutes(desired, fExitCarveouts), @)]
            /\ fExitCarveouts' = desired
      BY <2>3 DEF ReconcileExitCarveouts
    <3>2. table'.pins = Apply(DiffRoutes(desired, fExitCarveouts), table.pins)
      BY <1>0, <3>1 DEF Table
    <3> QED
      BY <2>3, <3>1, <3>2, ControlInUnderlay, DiffApplied
  <2> QED
    BY <1>3, <2>1, <2>2, <2>3 DEF SyncExitNode
<1>4. CASE TunReaderExits
  BY <1>4 DEF TunReaderExits, routeVars, exitVars
<1>5. CASE SessionEnds
  BY <1>0, <1>5 DEF SessionEnds, TeardownTun, NoExitNode, PlaneStands
<1>6. CASE QuitEnds \/ Crash
  BY <1>6 DEF QuitEnds, Crash, NewDaemon
<1>7. CASE MapMessage
  <2>1. UNCHANGED exitVars /\ table'.pins = table.pins
    BY <1>0, <1>7 DEF MapMessage, BringUpTun, Table
  <2> QED
    BY <2>1 DEF exitVars
<1>8. CASE SyncAndReport
  <2>1. UNCHANGED exitVars /\ table'.pins = table.pins
    BY <1>0, <1>8 DEF SyncAndReport, SyncRoutes, Table
  <2> QED
    BY <2>1 DEF exitVars
<1>9. CASE \/ ConnectRefused \/ Disconnect \/ SetExitNode \/ QuitBegins \/ MessageReceived
           \/ TsFailed \/ RegisterNode \/ PollLogin \/ OpenMap \/ MapBackoff \/ MapStreamEnds
           \/ BringUpRelay \/ Relay \/ UNCHANGED vars
  <2>1. RoutesAside
    BY <1>9, MostlyAside
  <2> QED
    BY <1>1, <2>1
<1> QED
  BY <1>2, <1>3, <1>4, <1>5, <1>6, <1>7, <1>8, <1>9
  DEF Next, Calls, LooperWorks, Worker

\* While an exit node has the default route the control server's address is
\* pinned to the carrier, through every change of exit node, relay and map, in
\* a machine on which lookups are answered (_ExitUnderlayIPs).
THEOREM ControlStaysPinned ==
    ASSUME LookupOutcomes = {TRUE}
    PROVE  Spec => []UnderlayPinned
<1>1. Init => PinsInstalled
  BY DEF Init, ProcessInit, PinsInstalled
<1>2. IInv /\ PinsInstalled /\ [Next]_vars => PinsInstalled'
  BY PinsStep
<1>3. PinsInstalled => UnderlayPinned
  BY DEF PinsInstalled, UnderlayPinned
<1> QED
  BY <1>1, <1>2, <1>3, Invariant, PTL DEF Spec

-----------------------------------------------------------------------------
(***************************************************************************)
(* The contract.                                                           *)
(***************************************************************************)
\* The calls of the daemon have the outcomes the contract names.
LEMMA CallsKeepContract ==
    ASSUME IInv, Calls PROVE [Contract!Next]_<<Seen, posted>>
<1>0. LooperTyped
  BY DEF IInv, TypeOK
<1>1. CASE ConnectRefused
  <2>1. Seen' = [Seen EXCEPT !.state = "ERROR"] /\ posted' = <<"ERROR">>
    BY <1>1 DEF ConnectRefused, Seen, SetState
  <2> DEFINE o == [Contract!SetState(Seen, "ERROR", Seen.worker) EXCEPT !.ok = FALSE]
  <2>2. o \in Contract!ConnectOutcomes("Tailscale", Seen)
    BY DEF Contract!ConnectOutcomes, Contract!TailscaleConnect
  <2>3. Contract!Takes(o)
    BY <2>1 DEF Contract!Takes, Contract!SetState, Seen
  <2>4. Contract!Connect
    BY <2>2, <2>3 DEF Contract!Connect
  <2> QED
    BY <2>4 DEF Contract!Next
<1>2. CASE ConnectStarts
  <2>1. Seen.worker = "none"
    BY <1>2 DEF ConnectStarts, Seen, LooperFree, LastMessages
  <2>2. \/ /\ Seen' = [state |-> "CONNECTING", worker |-> "running", stop |-> FALSE]
           /\ posted' = <<"CONNECTING">>
        \/ /\ Seen' = [state |-> "ERROR", worker |-> "none", stop |-> FALSE]
           /\ posted' = <<"CONNECTING", "ERROR">>
    <3>1. looper'.is = "Idle" /\ fStopRequested' = FALSE /\ ~fWorker
      BY <1>2 DEF ConnectStarts, LooperFree
    <3>2. CASE SetState("CONNECTING") /\ fWorker' = TRUE
      BY <3>1, <3>2 DEF Seen, SetState
    <3>3. CASE fState' = "ERROR" /\ posted' = <<"CONNECTING", "ERROR">> /\ fWorker' = fWorker
      BY <3>1, <3>3 DEF Seen, LastMessages
    <3> QED
      BY <1>2, <3>2, <3>3 DEF ConnectStarts
  <2>3. /\ Contract!Started \in Contract!ConnectOutcomes("Tailscale", Seen)
        /\ Contract!FailedLate("none", FALSE) \in Contract!ConnectOutcomes("Tailscale", Seen)
    BY <2>1 DEF Contract!ConnectOutcomes, Contract!TailscaleConnect
  <2>4. Contract!Takes(Contract!Started) \/ Contract!Takes(Contract!FailedLate("none", FALSE))
    BY <2>2 DEF Contract!Takes, Contract!Started, Contract!FailedLate
  <2>5. Contract!Connect
    BY <2>3, <2>4 DEF Contract!Connect
  <2> QED
    BY <2>5 DEF Contract!Next
<1>3. CASE Disconnect
  <2>1. Contract!Disconnect
    <3>1. CASE fWorker
      <4>1. /\ looper.is = "Idle" /\ UNCHANGED <<fWorker, looper, fState>>
            /\ fStopRequested' = TRUE /\ posted' = <<>>
        BY <1>3, <3>1 DEF Disconnect, LooperFree
      <4>2. Seen = [state |-> fState, worker |-> "running", stop |-> fStopRequested]
        BY <3>1, <4>1 DEF Seen
      <4>3. Seen' = [state |-> fState, worker |-> "running", stop |-> TRUE]
        BY <3>1, <4>1 DEF Seen
      <4> QED
        BY <4>1, <4>2, <4>3 DEF Contract!Disconnect, Contract!DisconnectOutcome, Contract!Takes,
                                Contract!StopAsked
    <3>2. CASE ~fWorker
      <4>1. /\ Seen' = [state |-> "DISCONNECTED", worker |-> "none", stop |-> TRUE]
            /\ posted' = <<"DISCONNECTED">> /\ Seen.worker = "none"
        BY <1>3, <3>2 DEF Disconnect, Seen, LooperFree, SetState, LastMessages
      <4>2. Contract!StoppedAtOnce(Seen).bk = [state |-> "DISCONNECTED", worker |-> "none", stop |-> TRUE]
            /\ Contract!StoppedAtOnce(Seen).posts = <<"DISCONNECTED">>
        BY DEF Contract!StoppedAtOnce, Contract!SetState, Seen
      <4> QED
        BY <4>1, <4>2 DEF Contract!Disconnect, Contract!DisconnectOutcome, Contract!Takes
    <3> QED
      BY <3>1, <3>2
  <2> QED
    BY <2>1 DEF Contract!Next
<1>4. CASE SetExitNode
  BY <1>4 DEF SetExitNode, lifeVars, Seen
<1>5. CASE QuitBegins
  BY <1>5 DEF QuitBegins, Seen, LooperFree, LastMessages
<1> QED
  BY <1>1, <1>2, <1>3, <1>4, <1>5 DEF Calls

\* What the looper does with the worker's messages is what the contract lets a
\* worker report; joining the readers is not seen; a quit is a restart.
LEMMA LooperKeepsContract ==
    ASSUME IInv, LooperWorks PROVE [Contract!Next]_<<Seen, posted>>
<1>0. LooperTyped /\ NothingUnattached /\ EndIsEnd /\ QueueOrdered /\ FailsEarly
  BY DEF IInv, TypeOK, SessionInv
<1>1. CASE MessageReceived
  <2>1. Head(inbox) \in Messages \ LastMessages /\ fWorker
    BY <1>0, <1>1 DEF MessageReceived, LooperTyped, NothingUnattached
  <2>2. PICK s \in {"AUTHENTICATING", "CONNECTED"} : fState' = s /\ posted' = <<s>>
    BY <1>1, <2>1 DEF MessageReceived, SetState, Reports, Messages, LastMessages
  <2>3. /\ Seen = [state |-> fState, worker |-> "running", stop |-> fStopRequested]
        /\ Seen' = [state |-> s, worker |-> "running", stop |-> fStopRequested]
    BY <1>1, <2>1, <2>2 DEF MessageReceived, Seen, LooperFree
  <2>4. Contract!SetState(Seen, s, "running") \in Contract!WorkerSteps("Tailscale", Seen)
    BY <2>3 DEF Contract!WorkerSteps, Contract!TailscaleWorkerSteps
  <2>5. Contract!Takes(Contract!SetState(Seen, s, "running"))
    BY <2>2, <2>3 DEF Contract!Takes, Contract!SetState
  <2>6. Contract!Work
    BY <2>4, <2>5 DEF Contract!Work
  <2> QED
    BY <2>6 DEF Contract!Next
<1>2. CASE TsFailed
  <2>1. fWorker /\ looper.is = "Idle"
    BY <1>0, <1>2 DEF TsFailed, LooperFree, NothingUnattached
  <2> QED
    BY <1>2, <2>1 DEF TsFailed, Seen, LastMessages
<1>3. CASE SessionEnds
  <2>1. looper.is \in LastMessages /\ ~fWorker /\ fStopRequested
        /\ UNCHANGED <<fStopRequested, fWorker>> /\ looper' = Idle
    BY <1>0, <1>3 DEF SessionEnds, EndIsEnd
  <2>2. CASE looper.is = "Stopped"
    <3>1. /\ Seen' = [state |-> "DISCONNECTED", worker |-> "none", stop |-> TRUE]
          /\ posted' = <<"DISCONNECTED">> /\ Seen.worker = "running" /\ Seen.stop = TRUE
      BY <1>0, <1>3, <2>1, <2>2 DEF SessionEnds, SetState, Reports, Seen, Idle, LastMessages,
                                    EndIsEnd, LooperTyped
    <3>2. Contract!SetState(Seen, "DISCONNECTED", "none") \in Contract!TailscaleWorkerSteps(Seen)
      BY <3>1 DEF Contract!TailscaleWorkerSteps
    <3>3. Contract!Takes(Contract!SetState(Seen, "DISCONNECTED", "none"))
      BY <3>1 DEF Contract!Takes, Contract!SetState, Seen
    <3>4. Contract!Work
      BY <3>2, <3>3 DEF Contract!Work, Contract!WorkerSteps
    <3> QED
      BY <3>4 DEF Contract!Next
  <2>3. CASE looper.is = "Failed"
    <3>1. /\ Seen' = [state |-> "ERROR", worker |-> "none", stop |-> TRUE]
          /\ posted' = <<"ERROR">> /\ Seen.worker = "running" /\ Seen.state # "CONNECTED"
      BY <1>0, <1>3, <2>1, <2>3 DEF SessionEnds, SetState, Reports, Seen, Idle, LastMessages,
                                    FailsEarly
    <3>2. Contract!SetState([Seen EXCEPT !.stop = TRUE], "ERROR", "none")
            \in Contract!TailscaleWorkerSteps(Seen)
      BY <3>1 DEF Contract!TailscaleWorkerSteps
    <3>3. Contract!Takes(Contract!SetState([Seen EXCEPT !.stop = TRUE], "ERROR", "none"))
      BY <3>1 DEF Contract!Takes, Contract!SetState, Seen
    <3>4. Contract!Work
      BY <3>2, <3>3 DEF Contract!Work, Contract!WorkerSteps
    <3> QED
      BY <3>4 DEF Contract!Next
  <2> QED
    BY <2>1, <2>2, <2>3 DEF LastMessages
<1>4. CASE QuitEnds
  <2>1. Contract!Restart
    BY <1>4 DEF QuitEnds, NewDaemon, Contract!Restart, Contract!IdleBackend, Seen, Idle,
                LastMessages
  <2> QED
    BY <2>1 DEF Contract!Next
<1> QED
  BY <1>1, <1>2, <1>3, <1>4 DEF LooperWorks

\* The backend is an implementation of the contract: every step is one of its
\* calls, reports or restarts, or is not seen by the daemon at all.
THEOREM KeepsContract == Spec => ImplementsContract
<1>1. Init => Contract!Init
  <2> SUFFICES ASSUME Init PROVE Contract!Init
    OBVIOUS
  <2>1. Seen = [state |-> "DISCONNECTED", worker |-> "none", stop |-> FALSE]
    BY DEF Init, ProcessInit, Seen, Idle, LastMessages
  <2> QED
    BY <2>1 DEF Init, ProcessInit, Contract!Init, Contract!IdleBackend
<1>2. IInv /\ [Next]_vars => [Contract!Next]_<<Seen, posted>>
  <2> SUFFICES ASSUME IInv, [Next]_vars PROVE [Contract!Next]_<<Seen, posted>>
    OBVIOUS
  <2>1. CASE Crash
    <3>1. Contract!Restart
      BY <2>1 DEF Crash, NewDaemon, Contract!Restart, Contract!IdleBackend, Seen, Idle,
                  LastMessages
    <3> QED
      BY <3>1 DEF Contract!Next
  <2>2. CASE Worker
    <3>1. UNCHANGED lifeVars
      BY <2>2, WorkerStep DEF WorkerMoves, IInv
    <3> QED
      BY <3>1 DEF lifeVars, Seen
  <2>3. CASE Relay \/ SyncExitNode \/ TunReaderExits \/ UNCHANGED vars
    <3>1. UNCHANGED lifeVars
      BY <2>3 DEF Relay, DerpDropped, DerpReconnect, SyncExitNode, TunReaderExits, vars
    <3> QED
      BY <3>1 DEF lifeVars, Seen
  <2> QED
    BY <2>1, <2>2, <2>3, CallsKeepContract, LooperKeepsContract DEF Next
<1> QED
  BY <1>1, <1>2, Invariant, PTL DEF Spec, ImplementsContract, Contract!Spec
=============================================================================
