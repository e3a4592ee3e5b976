----------------------- MODULE WireGuardBackendProofs -----------------------
(***************************************************************************)
(* Counters, resolver file, routing table and types of the WireGuard       *)
(* backend, and the contract it keeps, for any number of sessions,         *)
(* packets, attempts and crashes.                                          *)
(***************************************************************************)
EXTENDS WireGuardBackend, TLAPS

\* What makes NonceFresh inductive: every counter used is behind the next one.
CountersBehind == fSendCounter \in Nat /\ sent \subseteq 0..(fSendCounter - 1)

\* What makes ResolverKept inductive: only the user's file is ever moved aside.
BackupIsUsers == backup \in {"none", "user"} /\ (backup = "none" => resolv = "user")

IInv == CountersBehind /\ ReplaysRefused /\ BackupIsUsers

\* The steps that touch neither the counters nor the resolver, as a group.
Aside == UNCHANGED <<fSendCounter, sent, window, taken, resolv, backup>>

\* _ApplyDns moves the user's file aside once and otherwise keeps the backup.
LEMMA ApplyKeeps == BackupIsUsers /\ ApplyDns => BackupIsUsers'
  BY DEF BackupIsUsers, ApplyDns

\* _RestoreDns, failing or not, loses nothing.
LEMMA RestoreKeeps == BackupIsUsers /\ RestoreDns => BackupIsUsers'
  BY DEF BackupIsUsers, RestoreDns

\* _InstallRoutes touches the resolver through _ApplyDns only.
LEMMA InstallKeeps == BackupIsUsers /\ InstallRoutes => BackupIsUsers'
<1> SUFFICES ASSUME BackupIsUsers, InstallRoutes PROVE BackupIsUsers'
  OBVIOUS
<1>1. ApplyDns \/ UNCHANGED <<resolv, backup>>
  BY DEF InstallRoutes, routeVars
<1>2. CASE ApplyDns
  BY <1>2, ApplyKeeps
<1>3. CASE UNCHANGED <<resolv, backup>>
  BY <1>3 DEF BackupIsUsers
<1> QED
  BY <1>1, <1>2, <1>3

\* _RemoveRoutes touches it through _RestoreDns only.
LEMMA RemoveKeeps == BackupIsUsers /\ RemoveRoutes => BackupIsUsers'
<1> SUFFICES ASSUME BackupIsUsers, RemoveRoutes PROVE BackupIsUsers'
  OBVIOUS
<1>1. RestoreDns
  BY DEF RemoveRoutes, RestoreDns, routeVars
<1> QED
  BY <1>1, RestoreKeeps

\* A step that changes neither counters nor windows keeps what is said of them.
LEMMA CountersAside ==
    CountersBehind /\ ReplaysRefused /\ UNCHANGED <<fSendCounter, sent, window, taken>>
        => CountersBehind' /\ ReplaysRefused'
  BY DEF CountersBehind, ReplaysRefused

\* New keys start with nothing sent and nothing taken.
LEMMA CountersAnew ==
    fSendCounter' = 0 /\ sent' = {} /\ window' = {} /\ taken' = {}
        => CountersBehind' /\ ReplaysRefused'
  BY DEF CountersBehind, ReplaysRefused

\* Every step of looper, reader, peer, clock and crash keeps IInv.
LEMMA InvariantStep == IInv /\ [Next]_vars => IInv'
<1> SUFFICES ASSUME IInv, [Next]_vars PROVE IInv'
  OBVIOUS
<1> USE DEF IInv
<1>1. ASSUME Aside PROVE IInv'
  BY <1>1 DEF Aside, CountersBehind, ReplaysRefused, BackupIsUsers
<1>2. CASE Connect
  <2>1. CASE ConnectBadConfig
    BY <1>1, <2>1 DEF ConnectBadConfig, Aside, keyVars, routeVars
  <2>2. CASE ConnectFails
    <3>1. RemoveRoutes /\ UNCHANGED <<fSendCounter, sent, window, taken>>
      BY <2>2 DEF ConnectFails, Cleanup, keyVars
    <3> QED
      BY <3>1, RemoveKeeps, CountersAside
  <2>3. CASE ConnectStarts
    BY <1>1, <2>3 DEF ConnectStarts, Aside, keyVars, routeVars
  <2> QED
    BY <1>2, <2>1, <2>2, <2>3 DEF Connect
<1>3. CASE Disconnect
  <2>1. CASE DisconnectAsks
    BY <1>1, <2>1 DEF DisconnectAsks, Aside, keyVars, routeVars
  <2>2. CASE DisconnectAtOnce
    <3>1. RemoveRoutes /\ UNCHANGED <<fSendCounter, sent, window, taken>>
      BY <2>2 DEF DisconnectAtOnce, Cleanup, keyVars
    <3> QED
      BY <3>1, RemoveKeeps, CountersAside
  <2> QED
    BY <1>3, <2>1, <2>2 DEF Disconnect
<1>4. CASE HandleMessage
  <2>1. CASE HandleConnected
    <3>1. InstallRoutes /\ UNCHANGED <<fSendCounter, sent, window, taken>>
      BY <2>1 DEF HandleConnected, keyVars
    <3> QED
      BY <3>1, InstallKeeps, CountersAside
  <2>2. CASE HandleReaderExited
    <3>1. RemoveRoutes /\ UNCHANGED <<fSendCounter, sent, window, taken>>
      BY <2>2 DEF HandleReaderExited, Cleanup, keyVars
    <3> QED
      BY <3>1, RemoveKeeps, CountersAside
  <2> QED
    BY <1>4, <2>1, <2>2 DEF HandleMessage
<1>5. CASE ReaderStep
  <2>0. resolv' = resolv /\ backup' = backup
    BY <1>5 DEF ReaderStep, Attempt, GiveUp, HandshakeSucceeds, HandshakeFails, AttemptFails,
                RekeyFails, SendPacket, ReceivePacket, DropResponse, Rekey, TransportStops,
                SelectFails, routeVars
  <2>1. CASE HandshakeSucceeds
    <3>1. fSendCounter' = 0 /\ sent' = {} /\ window' = {} /\ taken' = {}
      BY <2>1 DEF HandshakeSucceeds, NewKeys
    <3> QED
      BY <3>1, <2>0, CountersAnew DEF BackupIsUsers
  <2>2. CASE SendPacket
    <3>1. fSendCounter' = fSendCounter + 1 /\ sent' = sent \cup {fSendCounter}
          /\ window' = window /\ taken' = taken
      BY <2>2 DEF SendPacket
    <3> QED
      BY <3>1, <2>0 DEF CountersBehind, ReplaysRefused, BackupIsUsers
  <2>3. CASE ReceivePacket
    <3>1. PICK c \in (0..MaxCounter) \ window :
            window' = window \cup {c} /\ taken' = taken \cup {c}
      BY <2>3 DEF ReceivePacket
    <3>2. fSendCounter' = fSendCounter /\ sent' = sent
      BY <2>3 DEF ReceivePacket
    <3> QED
      BY <3>1, <3>2, <2>0 DEF CountersBehind, ReplaysRefused, BackupIsUsers
  <2>4. CASE Attempt \/ GiveUp \/ HandshakeFails \/ DropResponse \/ Rekey \/ TransportStops
               \/ SelectFails
    <3>1. UNCHANGED <<fSendCounter, sent, window, taken>>
      BY <2>4 DEF Attempt, GiveUp, HandshakeFails, AttemptFails, RekeyFails, KeepsOldKeys,
                  DropResponse, Rekey, TransportStops, SelectFails, keyVars
    <3> QED
      BY <3>1, <2>0, CountersAside DEF BackupIsUsers
  <2> QED
    BY <1>5, <2>1, <2>2, <2>3, <2>4 DEF ReaderStep
<1>6. CASE PeerAnswers \/ PeerFallsSilent \/ KeysAge
  BY <1>1, <1>6 DEF PeerAnswers, PeerFallsSilent, KeysAge, Aside, keyVars, routeVars
<1>7. CASE CrashAtRest \/ CrashInstalling \/ CrashRemoving
  <2>1. fSendCounter' = 0 /\ sent' = {} /\ window' = {} /\ taken' = {}
    BY <1>7 DEF CrashAtRest, CrashInstalling, CrashRemoving, MemoryLost
  <2>2. BackupIsUsers'
    <3>1. CASE CrashAtRest
      BY <3>1 DEF CrashAtRest, BackupIsUsers
    <3>2. CASE CrashInstalling
      BY <3>2 DEF CrashInstalling, BackupIsUsers
    <3>3. CASE CrashRemoving
      BY <3>3, RestoreKeeps DEF CrashRemoving
    <3> QED
      BY <1>7, <3>1, <3>2, <3>3
  <2> QED
    BY <2>1, <2>2, CountersAnew
<1>8. CASE RecoverIfCrashed
  <2>1. RestoreDns /\ UNCHANGED <<fSendCounter, sent, window, taken>>
    BY <1>8 DEF RecoverIfCrashed, keyVars
  <2> QED
    BY <2>1, RestoreKeeps, CountersAside
<1>9. CASE UNCHANGED vars
  BY <1>1, <1>9 DEF vars, Aside, keyVars, routeVars
<1> QED
  BY <1>2, <1>3, <1>4, <1>5, <1>6, <1>7, <1>8, <1>9 DEF Next

\* The invariant holds in every reachable state of the backend.
THEOREM WireGuardInvariant == Spec => []IInv
<1>1. Init => IInv
  BY DEF Init, IInv, CountersBehind, ReplaysRefused, BackupIsUsers
<1> QED
  BY <1>1, InvariantStep, PTL DEF Spec

\* For any constants: _Encapsulate never repeats a nonce under one key.
THEOREM NoncesNeverRepeat == Spec => []NonceFresh
<1>1. IInv => NonceFresh
  BY DEF IInv, CountersBehind, NonceFresh
<1> QED
  BY <1>1, WireGuardInvariant, PTL

\* For any constants: a counter taken under the present keys stays refused.
THEOREM ReplaysStayRefused == Spec => []ReplaysRefused
<1>1. IInv => ReplaysRefused
  BY DEF IInv
<1> QED
  BY <1>1, WireGuardInvariant, PTL

\* For any constants: the user's resolv.conf survives every session and crash.
THEOREM ResolverSurvives == Spec => []ResolverKept
<1>1. IInv => ResolverKept
  BY DEF IInv, BackupIsUsers, ResolverKept
<1> QED
  BY <1>1, WireGuardInvariant, PTL

-----------------------------------------------------------------------------
(***************************************************************************)
(* The routing table.  RoutesRestored is inductive only together with what *)
(* the table is while routes are installed, and with the facts that make   *)
(* the session's own routes new to it: their interface is that of the      *)
(* latest session, which nothing this daemon found goes through.           *)
(***************************************************************************)
AnyRoute == [to : {"default", "subnet", "endpoint"}, via : Nat]

DefaultsOf(table) == {r \in table : r.to = "default"}

TableOK ==
    /\ session \in Nat
    /\ kernel \subseteq AnyRoute /\ found \subseteq AnyRoute
    /\ \A r \in kernel \cup found : r.via <= session
    /\ fConfig.routes \subseteq {"default", "subnet"}

SessionIsNew == \A r \in found : r.via < session

\* The lives of daemon, reader and routes.
LivesOK ==
    /\ fRoutesInstalled => fState = "CONNECTED" /\ alive
    /\ ~alive => reader = "none" /\ inbox = <<>>
    /\ (fRoutesInstalled \/ reader # "none" \/ inbox # <<>>) => SessionIsNew

\* What the table is while routes are installed.
SteeredOK ==
    fRoutesInstalled =>
        /\ kernel \subseteq found \cup OwnRoutes \cup Pin(fOrigGateway)
        /\ DefaultsOf(found)
             \subseteq kernel \cup (IF fReplacedDefault THEN Default(fOrigGateway) ELSE {})
        /\ fReplacedDefault => Default(fOrigGateway) \subseteq found

RInv == TableOK /\ LivesOK /\ SteeredOK /\ RoutesRestored

tableVars == <<kernel, found, session, fConfig, fRoutesInstalled, fReplacedDefault,
               fOrigGateway, alive>>

\* Routes made of a gateway of the table are routes of the table's kind.
LEMMA MadeRoutes ==
  ASSUME TableOK
  PROVE  /\ OwnRoutes \subseteq AnyRoute /\ \A r \in OwnRoutes : r.via = session
         /\ \A r \in OwnRoutes : r.to # "endpoint"
         /\ \A g \in Gateways :
              /\ Pin(g) \subseteq AnyRoute /\ Default(g) \subseteq kernel
              /\ \A r \in Pin(g) : r.via <= session /\ r.to = "endpoint"
<1>1. OwnRoutes \subseteq AnyRoute /\ (\A r \in OwnRoutes : r.via = session)
      /\ \A r \in OwnRoutes : r.to # "endpoint"
  BY DEF TableOK, OwnRoutes, AnyRoute
<1>2. ASSUME NEW g \in Gateways
      PROVE  /\ Pin(g) \subseteq AnyRoute /\ Default(g) \subseteq kernel
             /\ \A r \in Pin(g) : r.via <= session /\ r.to = "endpoint"
  <2>1. CASE g = NoGateway
    BY <2>1 DEF Pin, Default
  <2>2. CASE g # NoGateway
    <3>1. PICK r \in kernel : r.to = "default" /\ r.via = g
      BY <2>2 DEF Gateways
    <3>2. r = [to |-> "default", via |-> g] /\ g \in Nat /\ g <= session
      BY <3>1 DEF TableOK, AnyRoute
    <3> QED
      BY <3>1, <3>2 DEF Pin, Default, AnyRoute
  <2> QED
    BY <2>1, <2>2
<1> QED
  BY <1>1, <1>2

\* _InstallRoutes steers what it takes away, and adds nothing that was found.
LEMMA InstallSteers ==
  ASSUME RInv, InstallRoutes, alive, inbox # <<>>, inbox' = Tail(inbox), fState' = "CONNECTED",
         UNCHANGED <<found, session, fConfig, alive, reader>>
  PROVE  RInv'
<1>1. CASE fRoutesInstalled \/ UNCHANGED routeVars
  <2>1. UNCHANGED routeVars
    BY <1>1 DEF InstallRoutes
  <2>2. UNCHANGED <<kernel, found, session, fConfig, fRoutesInstalled, fReplacedDefault,
                    fOrigGateway, alive, reader>>
    BY <2>1 DEF routeVars
  <2>3. TableOK'
    BY <2>2 DEF RInv, TableOK
  <2>4. SteeredOK' /\ RoutesRestored'
    BY <2>2 DEF RInv, SteeredOK, RoutesRestored, DefaultsOf, OwnRoutes, Pin, Default
  <2>5. LivesOK'
    BY <2>2 DEF RInv, LivesOK, SessionIsNew
  <2> QED
    BY <2>3, <2>4, <2>5 DEF RInv
<1>2. CASE ~fRoutesInstalled /\ ~UNCHANGED routeVars
  <2>1. PICK g \in Gateways :
          /\ fOrigGateway' = g
          /\ fReplacedDefault' = (FullTunnel /\ g # NoGateway)
          /\ IF FullTunnel /\ g = NoGateway
             THEN UNCHANGED <<fRoutesInstalled, kernel, resolv, backup>>
             ELSE kernel' = Steered(g) /\ fRoutesInstalled' = TRUE
    BY <1>2 DEF InstallRoutes
  <2>2. SessionIsNew /\ SessionIsNew'
    BY DEF RInv, LivesOK, SessionIsNew
  <2>3. CASE FullTunnel /\ g = NoGateway
    <3>1. UNCHANGED <<kernel, found, session, fConfig, fRoutesInstalled, alive, reader>>
      BY <2>1, <2>3
    <3>2. TableOK'
      BY <3>1 DEF RInv, TableOK
    <3>3. SteeredOK' /\ RoutesRestored'
      BY <3>1, <1>2 DEF RInv, SteeredOK, RoutesRestored
    <3>4. LivesOK'
      BY <3>1, <1>2, <2>2 DEF RInv, LivesOK
    <3> QED
      BY <3>2, <3>3, <3>4 DEF RInv
  <2>4. CASE ~(FullTunnel /\ g = NoGateway)
    <3>1. kernel' = Steered(g) /\ fRoutesInstalled' = TRUE
      BY <2>1, <2>4
    <3>2. kernel \subseteq found /\ DefaultsOf(found) \subseteq kernel
      BY <1>2 DEF RInv, RoutesRestored, DefaultsOf
    <3>3. TableOK'
      <4>1. \A r \in kernel' : r \in kernel \/ r \in Pin(g) \/ r \in OwnRoutes
        BY <3>1 DEF Steered
      <4>2. TableOK
        BY DEF RInv
      <4> QED
        BY <4>1, <4>2, MadeRoutes DEF TableOK
    <3>4. LivesOK'
      BY <2>2 DEF RInv, LivesOK
    <3>5. OwnRoutes' = OwnRoutes /\ Pin(fOrigGateway)' = Pin(g)
          /\ Default(fOrigGateway)' = Default(g) /\ DefaultsOf(found)' = DefaultsOf(found)
      BY <2>1 DEF OwnRoutes, Pin, Default, DefaultsOf
    <3>6. kernel' \subseteq found' \cup OwnRoutes' \cup Pin(fOrigGateway)'
      BY <3>1, <3>2, <3>5 DEF Steered
    <3>7. Default(g) \subseteq found
      BY <3>2, MadeRoutes DEF RInv
    <3>8. DefaultsOf(found)
             \subseteq kernel' \cup (IF fReplacedDefault' THEN Default(g) ELSE {})
      <4>1. CASE FullTunnel
        BY <4>1, <2>1, <2>4, <3>1, <3>2 DEF Steered
      <4>2. CASE ~FullTunnel
        BY <4>2, <3>1, <3>2 DEF Steered
      <4> QED
        BY <4>1, <4>2
    <3>9. SteeredOK'
      BY <3>5, <3>6, <3>7, <3>8 DEF SteeredOK
    <3>10. RoutesRestored'
      BY <3>1 DEF RoutesRestored
    <3> QED
      BY <3>3, <3>4, <3>9, <3>10 DEF RInv
  <2> QED
    BY <2>3, <2>4
<1> QED
  BY <1>1, <1>2

\* _Cleanup gives back the table that was found.
LEMMA CleanupRestores ==
  ASSUME RInv, Cleanup, alive, UNCHANGED <<found, session, alive>>,
         fConfig' = fConfig \/ (~fRoutesInstalled /\ fConfig'.routes \subseteq {"default", "subnet"}),
         inbox' = inbox \/ (inbox # <<>> /\ inbox' = Tail(inbox))
  PROVE  RInv'
<1>1. CASE ~fRoutesInstalled
  <2>1. UNCHANGED <<kernel, fRoutesInstalled>> /\ reader' = "none"
    BY <1>1 DEF Cleanup, RemoveRoutes, routeVars
  <2>2. TableOK'
    BY <2>1 DEF RInv, TableOK
  <2>3. SteeredOK' /\ RoutesRestored'
    BY <1>1, <2>1 DEF RInv, SteeredOK, RoutesRestored
  <2>4. LivesOK'
    BY <1>1, <2>1 DEF RInv, LivesOK, SessionIsNew
  <2> QED
    BY <2>2, <2>3, <2>4 DEF RInv
<1>2. CASE fRoutesInstalled
  <2>1. /\ kernel' = ((kernel \ OwnRoutes)
                          \cup (IF fReplacedDefault THEN Default(fOrigGateway) ELSE {}))
                      \ Pin(fOrigGateway)
        /\ fRoutesInstalled' = FALSE /\ fConfig' = fConfig /\ reader' = "none"
    BY <1>2 DEF Cleanup, RemoveRoutes
  <2>2. SteeredOK /\ TableOK /\ SessionIsNew
    BY <1>2 DEF RInv, LivesOK
  <2>3. kernel' \subseteq found
    BY <1>2, <2>1, <2>2 DEF SteeredOK
  <2>4. \A r \in DefaultsOf(found) : r \notin OwnRoutes /\ r \notin Pin(fOrigGateway)
    <3>1. TAKE r \in DefaultsOf(found)
    <3>2. r.via < session /\ r.to = "default" /\ r.via \in Nat /\ session \in Nat
      BY <2>2 DEF SessionIsNew, DefaultsOf, TableOK, AnyRoute
    <3>3. \A q \in OwnRoutes : q.via = session
      BY <2>2, MadeRoutes
    <3>4. \A q \in Pin(fOrigGateway) : q.to = "endpoint"
      BY DEF Pin
    <3> QED
      BY <3>2, <3>3, <3>4
  <2>5. DefaultsOf(found) \subseteq kernel'
    BY <1>2, <2>1, <2>2, <2>4 DEF SteeredOK
  <2>6. TableOK'
    BY <2>1, <2>2, <2>3 DEF TableOK
  <2>7. RoutesRestored'
    BY <2>3, <2>5 DEF RoutesRestored, DefaultsOf
  <2>8. SteeredOK'
    BY <2>1 DEF SteeredOK
  <2>9. LivesOK'
    BY <2>1, <2>2 DEF RInv, LivesOK, SessionIsNew
  <2> QED
    BY <2>6, <2>7, <2>8, <2>9 DEF RInv
<1> QED
  BY <1>1, <1>2

\* The reader, peer and clock leave the table alone.
LEMMA TableAside ==
  ASSUME RInv, UNCHANGED tableVars, fState' = fState,
         (reader' # "none" \/ inbox' # <<>>) => (reader # "none" \/ inbox # <<>>)
  PROVE  RInv'
<1>1. TableOK'
  BY DEF RInv, TableOK, tableVars
<1>2. SteeredOK' /\ RoutesRestored'
  BY DEF RInv, SteeredOK, RoutesRestored, DefaultsOf, OwnRoutes, Pin, Default, tableVars
<1>3. LivesOK'
  BY DEF RInv, LivesOK, SessionIsNew, tableVars
<1> QED
  BY <1>1, <1>2, <1>3 DEF RInv

\* A crash leaves a table of the same kind, whatever command it comes between.
LEMMA CrashLeaves ==
  ASSUME RInv, MemoryLost, kernel' \subseteq AnyRoute, \A r \in kernel' : r.via <= session
  PROVE  RInv'
<1>1. /\ UNCHANGED <<found, session>> /\ fConfig'.routes = {} /\ fRoutesInstalled' = FALSE
      /\ alive' = FALSE /\ reader' = "none" /\ inbox' = <<>>
  BY DEF MemoryLost, NoConfig
<1>2. TableOK'
  BY <1>1 DEF RInv, TableOK
<1>3. LivesOK' /\ SteeredOK' /\ RoutesRestored'
  BY <1>1 DEF LivesOK, SteeredOK, RoutesRestored
<1> QED
  BY <1>2, <1>3 DEF RInv

\* The three places of a crash.
LEMMA CrashStep == RInv /\ (CrashAtRest \/ CrashInstalling \/ CrashRemoving) => RInv'
<1> SUFFICES ASSUME RInv, CrashAtRest \/ CrashInstalling \/ CrashRemoving PROVE RInv'
  OBVIOUS
<1>0. TableOK
  BY DEF RInv
<1>1. CASE CrashAtRest
  BY <1>1, <1>0, CrashLeaves DEF CrashAtRest, TableOK
<1>2. CASE CrashInstalling
  <2>1. PICK g \in Gateways :
          kernel' \in {kernel \cup Pin(g), (kernel \cup Pin(g)) \ Default(g), Steered(g)}
    BY <1>2 DEF CrashInstalling
  <2>2. \A r \in kernel' : r \in kernel \/ r \in Pin(g) \/ r \in OwnRoutes
    BY <2>1 DEF Steered
  <2>3. kernel' \subseteq AnyRoute /\ \A r \in kernel' : r.via <= session
    BY <2>2, <1>0, MadeRoutes DEF TableOK
  <2>4. MemoryLost
    BY <1>2 DEF CrashInstalling
  <2> QED
    BY <2>3, <2>4, CrashLeaves
<1>3. CASE CrashRemoving
  <2>1. fRoutesInstalled /\ MemoryLost
        /\ \/ kernel' = kernel \ OwnRoutes
           \/ fReplacedDefault /\ kernel' = (kernel \ OwnRoutes) \cup Default(fOrigGateway)
    BY <1>3 DEF CrashRemoving
  <2>2. fReplacedDefault => Default(fOrigGateway) \subseteq found
    BY <2>1 DEF RInv, SteeredOK
  <2>3. kernel' \subseteq kernel \cup found
    BY <2>1, <2>2
  <2> QED
    BY <2>1, <2>3, <1>0, CrashLeaves DEF TableOK
<1> QED
  BY <1>1, <1>2, <1>3

\* Configurations name default and subnet routes only.
LEMMA ConfigRoutes == \A c \in Config : c.routes \subseteq {"default", "subnet"}
  BY WireGuardAssumption DEF Config, NoConfig

\* Every step keeps RInv.
LEMMA RoutesStep == RInv /\ [Next]_vars => RInv'
<1> SUFFICES ASSUME RInv, [Next]_vars PROVE RInv'
  OBVIOUS
<1>1. CASE Connect
  <2>0. alive /\ ~fRoutesInstalled /\ UNCHANGED <<found, alive>>
        /\ fConfig'.routes \subseteq {"default", "subnet"}
    BY <1>1, ConfigRoutes
       DEF Connect, ConnectBadConfig, ConnectFails, ConnectStarts, Connectable, DownStates,
           RInv, LivesOK, lifeVars, Config
  <2>1. CASE ConnectBadConfig
    <3>1. UNCHANGED <<kernel, found, session, fRoutesInstalled, alive, reader, inbox>>
      BY <2>1 DEF ConnectBadConfig, routeVars, lifeVars
    <3>2. TableOK'
      BY <3>1, <2>0 DEF RInv, TableOK
    <3>3. SteeredOK' /\ RoutesRestored'
      BY <3>1, <2>0 DEF RInv, SteeredOK, RoutesRestored
    <3>4. LivesOK'
      BY <3>1, <2>0 DEF RInv, LivesOK, SessionIsNew
    <3> QED
      BY <3>2, <3>3, <3>4 DEF RInv
  <2>2. CASE ConnectFails
    <3>1. Cleanup /\ UNCHANGED <<found, session, alive, inbox>>
      BY <2>2 DEF ConnectFails, lifeVars
    <3> QED
      BY <3>1, <2>0, CleanupRestores
  <2>3. CASE ConnectStarts
    <3>1. session' = session + 1 /\ UNCHANGED <<kernel, found, fRoutesInstalled, alive, inbox>>
      BY <2>3 DEF ConnectStarts, routeVars
    <3>2. TableOK
      BY DEF RInv
    <3>3. TableOK' /\ SessionIsNew'
      BY <3>1, <3>2, <2>0 DEF TableOK, SessionIsNew, AnyRoute
    <3>4. SteeredOK' /\ RoutesRestored'
      BY <3>1, <2>0 DEF RInv, SteeredOK, RoutesRestored
    <3>5. LivesOK'
      BY <3>1, <3>3, <2>0 DEF LivesOK
    <3> QED
      BY <3>3, <3>4, <3>5 DEF RInv
  <2> QED
    BY <1>1, <2>1, <2>2, <2>3 DEF Connect
<1>2. CASE Disconnect
  <2>1. CASE DisconnectAsks
    BY <2>1, TableAside DEF DisconnectAsks, tableVars, routeVars, lifeVars
  <2>2. CASE DisconnectAtOnce
    BY <2>2, CleanupRestores DEF DisconnectAtOnce, lifeVars
  <2> QED
    BY <1>2, <2>1, <2>2 DEF Disconnect
<1>3. CASE HandleMessage
  <2>1. CASE HandleConnected
    BY <2>1, InstallSteers DEF HandleConnected, Handles, SetState, lifeVars
  <2>2. CASE HandleReaderExited
    BY <2>2, CleanupRestores DEF HandleReaderExited, Handles, lifeVars
  <2> QED
    BY <1>3, <2>1, <2>2 DEF HandleMessage
<1>4. CASE ReaderStep
  <2>1. UNCHANGED tableVars /\ fState' = fState
    BY <1>4 DEF ReaderStep, Attempt, GiveUp, HandshakeSucceeds, HandshakeFails, AttemptFails,
                RekeyFails, SendPacket, ReceivePacket, DropResponse, Rekey, TransportStops,
                SelectFails, routeVars, lifeVars, stateVars, tableVars
  <2>2. reader # "none"
    BY <1>4 DEF ReaderStep, Attempt, GiveUp, HandshakeSucceeds, HandshakeFails, AttemptFails,
                RekeyFails, SendPacket, ReceivePacket, DropResponse, Rekey, TransportStops,
                SelectFails
  <2> QED
    BY <2>1, <2>2, TableAside
<1>5. CASE PeerAnswers \/ PeerFallsSilent \/ KeysAge
  BY <1>5, TableAside DEF PeerAnswers, PeerFallsSilent, KeysAge, tableVars, routeVars, lifeVars,
                          stateVars
<1>6. CASE CrashAtRest \/ CrashInstalling \/ CrashRemoving
  BY <1>6, CrashStep
<1>7. CASE RecoverIfCrashed
  <2>1. /\ ~alive /\ found' = kernel
        /\ UNCHANGED <<kernel, session, fConfig, fRoutesInstalled, reader, inbox>>
    BY <1>7 DEF RecoverIfCrashed
  <2>2. ~fRoutesInstalled /\ reader = "none" /\ inbox = <<>>
    BY <2>1 DEF RInv, LivesOK
  <2>3. TableOK'
    BY <2>1 DEF RInv, TableOK
  <2>4. LivesOK' /\ SteeredOK' /\ RoutesRestored'
    BY <2>1, <2>2 DEF LivesOK, SteeredOK, RoutesRestored
  <2> QED
    BY <2>3, <2>4 DEF RInv
<1>8. CASE UNCHANGED vars
  BY <1>8, TableAside DEF vars, tableVars, routeVars, lifeVars, stateVars
<1> QED
  BY <1>1, <1>2, <1>3, <1>4, <1>5, <1>6, <1>7, <1>8 DEF Next

\* For any constants: with no session's routes installed the daemon has the
\* default routes it found, and nothing else that it did not find.
THEOREM TableGivenBack == Spec => []RoutesRestored
<1>1. Init => RInv
  <2> SUFFICES ASSUME Init PROVE RInv
    OBVIOUS
  <2>1. TableOK
    BY DEF Init, TableOK, AnyRoute, CarrierRoute, Carrier, NoConfig
  <2>2. LivesOK /\ SteeredOK /\ RoutesRestored
    BY DEF Init, LivesOK, SteeredOK, RoutesRestored
  <2> QED
    BY <2>1, <2>2 DEF RInv
<1>2. RInv => RoutesRestored
  BY DEF RInv
<1> QED
  BY <1>1, <1>2, RoutesStep, PTL DEF Spec

\* For any constants: a key is used safely in both directions, whatever
\* handshakes fail while it lives.
THEOREM KeyUseIsSafe == Spec => []KeyUseSafe
<1>1. KeyUseSafe <=> NonceFresh /\ ReplaysRefused
  BY DEF KeyUseSafe
<1> QED BY <1>1, NoncesNeverRepeat, ReplaysStayRefused, PTL

-----------------------------------------------------------------------------
(***************************************************************************)
(* Types.                                                                  *)
(***************************************************************************)
\* The parts of TypeOK, by who writes them.
LifeType ==
    /\ fState \in {"DISCONNECTED", "CONNECTING", "CONNECTED", "ERROR"}
    /\ fStopRequested \in BOOLEAN /\ fConfig \in Config /\ peerUp \in BOOLEAN
    /\ session \in 0..MaxSessions /\ alive \in BOOLEAN /\ crashes \in 0..MaxCrashes

LoopType ==
    /\ reader \in {"none", "attempt", "waiting", "transport", "rekey", "lastRekey", "ended"}
    /\ tries \in 0..HandshakeAttempts /\ age \in {"fresh", "rekey", "expired"}
    /\ answer \in {"unasked", "asked", "good", "damaged"} /\ late \in 0..MaxLate
    /\ inbox \in Seq({"CONNECTED", "EXITED", "FAILED"})

KeyType ==
    /\ fSendCounter \in 0..MaxCounter
    /\ fReceiverIndex \in {"none", "keys", "other"}
    /\ window \subseteq 0..MaxCounter /\ sent \subseteq 0..MaxCounter
    /\ taken \subseteq 0..MaxCounter

RouteType ==
    /\ fRoutesInstalled \in BOOLEAN /\ fReplacedDefault \in BOOLEAN
    /\ fOrigGateway \in 0..NoGateway
    /\ kernel \subseteq Route /\ found \subseteq Route
    /\ resolv \in {"user", "tunnel", "absent"}
    /\ backup \in {"user", "tunnel", "absent", "none"}

\* The bounds are numbers.
LEMMA Bounds ==
    /\ MaxSessions \in Nat /\ MaxCounter \in Nat /\ MaxLate \in Nat /\ MaxCrashes \in Nat
    /\ HandshakeAttempts \in Nat
  BY WireGuardAssumption

\* Calls, messages and crashes keep the fields of the session typed.
LEMMA LifeTypes == LifeType /\ [Next]_vars => LifeType'
<1> SUFFICES ASSUME LifeType, [Next]_vars PROVE LifeType'
  OBVIOUS
<1> USE Bounds DEF LifeType
<1>1. CASE Connect
  <2>1. fConfig' \in Config
    BY <1>1 DEF Connect, ConnectBadConfig, ConnectFails, ConnectStarts, Config
  <2>2. CASE ConnectBadConfig
    <3>1. fStopRequested' \in BOOLEAN
      BY <2>2, Zenon DEF ConnectBadConfig
    <3> QED
      BY <2>1, <2>2, <3>1 DEF ConnectBadConfig, SetState, peerVars, lifeVars
  <2>3. CASE ConnectFails
    BY <2>1, <2>3 DEF ConnectFails, Cleanup, lifeVars
  <2>4. CASE ConnectStarts
    <3>1. /\ session < MaxSessions /\ session' = session + 1
          /\ fState' = "CONNECTING" /\ fStopRequested' = FALSE
          /\ UNCHANGED <<peerUp, alive, crashes>>
      BY <2>4 DEF ConnectStarts, SetState, peerVars
    <3>2. session' \in 0..MaxSessions
      BY <3>1
    <3> QED
      BY <2>1, <3>1, <3>2, Zenon
  <2> QED
    BY <1>1, <2>2, <2>3, <2>4 DEF Connect
<1>2. CASE Disconnect \/ HandleMessage
  BY <1>2 DEF Disconnect, DisconnectAsks, DisconnectAtOnce, HandleMessage, HandleConnected,
              HandleReaderExited, Cleanup, SetState, ExitState, peerVars, lifeVars
<1>3. CASE ReaderStep
  BY <1>3 DEF ReaderStep, Attempt, GiveUp, HandshakeSucceeds, HandshakeFails, AttemptFails,
              RekeyFails, SendPacket, ReceivePacket, DropResponse, Rekey, TransportStops,
              SelectFails, stateVars, peerVars, lifeVars
<1>4. CASE PeerAnswers \/ PeerFallsSilent \/ KeysAge
  BY <1>4 DEF PeerAnswers, PeerFallsSilent, KeysAge, stateVars, peerVars, lifeVars
<1>5. CASE CrashAtRest \/ CrashInstalling \/ CrashRemoving
  <2>1. MemoryLost
    BY <1>5 DEF CrashAtRest, CrashInstalling, CrashRemoving
  <2>2. fConfig' \in Config
    BY <2>1 DEF MemoryLost, Config
  <2>3. /\ alive' = FALSE /\ crashes < MaxCrashes /\ crashes' = crashes + 1
        /\ fState' = "DISCONNECTED" /\ fStopRequested' = FALSE
        /\ UNCHANGED <<peerUp, session>>
    BY <2>1 DEF MemoryLost
  <2>4. crashes' \in 0..MaxCrashes
    BY <2>3
  <2> QED
    BY <2>2, <2>3, <2>4, Zenon
<1>7. CASE RecoverIfCrashed
  BY <1>7 DEF RecoverIfCrashed, stateVars, peerVars
<1>6. CASE UNCHANGED vars
  BY <1>6 DEF vars, stateVars, peerVars, lifeVars
<1> QED
  BY <1>1, <1>2, <1>3, <1>4, <1>5, <1>6, <1>7 DEF Next

\* The reader and the packets in flight keep to theirs, and the reader to its
\* attempts.
LEMMA LoopTypes == LoopType /\ [Next]_vars => LoopType'
<1> SUFFICES ASSUME LoopType, [Next]_vars PROVE LoopType'
  OBVIOUS
<1> USE Bounds DEF LoopType
<1>1. CASE Connect
  <2>1. /\ reader' \in {reader, "none", "attempt"} /\ tries' \in {tries, 0}
        /\ age' \in {age, "fresh"} /\ answer' \in {answer, "unasked"} /\ late' \in {late, 0}
        /\ inbox' = inbox
    BY <1>1 DEF Connect, ConnectBadConfig, ConnectFails, ConnectStarts, Cleanup, loopVars, peerVars
  <2> QED
    BY <2>1
<1>2. CASE Disconnect
  BY <1>2 DEF Disconnect, DisconnectAsks, DisconnectAtOnce, Cleanup, loopVars, peerVars
<1>3. CASE HandleMessage
  BY <1>3 DEF HandleMessage, HandleConnected, HandleReaderExited, Handles, Cleanup, loopVars,
              peerVars
<1>4. CASE Attempt \/ GiveUp \/ TransportStops \/ SelectFails
  <2>1. CASE Attempt
    BY <2>1 DEF Attempt, AttemptsLeft, Initiation, loopVars, peerVars
  <2>2. CASE GiveUp
    BY <2>2 DEF GiveUp, AttemptsLeft, Exits, loopVars, peerVars
  <2>3. CASE TransportStops
    BY <2>3 DEF TransportStops, Exits, loopVars, peerVars
  <2>4. CASE SelectFails
    BY <2>4 DEF SelectFails, Exits, loopVars, peerVars
  <2> QED BY <1>4, <2>1, <2>2, <2>3, <2>4
<1>5. CASE HandshakeSucceeds
  BY <1>5 DEF HandshakeSucceeds, NewKeys
<1>6. CASE HandshakeFails
  BY <1>6 DEF HandshakeFails, AttemptFails, RekeyFails, NoHandshake, KeepsOldKeys,
              AfterFailedRekey, Exits, loopVars
<1>7. CASE SendPacket \/ ReceivePacket \/ DropResponse \/ Rekey
  BY <1>7 DEF SendPacket, ReceivePacket, DropResponse, Rekey, Initiation, loopVars, peerVars
<1>8. CASE PeerAnswers \/ PeerFallsSilent \/ KeysAge
  BY <1>8 DEF PeerAnswers, PeerFallsSilent, KeysAge, loopVars, peerVars
<1>9. CASE CrashAtRest \/ CrashInstalling \/ CrashRemoving
  <2>1. reader' = "none" /\ tries' = 0 /\ age' = "fresh" /\ answer' = "unasked" /\ late' = 0
        /\ inbox' = <<>>
    BY <1>9 DEF CrashAtRest, CrashInstalling, CrashRemoving, MemoryLost
  <2> QED
    BY <2>1
<1>11. CASE RecoverIfCrashed
  BY <1>11 DEF RecoverIfCrashed, loopVars, peerVars
<1>10. CASE UNCHANGED vars
  BY <1>10 DEF vars, loopVars, peerVars
<1> QED
  BY <1>1, <1>2, <1>3, <1>4, <1>5, <1>6, <1>7, <1>8, <1>9, <1>10, <1>11 DEF Next, ReaderStep

\* Counters stay within their bound.
LEMMA KeyTypes == KeyType /\ [Next]_vars => KeyType'
<1> SUFFICES ASSUME KeyType, [Next]_vars PROVE KeyType'
  OBVIOUS
<1> USE Bounds DEF KeyType
<1>1. CASE UNCHANGED keyVars
  BY <1>1 DEF keyVars
<1>2. CASE SendPacket
  BY <1>2 DEF SendPacket
<1>3. CASE ReceivePacket
  BY <1>3 DEF ReceivePacket
<1>4. CASE HandshakeSucceeds
  BY <1>4 DEF HandshakeSucceeds, NewKeys
<1>5. CASE HandshakeFails
  BY <1>5 DEF HandshakeFails, AttemptFails, RekeyFails, NoHandshake, KeepsOldKeys
<1>6. CASE CrashAtRest \/ CrashInstalling \/ CrashRemoving
  BY <1>6 DEF CrashAtRest, CrashInstalling, CrashRemoving, MemoryLost
<1>7. CASE Connect \/ Disconnect \/ HandleMessage \/ Attempt \/ GiveUp \/ DropResponse \/ Rekey
           \/ TransportStops \/ SelectFails \/ PeerAnswers \/ PeerFallsSilent \/ RecoverIfCrashed
  BY <1>1, <1>7 DEF Connect, ConnectBadConfig, ConnectFails, ConnectStarts, Disconnect,
              DisconnectAsks, DisconnectAtOnce, HandleMessage, HandleConnected,
              HandleReaderExited, Attempt, GiveUp, DropResponse, Rekey, TransportStops,
              SelectFails, PeerAnswers, PeerFallsSilent, RecoverIfCrashed
<1>8. CASE KeysAge
  BY <1>8 DEF KeysAge
<1>9. CASE UNCHANGED vars
  BY <1>9, <1>1 DEF vars
<1> QED
  BY <1>2, <1>3, <1>4, <1>5, <1>6, <1>7, <1>8, <1>9 DEF Next, ReaderStep

\* Routes go over interfaces of sessions there were.
LEMMA RouteTypes == RouteType /\ LifeType /\ [Next]_vars => RouteType'
<1> SUFFICES ASSUME RouteType, LifeType, [Next]_vars PROVE RouteType'
  OBVIOUS
<1> USE Bounds DEF RouteType
<1>1. CASE UNCHANGED <<routeVars, found>>
  BY <1>1 DEF routeVars
<1>2. OwnRoutes \subseteq Route
  <2>1. fConfig.routes \subseteq {"default", "subnet"}
    BY WireGuardAssumption DEF LifeType, Config, NoConfig
  <2> QED
    BY <2>1 DEF LifeType, OwnRoutes, Route
<1>3. ASSUME NEW g \in 0..NoGateway PROVE Pin(g) \subseteq Route /\ Default(g) \subseteq Route
  BY DEF Pin, Default, Route, NoGateway
<1>4. Gateways \subseteq 0..NoGateway
  BY DEF Gateways, Route, NoGateway
<1>5. \A g \in Gateways : Steered(g) \subseteq Route
  BY <1>2, <1>3, <1>4 DEF Steered
<1>6. ASSUME RemoveRoutes, found' = found PROVE RouteType'
  <2>1. CASE ~fRoutesInstalled
    BY <1>1, <1>6, <2>1 DEF RemoveRoutes
  <2>2. CASE fRoutesInstalled
    <3>1. kernel' \subseteq Route
      BY <1>2, <1>3, <1>6, <2>2 DEF RemoveRoutes
    <3>2. resolv' \in {"user", "tunnel", "absent"} /\ backup' \in {"user", "tunnel", "absent", "none"}
      BY <1>6, <2>2 DEF RemoveRoutes, RestoreDns
    <3> QED
      BY <1>6, <2>2, <3>1, <3>2 DEF RemoveRoutes
  <2> QED
    BY <2>1, <2>2
<1>7. ASSUME InstallRoutes, found' = found PROVE RouteType'
  <2>1. CASE UNCHANGED routeVars
    BY <1>1, <1>7, <2>1
  <2>2. CASE ~UNCHANGED routeVars
    <3>1. PICK g \in Gateways :
            /\ fOrigGateway' = g
            /\ fReplacedDefault' = (FullTunnel /\ g # NoGateway)
            /\ IF FullTunnel /\ g = NoGateway
               THEN UNCHANGED <<fRoutesInstalled, kernel, resolv, backup>>
               ELSE /\ kernel' = Steered(g)
                    /\ IF fReplacedDefault' THEN ApplyDns ELSE UNCHANGED <<resolv, backup>>
                    /\ fRoutesInstalled' = TRUE
      BY <1>7, <2>2 DEF InstallRoutes
    <3>2. kernel' \subseteq Route
      BY <3>1, <1>5
    <3>3. resolv' \in {"user", "tunnel", "absent"} /\ backup' \in {"user", "tunnel", "absent", "none"}
      BY <3>1 DEF ApplyDns
    <3>4. fRoutesInstalled' \in BOOLEAN /\ fReplacedDefault' \in BOOLEAN
      BY <3>1
    <3> QED
      BY <1>4, <1>7, <3>1, <3>2, <3>3, <3>4
  <2> QED
    BY <2>1, <2>2
<1>8. CASE Connect \/ Disconnect \/ HandleMessage
  <2>1. found' = found /\ (RemoveRoutes \/ InstallRoutes \/ UNCHANGED routeVars)
    BY <1>8 DEF Connect, ConnectBadConfig, ConnectFails, ConnectStarts, Disconnect,
                DisconnectAsks, DisconnectAtOnce, HandleMessage, HandleConnected,
                HandleReaderExited, Cleanup, lifeVars
  <2> QED
    BY <1>1, <1>6, <1>7, <2>1
<1>9. CASE ReaderStep \/ PeerAnswers \/ PeerFallsSilent \/ KeysAge \/ UNCHANGED vars
  BY <1>1, <1>9 DEF ReaderStep, Attempt, GiveUp, HandshakeSucceeds, HandshakeFails, AttemptFails,
              RekeyFails, SendPacket, ReceivePacket, DropResponse, Rekey, TransportStops,
              SelectFails, PeerAnswers, PeerFallsSilent, KeysAge, lifeVars, vars
<1>10. CASE CrashAtRest \/ CrashInstalling \/ CrashRemoving
  <2>1. fRoutesInstalled' = FALSE /\ fReplacedDefault' = FALSE /\ fOrigGateway' = NoGateway
        /\ found' = found
    BY <1>10 DEF CrashAtRest, CrashInstalling, CrashRemoving, MemoryLost
  <2>2. kernel' \subseteq Route
    <3>1. CASE CrashAtRest
      BY <3>1 DEF CrashAtRest
    <3>2. CASE CrashInstalling
      BY <3>2, <1>3, <1>4, <1>5 DEF CrashInstalling
    <3>3. CASE CrashRemoving
      BY <3>3, <1>2, <1>3 DEF CrashRemoving
    <3> QED
      BY <1>10, <3>1, <3>2, <3>3
  <2>3. resolv' \in {"user", "tunnel", "absent"} /\ backup' \in {"user", "tunnel", "absent", "none"}
    BY <1>10 DEF CrashAtRest, CrashInstalling, CrashRemoving, RestoreDns
  <2>4. NoGateway \in 0..NoGateway
    BY DEF NoGateway
  <2> QED
    BY <2>1, <2>2, <2>3, <2>4, Zenon
<1>11. CASE RecoverIfCrashed
  <2>1. resolv' \in {"user", "tunnel", "absent"} /\ backup' \in {"user", "tunnel", "absent", "none"}
    BY <1>11 DEF RecoverIfCrashed, RestoreDns
  <2>2. found' = kernel /\ UNCHANGED <<fRoutesInstalled, fReplacedDefault, fOrigGateway, kernel>>
    BY <1>11, Zenon DEF RecoverIfCrashed
  <2> QED
    BY <2>1, <2>2
<1> QED
  BY <1>8, <1>9, <1>10, <1>11 DEF Next

\* For any constants: every field has its type, the reader never makes more than
\* HandshakeAttempts initiations of a first handshake (_RunReaderLoop), and no
\* route goes over an interface that was never there.
THEOREM TypeCorrect == Spec => []TypeOK
<1> DEFINE T == LifeType /\ LoopType /\ KeyType /\ RouteType
<1>1. Init => T
  <2> SUFFICES ASSUME Init PROVE T
    OBVIOUS
  <2>1. NoConfig \in Config /\ 0 \in 0..MaxSessions /\ 0 \in 0..MaxCrashes
    BY Bounds DEF Config
  <2>2. LifeType
    BY <2>1, Zenon DEF Init, LifeType
  <2>3. LoopType /\ KeyType
    BY Bounds DEF Init, LoopType, KeyType
  <2>4. CarrierRoute \in Route /\ NoGateway \in 0..NoGateway
    BY Bounds DEF Route, CarrierRoute, Carrier, NoGateway
  <2>5. RouteType
    BY <2>4 DEF Init, RouteType
  <2> QED
    BY <2>2, <2>3, <2>5
<1>2. T /\ [Next]_vars => T'
  BY LifeTypes, LoopTypes, KeyTypes, RouteTypes
<1>3. T => TypeOK
  BY DEF LifeType, LoopType, KeyType, RouteType, TypeOK
<1> QED
  BY <1>1, <1>2, <1>3, PTL DEF Spec
-----------------------------------------------------------------------------
(***************************************************************************)
(* The contract with the daemon.  The reader reports CONNECTED once and    *)
(* its end once, in this order, so where it is, what is queued and what is *)
(* shown determine one another.                                            *)
(***************************************************************************)
InTransport == {"transport", "rekey", "lastRekey"}

OneReader ==
    /\ reader \in {"none", "attempt", "waiting", "ended"} \cup InTransport
    /\ fStopRequested \in BOOLEAN
    /\ reader = "none" => inbox = <<>> /\ fState \in DownStates
    /\ reader \in {"attempt", "waiting"} => inbox = <<>> /\ fState = "CONNECTING"
    /\ reader \in InTransport =>
         \/ inbox = <<>> /\ fState = "CONNECTED"
         \/ inbox = <<"CONNECTED">> /\ fState = "CONNECTING"
    /\ reader = "ended" =>
         \/ inbox = <<"FAILED">> /\ fState = "CONNECTING"
         \/ /\ inbox = <<"EXITED">> /\ fState \in {"CONNECTING", "CONNECTED"}
            /\ fState = "CONNECTED" \/ fStopRequested
         \/ inbox = <<"CONNECTED", "EXITED">> /\ fState = "CONNECTING"

\* What queues of one and of two messages are when one is taken or added.
LEMMA ShortQueues ==
    ASSUME NEW m, NEW n
    PROVE  /\ Head(<<m>>) = m /\ Tail(<<m>>) = <<>> /\ Append(<<>>, m) = <<m>>
           /\ Head(<<m, n>>) = m /\ Tail(<<m, n>>) = <<n>>
           /\ Append(<<m>>, n) = <<m, n>>
           /\ <<m>> # <<>> /\ <<m, n>> # <<>>
<1>2. Head(<<m>>) = m /\ Head(<<m, n>>) = m
  OBVIOUS
<1>3. Tail(<<m>>) = <<>>
  OBVIOUS
<1>4. Tail(<<m, n>>) = <<n>>
  OBVIOUS
<1>5. Append(<<>>, m) = <<m>>
  OBVIOUS
<1>6. Append(<<m>>, n) = <<m, n>>
  <2> DEFINE p == Append(<<m>>, n)  q == <<m, n>>
  <2>1. p \in Seq({m, n}) /\ Len(p) = 2 /\ p[1] = m /\ p[2] = n
    OBVIOUS
  <2>2. q \in Seq({m, n}) /\ Len(q) = 2 /\ q[1] = m /\ q[2] = n
    OBVIOUS
  <2> HIDE DEF p, q
  <2>3. p = q
    BY <2>1, <2>2
  <2> QED
    BY <2>3 DEF p, q
<1> QED
  BY <1>2, <1>3, <1>4, <1>5, <1>6

\* A message is handled for a reader that has one queued.
LEMMA HandledMessages ==
    ASSUME OneReader, NEW m, Handles(m)
    PROVE  \/ /\ m = "FAILED" /\ inbox' = <<>> /\ reader = "ended" /\ fState = "CONNECTING"
           \/ /\ m = "EXITED" /\ inbox' = <<>> /\ reader = "ended"
              /\ fState \in {"CONNECTING", "CONNECTED"}
              /\ fState = "CONNECTED" \/ fStopRequested
           \/ /\ m = "CONNECTED" /\ inbox' = <<>> /\ reader \in InTransport
              /\ fState = "CONNECTING"
           \/ /\ m = "CONNECTED" /\ inbox' = <<"EXITED">> /\ reader = "ended"
              /\ fState = "CONNECTING"
<1>1. inbox # <<>> /\ m = Head(inbox) /\ inbox' = Tail(inbox)
  BY DEF Handles
<1>2. CASE reader \in InTransport
  <2>1. inbox = <<"CONNECTED">> /\ fState = "CONNECTING"
    BY <1>1, <1>2 DEF OneReader
  <2> QED
    BY <1>1, <1>2, <2>1, ShortQueues
<1>3. CASE reader = "ended"
  <2>1. CASE inbox = <<"FAILED">> /\ fState = "CONNECTING"
    BY <1>1, <1>3, <2>1, ShortQueues
  <2>2. CASE /\ inbox = <<"EXITED">> /\ fState \in {"CONNECTING", "CONNECTED"}
             /\ fState = "CONNECTED" \/ fStopRequested
    BY <1>1, <1>3, <2>2, ShortQueues
  <2>3. CASE inbox = <<"CONNECTED", "EXITED">> /\ fState = "CONNECTING"
    BY <1>1, <1>3, <2>3, ShortQueues
  <2> QED
    BY <1>3, <2>1, <2>2, <2>3 DEF OneReader
<1> QED
  BY <1>1, <1>2, <1>3 DEF OneReader

\* The looper's steps keep the reader, its queue and the state together.
LEMMA LooperOneReader ==
    ASSUME OneReader, Connect \/ Disconnect \/ HandleMessage PROVE OneReader'
<1>1. CASE ConnectBadConfig
  <2>1. reader = "none" /\ UNCHANGED <<reader, inbox>> /\ fState' = "ERROR"
    BY <1>1 DEF ConnectBadConfig, Connectable, DownStates, SetState, OneReader, InTransport
  <2>2. fStopRequested' \in BOOLEAN
    BY <1>1, Zenon DEF ConnectBadConfig, OneReader
  <2> QED
    BY <2>1, <2>2 DEF OneReader, DownStates, InTransport
<1>2. CASE ConnectFails
  <2>1. reader = "none" /\ reader' = "none" /\ inbox' = inbox /\ fState' = "ERROR"
        /\ fStopRequested' = TRUE
    BY <1>2 DEF ConnectFails, Cleanup, Connectable, DownStates, OneReader, InTransport
  <2> QED
    BY <2>1 DEF OneReader, DownStates, InTransport
<1>3. CASE ConnectStarts
  <2>1. reader = "none" /\ reader' = "attempt" /\ inbox' = inbox /\ fState' = "CONNECTING"
        /\ fStopRequested' = FALSE
    BY <1>3 DEF ConnectStarts, Connectable, DownStates, SetState, OneReader, InTransport
  <2> QED
    BY <2>1 DEF OneReader, InTransport
<1>4. CASE DisconnectAsks
  <2>1. UNCHANGED <<reader, inbox, fState>> /\ fStopRequested' = TRUE
    BY <1>4 DEF DisconnectAsks
  <2> QED
    BY <2>1 DEF OneReader
<1>5. CASE DisconnectAtOnce
  <2>1. reader = "none" /\ reader' = "none" /\ inbox' = inbox /\ fState' = "DISCONNECTED"
        /\ fStopRequested' = TRUE
    BY <1>5 DEF DisconnectAtOnce, Cleanup, SetState
  <2> QED
    BY <2>1 DEF OneReader, DownStates, InTransport
<1>6. CASE HandleConnected
  <2>1. Handles("CONNECTED") /\ fState' = "CONNECTED" /\ UNCHANGED <<fStopRequested, reader>>
    BY <1>6 DEF HandleConnected, SetState
  <2>2. \/ inbox' = <<>> /\ reader \in InTransport
        \/ inbox' = <<"EXITED">> /\ reader = "ended"
    BY <2>1, HandledMessages
  <2> QED
    BY <2>1, <2>2 DEF OneReader, InTransport
<1>7. CASE HandleReaderExited
  <2>1. PICK m \in {"EXITED", "FAILED"} : Handles(m) /\ Cleanup /\ SetState(ExitState(m))
    BY <1>7 DEF HandleReaderExited
  <2>2. inbox' = <<>> /\ reader' = "none" /\ fStopRequested' = TRUE /\ fState' \in DownStates
    BY <2>1, HandledMessages DEF Cleanup, SetState, ExitState, DownStates
  <2> QED
    BY <2>2 DEF OneReader, InTransport
<1> QED
  BY <1>1, <1>2, <1>3, <1>4, <1>5, <1>6, <1>7 DEF Connect, Disconnect, HandleMessage

\* So do the reader's: it announces itself once and ends once.
LEMMA ReaderOneReader == ASSUME OneReader, ReaderStep PROVE OneReader'
<1>0. UNCHANGED <<fState, fStopRequested>>
  BY DEF ReaderStep, Attempt, GiveUp, HandshakeSucceeds, HandshakeFails, AttemptFails,
         RekeyFails, SendPacket, ReceivePacket, DropResponse, Rekey, TransportStops,
         SelectFails, stateVars
<1>1. ASSUME reader \in {"attempt", "waiting"}, inbox' = inbox, reader' \in {"attempt", "waiting"}
      PROVE  OneReader'
  BY <1>0, <1>1 DEF OneReader, InTransport
<1>2. ASSUME reader \in InTransport, inbox' = inbox, reader' \in InTransport PROVE OneReader'
  BY <1>0, <1>2 DEF OneReader, InTransport
<1>3. ASSUME reader \in InTransport, Exits("EXITED") PROVE OneReader'
  <2>1. reader' = "ended" /\ inbox' = Append(inbox, "EXITED")
    BY <1>3 DEF Exits
  <2>2. \/ inbox = <<>> /\ fState = "CONNECTED"
        \/ inbox = <<"CONNECTED">> /\ fState = "CONNECTING"
    BY <1>3 DEF OneReader
  <2>3. \/ inbox' = <<"EXITED">> /\ fState = "CONNECTED"
        \/ inbox' = <<"CONNECTED", "EXITED">> /\ fState = "CONNECTING"
    BY <2>1, <2>2, ShortQueues
  <2> QED
    BY <1>0, <2>1, <2>3 DEF OneReader, InTransport
<1>4. CASE Attempt \/ AttemptFails
  BY <1>1, <1>4 DEF Attempt, AttemptFails
<1>5. CASE GiveUp
  <2>1. PICK m : m = (IF fStopRequested THEN "EXITED" ELSE "FAILED") /\ Exits(m)
    BY <1>5 DEF GiveUp
  <2>2. reader = "attempt" /\ reader' = "ended" /\ inbox' = <<m>> /\ fState = "CONNECTING"
    BY <1>5, <2>1, ShortQueues DEF GiveUp, Exits, OneReader
  <2> QED
    BY <1>0, <2>1, <2>2 DEF OneReader, InTransport
<1>6. CASE HandshakeSucceeds
  <2>1. CASE reader = "waiting"
    <3>1. reader' = "transport" /\ inbox' = <<"CONNECTED">> /\ fState = "CONNECTING"
      BY <1>6, <2>1, ShortQueues DEF HandshakeSucceeds, OneReader
    <3> QED
      BY <1>0, <3>1 DEF OneReader, InTransport
  <2>2. CASE reader # "waiting"
    BY <1>2, <1>6, <2>2 DEF HandshakeSucceeds, InTransport
  <2> QED
    BY <2>1, <2>2
<1>7. CASE RekeyFails
  BY <1>2, <1>3, <1>7 DEF RekeyFails, KeepsOldKeys, AfterFailedRekey, InTransport
<1>8. CASE SendPacket \/ ReceivePacket \/ DropResponse \/ Rekey
  BY <1>2, <1>8 DEF SendPacket, ReceivePacket, DropResponse, Rekey, InTransport
<1>9. CASE TransportStops \/ SelectFails
  BY <1>3, <1>9 DEF TransportStops, SelectFails, InTransport
<1> QED
  BY <1>4, <1>5, <1>6, <1>7, <1>8, <1>9 DEF ReaderStep, HandshakeFails

\* Every step keeps OneReader.
LEMMA OneReaderStep == OneReader /\ [Next]_vars => OneReader'
<1> SUFFICES ASSUME OneReader, [Next]_vars PROVE OneReader'
  OBVIOUS
<1>1. CASE PeerAnswers \/ PeerFallsSilent \/ KeysAge \/ RecoverIfCrashed \/ UNCHANGED vars
  <2>1. UNCHANGED <<reader, inbox, fState, fStopRequested>>
    BY <1>1 DEF PeerAnswers, PeerFallsSilent, KeysAge, RecoverIfCrashed, vars, stateVars
  <2> QED
    BY <2>1 DEF OneReader
<1>2. CASE CrashAtRest \/ CrashInstalling \/ CrashRemoving
  <2>1. reader' = "none" /\ inbox' = <<>> /\ fState' = "DISCONNECTED" /\ fStopRequested' = FALSE
    BY <1>2 DEF CrashAtRest, CrashInstalling, CrashRemoving, MemoryLost
  <2> QED
    BY <2>1 DEF OneReader, DownStates, InTransport
<1> QED
  BY <1>1, <1>2, LooperOneReader, ReaderOneReader DEF Next

\* A call of the daemon has the outcomes the contract names.
LEMMA CallsKeepContract ==
    ASSUME OneReader, Connect \/ Disconnect PROVE [Contract!Next]_<<Seen, posted>>
<1>1. CASE Connect
  <2>0. fState \in DownStates /\ reader = "none"
    BY <1>1 DEF Connect, ConnectBadConfig, ConnectFails, ConnectStarts, Connectable, DownStates,
                OneReader, InTransport
  <2>1. Seen = [state |-> fState, worker |-> "none", stop |-> fStopRequested]
    BY <2>0 DEF Seen
  <2> DEFINE bad == [Contract!SetState(Seen, "ERROR", "none") EXCEPT !.ok = FALSE]
             badKey == [Contract!SetState([Seen EXCEPT !.stop = FALSE], "ERROR", "none")
                          EXCEPT !.ok = FALSE]
  <2>2. Contract!ConnectOutcomes("WireGuard", Seen) =
          {Contract!Started, Contract!FailedLate("none", TRUE), bad, badKey}
    BY <2>0, <2>1 DEF Contract!ConnectOutcomes, Contract!WireGuardConnect, Contract!DownStates,
                      DownStates
  <2>3. CASE ConnectBadConfig
    <3>1. UNCHANGED reader /\ fState' = "ERROR" /\ posted' = <<"ERROR">>
      BY <2>3 DEF ConnectBadConfig, SetState
    <3>2. CASE fStopRequested' = fStopRequested
      <4>1. Seen' = [state |-> "ERROR", worker |-> "none", stop |-> fStopRequested]
        BY <2>0, <3>1, <3>2 DEF Seen
      <4>2. Contract!Takes(bad)
        BY <2>1, <3>1, <4>1 DEF Contract!Takes, Contract!SetState
      <4> QED
        BY <2>2, <4>2 DEF Contract!Connect, Contract!Next
    <3>3. CASE fStopRequested' = FALSE
      <4>1. Seen' = [state |-> "ERROR", worker |-> "none", stop |-> FALSE]
        BY <2>0, <3>1, <3>3 DEF Seen
      <4>2. Contract!Takes(badKey)
        BY <2>1, <3>1, <4>1 DEF Contract!Takes, Contract!SetState
      <4> QED
        BY <2>2, <4>2 DEF Contract!Connect, Contract!Next
    <3> QED
      BY <2>3, <3>2, <3>3 DEF ConnectBadConfig
  <2>4. CASE ConnectFails
    <3>1. /\ Seen' = [state |-> "ERROR", worker |-> "none", stop |-> TRUE]
          /\ posted' = <<"CONNECTING", "ERROR">>
      BY <2>4 DEF ConnectFails, Cleanup, Seen
    <3>2. Contract!Takes(Contract!FailedLate("none", TRUE))
      BY <3>1 DEF Contract!Takes, Contract!FailedLate
    <3> QED
      BY <2>2, <3>2 DEF Contract!Connect, Contract!Next
  <2>5. CASE ConnectStarts
    <3>1. /\ Seen' = [state |-> "CONNECTING", worker |-> "running", stop |-> FALSE]
          /\ posted' = <<"CONNECTING">>
      BY <2>5 DEF ConnectStarts, SetState, Seen
    <3>2. Contract!Takes(Contract!Started)
      BY <3>1 DEF Contract!Takes, Contract!Started
    <3> QED
      BY <2>2, <3>2 DEF Contract!Connect, Contract!Next
  <2> QED
    BY <1>1, <2>3, <2>4, <2>5 DEF Connect
<1>2. CASE DisconnectAsks
  <2>1. /\ Seen = [state |-> fState, worker |-> "running", stop |-> fStopRequested]
        /\ Seen' = [state |-> fState, worker |-> "running", stop |-> TRUE]
        /\ posted' = <<>> /\ fState # "DISCONNECTED"
    BY <1>2 DEF DisconnectAsks, Seen
  <2>2. Contract!Takes(Contract!StopAsked(Seen))
    BY <2>1 DEF Contract!Takes, Contract!StopAsked
  <2> QED
    BY <2>1, <2>2 DEF Contract!Disconnect, Contract!DisconnectOutcome, Contract!Next
<1>3. CASE DisconnectAtOnce
  <2>1. /\ Seen = [state |-> fState, worker |-> "none", stop |-> fStopRequested]
        /\ Seen' = [state |-> "DISCONNECTED", worker |-> "none", stop |-> TRUE]
        /\ posted' = <<"DISCONNECTED">> /\ fState # "DISCONNECTED"
    BY <1>3 DEF DisconnectAtOnce, Cleanup, SetState, Seen
  <2>2. Contract!Takes(Contract!StoppedAtOnce(Seen))
    BY <2>1 DEF Contract!Takes, Contract!StoppedAtOnce, Contract!SetState
  <2> QED
    BY <2>1, <2>2 DEF Contract!Disconnect, Contract!DisconnectOutcome, Contract!Next
<1> QED
  BY <1>1, <1>2, <1>3 DEF Disconnect

\* So has a message of the reader.
LEMMA MessagesKeepContract ==
    ASSUME OneReader, HandleMessage PROVE [Contract!Next]_<<Seen, posted>>
<1>1. CASE HandleConnected
  <2>1. Handles("CONNECTED") /\ fState' = "CONNECTED" /\ posted' = <<"CONNECTED">>
        /\ UNCHANGED <<fStopRequested, reader>>
    BY <1>1 DEF HandleConnected, SetState
  <2>2. fState = "CONNECTING" /\ reader # "none"
    BY <2>1, HandledMessages DEF InTransport
  <2>3. /\ Seen = [state |-> "CONNECTING", worker |-> "running", stop |-> fStopRequested]
        /\ Seen' = [state |-> "CONNECTED", worker |-> "running", stop |-> fStopRequested]
    BY <2>1, <2>2 DEF Seen
  <2>4. Contract!SetState(Seen, "CONNECTED", "running") \in Contract!WireGuardWorkerSteps(Seen)
    BY <2>3 DEF Contract!WireGuardWorkerSteps
  <2>5. Contract!Takes(Contract!SetState(Seen, "CONNECTED", "running"))
    BY <2>1, <2>3 DEF Contract!Takes, Contract!SetState
  <2> QED
    BY <2>4, <2>5 DEF Contract!Work, Contract!WorkerSteps, Contract!Next
<1>2. CASE HandleReaderExited
  <2>1. PICK m \in {"EXITED", "FAILED"} : Handles(m) /\ Cleanup /\ SetState(ExitState(m))
    BY <1>2 DEF HandleReaderExited
  <2>2. /\ reader = "ended"
        /\ m = "FAILED" => fState = "CONNECTING"
        /\ m = "EXITED" => fState = "CONNECTED" \/ fStopRequested
    BY <2>1, HandledMessages
  <2> DEFINE s == ExitState(m)
             cleaned == [Seen EXCEPT !.stop = TRUE]
  <2>3. /\ Seen = [state |-> fState, worker |-> "running", stop |-> fStopRequested]
        /\ Seen' = [state |-> s, worker |-> "none", stop |-> TRUE] /\ posted' = <<s>>
    BY <2>1, <2>2 DEF Cleanup, SetState, Seen
  <2>4. Contract!SetState(cleaned, s, "none") \in Contract!WireGuardWorkerSteps(Seen)
    BY <2>1, <2>2, <2>3 DEF Contract!WireGuardWorkerSteps, ExitState
  <2>5. Contract!Takes(Contract!SetState(cleaned, s, "none"))
    BY <2>3 DEF Contract!Takes, Contract!SetState
  <2> QED
    BY <2>4, <2>5 DEF Contract!Work, Contract!WorkerSteps, Contract!Next
<1> QED
  BY <1>1, <1>2 DEF HandleMessage

\* For any constants the backend implements the contract the daemon's model is
\* built on: every step is one of its calls, reports or restarts, or is not
\* seen by the daemon at all.
THEOREM KeepsContract == Spec => ImplementsContract
<1>1. Init => OneReader /\ Contract!Init
  <2> SUFFICES ASSUME Init PROVE OneReader /\ Contract!Init
    OBVIOUS
  <2>1. OneReader
    BY DEF Init, OneReader, DownStates, InTransport
  <2>2. Seen = [state |-> "DISCONNECTED", worker |-> "none", stop |-> FALSE]
    BY DEF Init, Seen
  <2> QED
    BY <2>1, <2>2 DEF Init, Contract!Init, Contract!IdleBackend
<1>2. OneReader /\ [Next]_vars => [Contract!Next]_<<Seen, posted>>
  <2> SUFFICES ASSUME OneReader, [Next]_vars PROVE [Contract!Next]_<<Seen, posted>>
    OBVIOUS
  <2>1. CASE CrashAtRest \/ CrashInstalling \/ CrashRemoving
    <3>1. Seen' = [state |-> "DISCONNECTED", worker |-> "none", stop |-> FALSE] /\ posted' = <<>>
      BY <2>1 DEF CrashAtRest, CrashInstalling, CrashRemoving, MemoryLost, Seen
    <3> QED
      BY <3>1 DEF Contract!Restart, Contract!IdleBackend, Contract!Next
  <2>2. CASE ReaderStep
    <3>1. UNCHANGED stateVars
      BY <2>2 DEF ReaderStep, Attempt, GiveUp, HandshakeSucceeds, HandshakeFails, AttemptFails,
                  RekeyFails, SendPacket, ReceivePacket, DropResponse, Rekey, TransportStops,
                  SelectFails
    <3>2. reader # "none" /\ reader' # "none"
      BY <2>2 DEF ReaderStep, Attempt, GiveUp, HandshakeSucceeds, HandshakeFails, AttemptFails,
                  RekeyFails, SendPacket, ReceivePacket, DropResponse, Rekey, TransportStops,
                  SelectFails, Exits, KeepsOldKeys, AfterFailedRekey
    <3> QED
      BY <3>1, <3>2 DEF stateVars, Seen
  <2>3. CASE PeerAnswers \/ PeerFallsSilent \/ KeysAge \/ RecoverIfCrashed \/ UNCHANGED vars
    <3>1. UNCHANGED <<stateVars, reader>>
      BY <2>3 DEF PeerAnswers, PeerFallsSilent, KeysAge, RecoverIfCrashed, vars
    <3> QED
      BY <3>1 DEF stateVars, Seen
  <2> QED
    BY <2>1, <2>2, <2>3, CallsKeepContract, MessagesKeepContract DEF Next
<1> QED
  BY <1>1, <1>2, OneReaderStep, PTL DEF Spec, ImplementsContract, Contract!Spec
=============================================================================
