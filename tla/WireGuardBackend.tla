-------------------------- MODULE WireGuardBackend --------------------------
(***************************************************************************)
(* The userspace WireGuard backend: bring-up, the handshake with its       *)
(* retries, the transport loop with its rekeying, routes, resolver file    *)
(* and clean-up.                                                           *)
(*                                                                         *)
(* The looper calls Connect and Disconnect and handles what the reader     *)
(* thread posts.  The reader blocks in _PerformHandshake, so a handshake   *)
(* is two steps of it, the initiation and what comes of it, and everyone   *)
(* else may act in between.  Keys are not represented: sent and taken are  *)
(* the counters that were used under the keys of the moment, and start     *)
(* empty with every new pair.  The replay window is the set of counters it *)
(* would refuse, which is what module ReplayWindow shows of the ring.      *)
(***************************************************************************)
EXTENDS Naturals, Sequences

CONSTANTS
    Configs,            \* the .conf files: their AllowedIPs, and whether a DNS server is given
    MaxSessions,        \* bound on the sessions of one run
    MaxCounter,         \* bound on the packets under one pair of keys
    MaxLate,            \* bound on the responses to earlier initiations in flight
    HandshakeAttempts,  \* kHandshakeAttempts
    MaxCrashes

ASSUME WireGuardAssumption ==
    /\ Configs \subseteq [routes : SUBSET {"default", "subnet"}, dns : BOOLEAN]
    /\ MaxSessions \in Nat /\ MaxCounter \in Nat /\ MaxLate \in Nat /\ MaxCrashes \in Nat
    /\ HandshakeAttempts \in Nat \ {0}

VARIABLES
    fState, fStopRequested,
    fConfig,
    fRoutesInstalled, fReplacedDefault, fOrigGateway,
    fSendCounter,
    fReceiverIndex,     \* whose session our packets are addressed to
    reader,             \* where the reader thread is; "none" when fReader is -1
    tries, age,         \* its local variables: initiations of the first handshake
                        \* so far, the age of the keys against the two timers
    window,             \* counters the replay window refuses
    sent, taken,        \* counters sent and taken under the present keys
    answer, late,       \* the response to the last initiation; older responses
    peerUp,             \* the peer still answers
    inbox,              \* what the reader posted to the looper
    kernel,             \* the routing table
    found,              \* the routing table this daemon found
    resolv, backup,     \* resolv.conf and the original moved aside
    session, alive, crashes,
    posted              \* states the last looper step reported

stateVars == <<fState, fStopRequested, posted>>
routeVars == <<fRoutesInstalled, fReplacedDefault, fOrigGateway, kernel, resolv, backup>>
keyVars == <<fSendCounter, fReceiverIndex, window, sent, taken>>
loopVars == <<tries, age>>
peerVars == <<answer, late, peerUp>>
lifeVars == <<found, session, alive, crashes>>
vars == <<stateVars, fConfig, routeVars, keyVars, reader, loopVars, peerVars, inbox, lifeVars>>

DownStates == {"DISCONNECTED", "ERROR"}

\* A gateway is the interface of a session, or the carrier's.
Carrier == 0
NoGateway == MaxSessions + 1
Route == [to : {"default", "subnet", "endpoint"}, via : 0..MaxSessions]
CarrierRoute == [to |-> "default", via |-> Carrier]

NoConfig == [routes |-> {}, dns |-> FALSE]
Config == Configs \cup {NoConfig}

Init ==
    /\ fState = "DISCONNECTED" /\ fStopRequested = FALSE /\ posted = <<>>
    /\ fConfig = NoConfig
    /\ fRoutesInstalled = FALSE /\ fReplacedDefault = FALSE /\ fOrigGateway = NoGateway
    /\ kernel = {CarrierRoute} /\ found = kernel
    /\ resolv = "user" /\ backup = "none"
    /\ fSendCounter = 0 /\ fReceiverIndex = "none" /\ age = "fresh"
    /\ window = {} /\ sent = {} /\ taken = {}
    /\ reader = "none" /\ tries = 0 /\ inbox = <<>>
    /\ answer = "unasked" /\ late = 0 /\ peerUp = TRUE
    /\ session = 0 /\ alive = TRUE /\ crashes = 0

SetState(s) == fState' = s /\ posted' = <<s>>

-----------------------------------------------------------------------------
(***************************************************************************)
(* Resolver and routes.                                                    *)
(***************************************************************************)
SavesOverBackup ==
    IF ~fConfig.dns THEN UNCHANGED <<resolv, backup>>
    ELSE resolv' \in {"tunnel", "absent"} /\ backup' = resolv

\* _ApplyDns: the original is moved aside unless a backup is left over from
\* before, then our own is written, or cannot be.  There is an original, and
\* moving it aside works: the code does not look at the result.
ApplyDns ==
    IF ~fConfig.dns THEN UNCHANGED <<resolv, backup>>
    ELSE IF backup = "none" THEN resolv' \in {"tunnel", "absent"} /\ backup' = resolv
    ELSE resolv' \in {"tunnel", resolv} /\ UNCHANGED backup

\* _RestoreDns; a rename that fails is not looked at.
RestoreDns ==
    \/ backup # "none" /\ resolv' = backup /\ backup' = "none"
    \/ UNCHANGED <<resolv, backup>>

\* The session's own routes, and the pin that keeps its packets off them.
OwnRoutes == {[to |-> r, via |-> session] : r \in fConfig.routes}
Pin(g) == {[to |-> "endpoint", via |-> v] : v \in {g} \ {NoGateway}}
Default(g) == {[to |-> "default", via |-> v] : v \in {g} \ {NoGateway}}

\* TunDevice::DefaultGateway: some default route of the table, if route(1)
\* runs and prints one.
Gateways == {r.via : r \in {r \in kernel : r.to = "default"}} \cup {NoGateway}

FullTunnel == "default" \in fConfig.routes

\* What _InstallRoutes makes of the table through gateway g.
Steered(g) ==
    ((kernel \cup Pin(g)) \ (IF FullTunnel THEN Default(g) ELSE {})) \cup OwnRoutes

InstallRecordsFullTunnelOnly ==
    IF fRoutesInstalled \/ fConfig.routes = {}
    THEN UNCHANGED routeVars
    ELSE \E g \in Gateways :
           /\ fOrigGateway' = g
           /\ fReplacedDefault' = (FullTunnel /\ g # NoGateway)
           /\ IF FullTunnel /\ g = NoGateway
              THEN UNCHANGED <<fRoutesInstalled, kernel, resolv, backup>>
              ELSE /\ kernel' = Steered(g)
                   /\ IF fReplacedDefault' THEN ApplyDns ELSE UNCHANGED <<resolv, backup>>
                   /\ fRoutesInstalled' = FullTunnel

\* _InstallRoutes: a full tunnel is refused when the carrier's gateway is not
\* known; a split one is then installed without a pin.
InstallRoutes ==
    IF fRoutesInstalled \/ fConfig.routes = {}
    THEN UNCHANGED routeVars
    ELSE \E g \in Gateways :
           /\ fOrigGateway' = g
           /\ fReplacedDefault' = (FullTunnel /\ g # NoGateway)
           /\ IF FullTunnel /\ g = NoGateway
              THEN UNCHANGED <<fRoutesInstalled, kernel, resolv, backup>>
              ELSE /\ kernel' = Steered(g)
                   /\ IF fReplacedDefault' THEN ApplyDns ELSE UNCHANGED <<resolv, backup>>
                   /\ fRoutesInstalled' = TRUE

\* _RemoveRoutes.
RemoveRoutes ==
    IF ~fRoutesInstalled
    THEN UNCHANGED routeVars
    ELSE /\ RestoreDns
         /\ kernel' = ((kernel \ OwnRoutes)
                          \cup (IF fReplacedDefault THEN Default(fOrigGateway) ELSE {}))
                      \ Pin(fOrigGateway)
         /\ fRoutesInstalled' = FALSE /\ fReplacedDefault' = FALSE
         /\ UNCHANGED fOrigGateway

\* _Cleanup: the reader is joined, the routes removed, socket and tun closed;
\* packets on the way to the socket are lost.
Cleanup ==
    /\ fStopRequested' = TRUE
    /\ reader' = "none" /\ tries' = 0 /\ age' = "fresh"
    /\ RemoveRoutes
    /\ answer' = "unasked" /\ late' = 0

-----------------------------------------------------------------------------
(***************************************************************************)
(* Calls of the daemon and messages of the reader.                         *)
(***************************************************************************)
Connectable == alive /\ fState \in DownStates

\* No readable or complete .conf, or, once the stop flag is reset, a bad key.
ConnectBadConfig ==
    /\ Connectable
    /\ fConfig' \in Config
    /\ fStopRequested' \in {fStopRequested, FALSE}
    /\ SetState("ERROR")
    /\ UNCHANGED <<routeVars, keyVars, reader, loopVars, peerVars, inbox, lifeVars>>

\* No tun slot, no socket, no tun device or no reader thread.
ConnectFails ==
    /\ Connectable
    /\ fConfig' \in Configs
    /\ Cleanup
    /\ fState' = "ERROR" /\ posted' = <<"CONNECTING", "ERROR">>
    /\ UNCHANGED <<keyVars, peerUp, inbox, lifeVars>>

ConnectStarts ==
    /\ Connectable /\ session < MaxSessions
    /\ fConfig' \in Configs
    /\ fStopRequested' = FALSE
    /\ SetState("CONNECTING")
    /\ reader' = "attempt" /\ tries' = 0
    /\ session' = session + 1
    /\ UNCHANGED <<routeVars, keyVars, age, peerVars, inbox, found, alive, crashes>>

Connect == ConnectBadConfig \/ ConnectFails \/ ConnectStarts

\* Disconnect when a reader is there to notice, and when there is none.
DisconnectAsks ==
    /\ alive /\ fState # "DISCONNECTED" /\ reader # "none"
    /\ fStopRequested' = TRUE
    /\ posted' = <<>>
    /\ UNCHANGED <<fState, fConfig, routeVars, keyVars, reader, loopVars, peerVars, inbox, lifeVars>>

DisconnectAtOnce ==
    /\ alive /\ fState # "DISCONNECTED" /\ reader = "none"
    /\ Cleanup
    /\ SetState("DISCONNECTED")
    /\ UNCHANGED <<fConfig, keyVars, peerUp, inbox, lifeVars>>

Disconnect == DisconnectAsks \/ DisconnectAtOnce

Handles(m) == alive /\ inbox # <<>> /\ Head(inbox) = m /\ inbox' = Tail(inbox)

HandleConnected ==
    /\ Handles("CONNECTED")
    /\ InstallRoutes
    /\ SetState("CONNECTED")
    /\ UNCHANGED <<fStopRequested, fConfig, keyVars, reader, loopVars, peerVars, lifeVars>>

FailureHidden(m) == "DISCONNECTED"

\* An exit with a detail is an error.
ExitState(m) == IF m = "FAILED" THEN "ERROR" ELSE "DISCONNECTED"

HandleReaderExited ==
    \E m \in {"EXITED", "FAILED"} :
        /\ Handles(m)
        /\ Cleanup
        /\ SetState(ExitState(m))
        /\ UNCHANGED <<fConfig, keyVars, peerUp, lifeVars>>

HandleMessage == HandleConnected \/ HandleReaderExited

-----------------------------------------------------------------------------
(***************************************************************************)
(* The reader thread.                                                      *)
(***************************************************************************)
\* Its last message; the thread ends, fReader is still set.
Exits(m) == reader' = "ended" /\ inbox' = Append(inbox, m)

\* An initiation goes out.  What answers an earlier one is late from now on,
\* whether it is in flight already or not.
Initiation ==
    /\ answer' = "asked"
    /\ late' \in {late} \cup (IF answer = "unasked" \/ late = MaxLate THEN {} ELSE {late + 1})

AttemptsLeft == tries < HandshakeAttempts

Attempt ==
    /\ reader = "attempt" /\ AttemptsLeft /\ ~fStopRequested
    /\ tries' = tries + 1
    /\ \/ Initiation /\ reader' = "waiting"
       \/ UNCHANGED <<answer, late, reader>>       \* it could not be sent
    /\ UNCHANGED <<stateVars, fConfig, routeVars, keyVars, age, peerUp, inbox, lifeVars>>

\* Out of attempts or told to stop; the flag is read again for the detail.
GiveUp ==
    /\ reader = "attempt" /\ (~AttemptsLeft \/ fStopRequested)
    /\ Exits(IF fStopRequested THEN "EXITED" ELSE "FAILED")
    /\ UNCHANGED <<stateVars, fConfig, routeVars, keyVars, loopVars, peerVars, lifeVars>>

\* New transport keys, a counter from zero and an empty window.
NewKeys ==
    /\ fReceiverIndex' = "keys" /\ age' = "fresh"
    /\ fSendCounter' = 0 /\ sent' = {}
    /\ window' = {} /\ taken' = {}

\* The response to this initiation, authentic.
HandshakeSucceeds ==
    /\ reader \in {"waiting", "rekey", "lastRekey"} /\ answer = "good"
    /\ answer' = "unasked"
    /\ NewKeys
    /\ reader' = "transport" /\ tries' = 0
    /\ inbox' = IF reader = "waiting" THEN Append(inbox, "CONNECTED") ELSE inbox
    /\ UNCHANGED <<stateVars, fConfig, routeVars, late, peerUp, lifeVars>>

\* The response has the peer's index, taken over before it is authenticated;
\* or it answers an earlier initiation; or nothing came for five seconds.
NoHandshake ==
    \/ /\ answer = "damaged" /\ answer' = "unasked"
       /\ fReceiverIndex' = "other" /\ UNCHANGED late
    \/ late > 0 /\ late' = late - 1 /\ UNCHANGED <<answer, fReceiverIndex>>
    \/ UNCHANGED <<answer, late, fReceiverIndex>>

AttemptFails ==
    /\ reader = "waiting"
    /\ NoHandshake
    /\ reader' = "attempt"
    /\ UNCHANGED <<stateVars, fConfig, routeVars, fSendCounter, window, sent, taken, loopVars,
                   peerUp, inbox, lifeVars>>

\* The loop goes on, or ends for good when the keys had expired.
AfterFailedRekey ==
    IF reader = "lastRekey" THEN Exits("EXITED") ELSE reader' = "transport" /\ UNCHANGED inbox

CounterRestarts ==
    AfterFailedRekey /\ fSendCounter' = 0 /\ UNCHANGED <<window, age>>

TimerRestarts ==
    AfterFailedRekey /\ age' = "fresh" /\ UNCHANGED <<fSendCounter, window>>

\* A failed rekey leaves counter, window and timer as they are.
KeepsOldKeys ==
    AfterFailedRekey /\ UNCHANGED <<fSendCounter, window, age>>

RekeyFails ==
    /\ reader \in {"rekey", "lastRekey"}
    /\ NoHandshake
    /\ KeepsOldKeys
    /\ UNCHANGED <<stateVars, fConfig, routeVars, sent, taken, tries, peerUp, lifeVars>>

HandshakeFails == AttemptFails \/ RekeyFails

\* _Encapsulate for a packet off the tun or a keepalive, sent or not.
SendPacket ==
    /\ reader = "transport" /\ fSendCounter < MaxCounter
    /\ sent' = sent \cup {fSendCounter}
    /\ fSendCounter' = fSendCounter + 1
    /\ UNCHANGED <<stateVars, fConfig, routeVars, fReceiverIndex, window, taken, reader,
                   loopVars, peerVars, inbox, lifeVars>>

\* _Decapsulate of a packet under our key, in any order and any number of times.
ReceivePacket ==
    /\ reader = "transport"
    /\ \E c \in (0..MaxCounter) \ window :
         window' = window \cup {c} /\ taken' = taken \cup {c}
    /\ UNCHANGED <<stateVars, fConfig, routeVars, fSendCounter, fReceiverIndex, sent,
                   reader, loopVars, peerVars, inbox, lifeVars>>

\* A handshake response read by the transport loop is no data packet.
DropResponse ==
    /\ reader = "transport"
    /\ \/ late > 0 /\ late' = late - 1 /\ UNCHANGED answer
       \/ answer \in {"good", "damaged"} /\ answer' = "unasked" /\ UNCHANGED late
    /\ UNCHANGED <<stateVars, fConfig, routeVars, keyVars, reader, loopVars, peerUp, inbox, lifeVars>>

\* The rekey timer, read once before the handshake blocks the loop.
Rekey ==
    /\ reader = "transport" /\ age # "fresh" /\ ~fStopRequested
    /\ Initiation
    /\ reader' = IF age = "expired" THEN "lastRekey" ELSE "rekey"
    /\ UNCHANGED <<stateVars, fConfig, routeVars, keyVars, loopVars, peerUp, inbox, lifeVars>>

StopUnseen == FALSE

StopSeen == fStopRequested

TransportStops ==
    /\ reader = "transport" /\ StopSeen
    /\ Exits("EXITED")
    /\ UNCHANGED <<stateVars, fConfig, routeVars, keyVars, loopVars, peerVars, lifeVars>>

SelectFails ==
    /\ reader = "transport"
    /\ Exits("EXITED")
    /\ UNCHANGED <<stateVars, fConfig, routeVars, keyVars, loopVars, peerVars, lifeVars>>

-----------------------------------------------------------------------------
(***************************************************************************)
(* The peer and the clock.                                                 *)
(***************************************************************************)
PeerAnswers ==
    /\ peerUp /\ answer = "asked"
    /\ answer' \in {"good", "damaged"}
    /\ UNCHANGED <<stateVars, fConfig, routeVars, keyVars, reader, loopVars, late, peerUp, inbox,
                   lifeVars>>

PeerFallsSilent ==
    /\ peerUp /\ peerUp' = FALSE
    /\ UNCHANGED <<stateVars, fConfig, routeVars, keyVars, reader, loopVars, answer, late, inbox,
                   lifeVars>>

\* The keys pass kRekeyAfterTime, then kRejectAfterTime.
KeysAge ==
    /\ reader \in {"transport", "rekey", "lastRekey"} /\ age # "expired"
    /\ age' = IF age = "fresh" THEN "rekey" ELSE "expired"
    /\ UNCHANGED <<stateVars, fConfig, routeVars, fSendCounter, fReceiverIndex, window, sent,
                   taken, reader, tries, peerVars, inbox, lifeVars>>

-----------------------------------------------------------------------------
(***************************************************************************)
(* The daemon dies and is started again; routes and files stay.            *)
(***************************************************************************)
MemoryLost ==
    /\ alive /\ alive' = FALSE
    /\ crashes < MaxCrashes /\ crashes' = crashes + 1
    /\ fState' = "DISCONNECTED" /\ fStopRequested' = FALSE /\ posted' = <<>>
    /\ fConfig' = NoConfig
    /\ fRoutesInstalled' = FALSE /\ fReplacedDefault' = FALSE /\ fOrigGateway' = NoGateway
    /\ fSendCounter' = 0 /\ fReceiverIndex' = "none" /\ age' = "fresh"
    /\ window' = {} /\ sent' = {} /\ taken' = {}
    /\ reader' = "none" /\ tries' = 0 /\ inbox' = <<>>
    /\ answer' = "unasked" /\ late' = 0
    /\ UNCHANGED <<peerUp, found, session>>

CrashAtRest == MemoryLost /\ UNCHANGED <<kernel, resolv, backup>>

\* Between the commands of _InstallRoutes and _ApplyDns.
CrashInstalling ==
    /\ inbox # <<>> /\ Head(inbox) = "CONNECTED" /\ fConfig.routes # {}
    /\ MemoryLost
    /\ \E g \in Gateways \ {NoGateway} :
         \/ kernel' = kernel \cup Pin(g) /\ UNCHANGED <<resolv, backup>>
         \/ /\ FullTunnel /\ UNCHANGED <<resolv, backup>>
            /\ kernel' = (kernel \cup Pin(g)) \ Default(g)
         \/ kernel' = Steered(g) /\ UNCHANGED <<resolv, backup>>
         \/ /\ FullTunnel /\ fConfig.dns
            /\ kernel' = Steered(g)
            /\ backup = "none" /\ backup' = resolv /\ resolv' = "absent"

\* Between the commands of _RemoveRoutes, the resolver restored.
CrashRemoving ==
    /\ inbox # <<>> /\ Head(inbox) \in {"EXITED", "FAILED"} /\ fRoutesInstalled
    /\ MemoryLost
    /\ RestoreDns
    /\ \/ kernel' = kernel \ OwnRoutes
       \/ /\ fReplacedDefault
          /\ kernel' = (kernel \ OwnRoutes) \cup Default(fOrigGateway)

\* RecoverIfCrashed restores the resolver; the routes are left as they are.
RecoverIfCrashed ==
    /\ ~alive /\ alive' = TRUE
    /\ RestoreDns
    /\ found' = kernel
    /\ UNCHANGED <<stateVars, fConfig, fRoutesInstalled, fReplacedDefault, fOrigGateway, kernel,
                   keyVars, reader, loopVars, peerVars, inbox, session, crashes>>

-----------------------------------------------------------------------------
ReaderStep ==
    \/ Attempt \/ GiveUp \/ HandshakeSucceeds \/ HandshakeFails
    \/ SendPacket \/ ReceivePacket \/ DropResponse \/ Rekey \/ TransportStops \/ SelectFails

Next ==
    \/ Connect \/ Disconnect \/ HandleMessage
    \/ ReaderStep
    \/ PeerAnswers \/ PeerFallsSilent \/ KeysAge
    \/ CrashAtRest \/ CrashInstalling \/ CrashRemoving \/ RecoverIfCrashed

\* The looper drains its queue, recv times out after five seconds, select
\* after a quarter of one, and time goes on.
Fairness ==
    /\ WF_vars(HandleMessage)
    /\ WF_vars(Attempt) /\ WF_vars(GiveUp) /\ WF_vars(HandshakeFails)
    /\ WF_vars(Rekey) /\ WF_vars(TransportStops)
    /\ WF_vars(KeysAge)

Spec == Init /\ [][Next]_vars

FairSpec == Spec /\ Fairness

-----------------------------------------------------------------------------
(***************************************************************************)
(* Properties.                                                             *)
(***************************************************************************)
\* The fields of WireGuardBackend, the reader's progress and the kernel's
\* routes hold values of their types; no more than HandshakeAttempts
\* initiations are made (_RunReaderLoop).
TypeOK ==
    /\ fState \in {"DISCONNECTED", "CONNECTING", "CONNECTED", "ERROR"}
    /\ fStopRequested \in BOOLEAN /\ fConfig \in Config
    /\ fRoutesInstalled \in BOOLEAN /\ fReplacedDefault \in BOOLEAN
    /\ fOrigGateway \in 0..NoGateway
    /\ fSendCounter \in 0..MaxCounter
    /\ fReceiverIndex \in {"none", "keys", "other"}
    /\ reader \in {"none", "attempt", "waiting", "transport", "rekey", "lastRekey", "ended"}
    /\ tries \in 0..HandshakeAttempts
    /\ age \in {"fresh", "rekey", "expired"}
    /\ window \subseteq 0..MaxCounter /\ sent \subseteq 0..MaxCounter
    /\ taken \subseteq 0..MaxCounter
    /\ answer \in {"unasked", "asked", "good", "damaged"} /\ late \in 0..MaxLate
    /\ peerUp \in BOOLEAN
    /\ inbox \in Seq({"CONNECTED", "EXITED", "FAILED"})
    /\ kernel \subseteq Route /\ found \subseteq Route
    /\ resolv \in {"user", "tunnel", "absent"} /\ backup \in {"user", "tunnel", "absent", "none"}
    /\ session \in 0..MaxSessions /\ alive \in BOOLEAN /\ crashes \in 0..MaxCrashes

\* The next packet never repeats a nonce under the same key, whatever
\* handshakes failed since the keys were made (_Encapsulate, _RunReaderLoop).
NonceFresh == fSendCounter \notin sent

\* A counter that was taken under these keys is refused when it comes again,
\* failed rekeys in between included (_ReplayReset, _Decapsulate).
ReplaysRefused == taken \subseteq window

\* A key is used safely in both directions for as long as it lives, rekeys that
\* fail half-way included (_Encapsulate, _Decapsulate, _RunReaderLoop).
KeyUseSafe == NonceFresh /\ ReplaysRefused

\* While no routes of its own are installed, the daemon's routing table has
\* the default routes it found and nothing the sessions added (_RemoveRoutes).
RoutesRestored ==
    (alive /\ ~fRoutesInstalled) =>
        /\ kernel \subseteq found
        /\ {r \in found : r.to = "default"} \subseteq kernel

\* The user's resolv.conf is in its place or in the backup, through crashes,
\* failed restores and sessions on top of them (_ApplyDns, _RestoreDns).
ResolverKept == resolv = "user" \/ backup = "user"

\* What the daemon sees of this backend.
Seen == [state |-> fState,
         worker |-> IF reader = "none" THEN "none" ELSE "running",
         stop |-> fStopRequested]

Contract == INSTANCE BackendContract WITH Kind <- "WireGuard", bk <- Seen

\* The backend behaves as the daemon's model assumes: what it reports follows
\* from its calls and from one reader, and a failed handshake is an error
\* unless a stop was asked for.
ImplementsContract == Contract!Spec

\* A stop ends the session, in a handshake, a rekey or the transport loop
\* (Disconnect, _RunReaderLoop).
StopEndsSession == fStopRequested ~> reader = "none"

\* A peer that is gone for good is noticed: the session ends, so that the
\* daemon can connect again (kRejectAfterTime in _RunReaderLoop).
SilentPeerDropped == ~peerUp ~> (reader = "none" \/ ~alive)
=============================================================================
