------------------------- MODULE SotoportegoServer --------------------------
(***************************************************************************)
(* The daemon's session handling: connect and disconnect requests, the     *)
(* backends' status reports, the auto-reconnect countdown, the connected   *)
(* host, the subscribers and the home-location lookup.                     *)
(*                                                                         *)
(* Everything here runs on one looper.  A backend reports by posting to    *)
(* the daemon's own message queue, so a report is handled some messages    *)
(* after the state it reports was entered: mailbox holds the reports in    *)
(* flight.  A client request, a timer tick or a thread's result that was   *)
(* queued before a report was posted is handled first; such a message is   *)
(* modelled by being handled at any moment.                                *)
(***************************************************************************)
EXTENDS VPNBackend, Integers, FiniteSets

CONSTANTS
    Clients,        \* BMessengers of GUIs and CLIs
    Hosts,          \* VPNGate hosts
    NoHost,         \* the empty fConnectedHost
    UsedKinds,      \* backend types the profiles of this instance ask for
    MaxAttempts,    \* kReconnectMaxAttempts
    BaseDelay,      \* seconds before the first retry
    DelayCap,       \* longest wait between retries
    MailboxCap,     \* bound on the reports in flight (an attempt may post two more)
    Overtaking,     \* may other messages be handled ahead of a report in flight?
    SpawnOutcomes,  \* outcomes of spawn_thread for a lookup: {TRUE}, {FALSE} or both
    TimerOutcomes   \* outcomes of creating the countdown's BMessageRunner

ASSUME ConstantsAssumption ==
    /\ UsedKinds \subseteq Kinds
    /\ NoHost \notin Hosts
    /\ MaxAttempts \in Nat /\ BaseDelay \in Nat \ {0}
    /\ DelayCap \in Nat /\ BaseDelay <= DelayCap
    /\ MailboxCap \in Nat
    /\ Overtaking \in BOOLEAN
    /\ SpawnOutcomes \subseteq BOOLEAN /\ TimerOutcomes \subseteq BOOLEAN

VARIABLES
    backend,                    \* fOpenVPN, fWireGuard, fTailscale
    fBackend,                   \* the backend of the last accepted connect
    mailbox,                    \* status reports posted and not yet handled
    fLastState,
    fConnectedHost,
    fReconnectProfile,          \* profile to retry: its backend and VPNGate host
    fUserInitiatedDisconnect,
    fReconnectArmed,
    fReconnectAttempt,
    fReconnectSecondsLeft,
    fReconnectTimer,            \* the 1 Hz runner exists
    retries,                    \* Connect calls the countdown made since it was reset
    fClients,                   \* subscribers
    alive,                      \* clients whose looper still runs
    view,                       \* last state and host each client was told
    fHomeLookupInFlight,
    homeLookup,                 \* the lookup thread, or the answer it posted
    fHome,                      \* what is remembered as the home location
    countryLookup               \* some country lookup is running

sessionVars == <<backend, fBackend, mailbox>>
reconnectVars == <<fReconnectProfile, fUserInitiatedDisconnect, fReconnectArmed,
                   fReconnectAttempt, fReconnectSecondsLeft, fReconnectTimer, retries>>
clientVars == <<fClients, alive, view>>
geoVars == <<fHomeLookupInFlight, homeLookup, fHome, countryLookup>>
vars == <<sessionVars, fLastState, fConnectedHost, reconnectVars, clientVars, geoVars>>

Profile == [kind : UsedKinds, host : Hosts \cup {NoHost}]
NoProfile == [kind |-> "OpenVPN", host |-> NoHost]

View == [state : VPNState, host : Hosts \cup {NoHost}]

\* A client that has been told nothing since it subscribed.
Untold == [state |-> "untold", host |-> NoHost]

-----------------------------------------------------------------------------
\* reconnect_delay_seconds: BaseDelay doubled for each attempt after the first,
\* capped.  The loop stops doubling once it has reached the cap.
doubled[i \in Nat] ==
    IF i = 0 THEN BaseDelay
    ELSE IF doubled[i - 1] < DelayCap THEN 2 * doubled[i - 1] ELSE doubled[i - 1]

reconnect_delay_seconds(attempt) ==
    LET d == doubled[attempt - 1] IN IF d > DelayCap THEN DelayCap ELSE d

State == backend[fBackend].state

\* What _Broadcast and a direct reply leave the clients with.
Broadcast(s, host) ==
    /\ fClients' = fClients \cap alive
    /\ view' = [c \in Clients |-> IF c \in fClients \cap alive
                                  THEN [state |-> s, host |-> host] ELSE view[c]]
    /\ UNCHANGED alive

ReplyTo(c, s, host) ==
    view' = [view EXCEPT ![c] = [state |-> s, host |-> host]]

\* _HandleSubscribe: idempotent; a new subscriber gets the profile list only.
HandleSubscribe(c) ==
    /\ fClients' = fClients \cup {c}
    /\ view' = IF c \in fClients THEN view ELSE [view EXCEPT ![c] = Untold]

Post(kind, outcome) ==
    /\ backend' = [backend EXCEPT ![kind] = outcome.bk]
    /\ mailbox' = mailbox \o outcome.posts

Interject == Overtaking \/ mailbox = <<>>

-----------------------------------------------------------------------------
CanRetry == /\ ~fUserInitiatedDisconnect
            /\ fReconnectArmed
            /\ fReconnectAttempt < MaxAttempts

\* _StartReconnectCountdown, once CanRetry holds.  A timer that cannot be
\* created has already spent the attempt.
StartReconnectCountdown(timerOk) ==
    /\ fReconnectAttempt' = fReconnectAttempt + 1
    /\ fReconnectTimer' = timerOk
    /\ fReconnectSecondsLeft' =
         IF timerOk THEN reconnect_delay_seconds(fReconnectAttempt + 1) ELSE 0

CancelForgotten == UNCHANGED <<fReconnectTimer, fReconnectSecondsLeft>>

CancelReconnect ==
    /\ fReconnectTimer' = FALSE
    /\ fReconnectSecondsLeft' = 0

ArmWithoutCancel(profile) ==
    /\ fReconnectProfile' = profile
    /\ fUserInitiatedDisconnect' = FALSE
    /\ fReconnectArmed' = TRUE
    /\ fReconnectAttempt' = 0
    /\ retries' = 0
    /\ UNCHANGED <<fReconnectTimer, fReconnectSecondsLeft>>

\* _ArmReconnect: every accepted user connect starts from a full budget.
ArmReconnect(profile) ==
    /\ CancelReconnect
    /\ fReconnectProfile' = profile
    /\ fUserInitiatedDisconnect' = FALSE
    /\ fReconnectArmed' = TRUE
    /\ fReconnectAttempt' = 0
    /\ retries' = 0

-----------------------------------------------------------------------------
\* _KickHomeGeoLookup.  The answer depends on the route when the query goes
\* out, and a thread that cannot be spawned never answers.
KickHomeGeoLookup ==
    IF fHomeLookupInFlight \/ State \notin DownStates
    THEN UNCHANGED <<fHomeLookupInFlight, homeLookup>>
    ELSE /\ fHomeLookupInFlight' = TRUE
         /\ \E spawned \in SpawnOutcomes :
              homeLookup' = IF spawned THEN "asking" ELSE "none"

\* ReadyToRun: all backends attached and idle, the first home lookup kicked.
Init ==
    /\ backend = [k \in Kinds |-> IdleBackend]
    /\ fBackend = "OpenVPN"
    /\ mailbox = <<>>
    /\ fLastState = "DISCONNECTED"
    /\ fConnectedHost = NoHost
    /\ fReconnectProfile = NoProfile
    /\ fUserInitiatedDisconnect = FALSE
    /\ fReconnectArmed = FALSE
    /\ fReconnectAttempt = 0
    /\ fReconnectSecondsLeft = 0
    /\ fReconnectTimer = FALSE
    /\ retries = 0
    /\ fClients = {}
    /\ alive = Clients
    /\ view = [c \in Clients |-> Untold]
    /\ fHomeLookupInFlight = TRUE
    /\ \E spawned \in SpawnOutcomes :
         homeLookup = IF spawned THEN "asking" ELSE "none"
    /\ fHome = "unknown"
    /\ countryLookup = FALSE

-----------------------------------------------------------------------------
(***************************************************************************)
(* Requests from clients.                                                  *)
(***************************************************************************)
\* A session is live: refused, whatever the profile.
RefuseConnect(c, host) ==
    /\ State \notin DownStates
    /\ fConnectedHost' = host
    /\ ReplyTo(c, State, host)
    /\ UNCHANGED <<sessionVars, fLastState, reconnectVars, fClients, alive, geoVars>>

\* The profile's file is missing, relative, or unreadable: the backend has
\* already been selected.
RejectConfigPath(c, profile) ==
    /\ State \in DownStates
    /\ profile.kind # "Tailscale"
    /\ fBackend' = profile.kind
    /\ fConnectedHost' = NoHost
    /\ ReplyTo(c, backend[profile.kind].state, NoHost)
    /\ UNCHANGED <<backend, mailbox, fLastState, reconnectVars, fClients, alive, geoVars>>

AcceptConnect(c, profile, host) ==
    /\ State \in DownStates
    /\ fBackend' = profile.kind
    /\ ArmReconnect(profile)
    /\ \E o \in ConnectOutcomes(profile.kind, backend[profile.kind]) :
         /\ Post(profile.kind, o)
         /\ fConnectedHost' = IF o.ok THEN host ELSE NoHost
         /\ IF o.ok THEN HandleSubscribe(c)
            ELSE fClients' = fClients \cup {c} /\ ReplyTo(c, o.bk.state, NoHost)
    /\ UNCHANGED <<fLastState, alive, geoVars>>

\* _HandleConnect; host is what fConnectedHost holds on entry.
HandleConnect(c, profile, host) ==
    \/ RefuseConnect(c, host)
    \/ RejectConfigPath(c, profile)
    \/ AcceptConnect(c, profile, host)

Connect(c) ==
    /\ c \in alive /\ Interject
    /\ Len(mailbox) + 2 <= MailboxCap
    /\ \E k \in UsedKinds : HandleConnect(c, [kind |-> k, host |-> NoHost], fConnectedHost)

\* The .ovpn of a VPNGate host could not be staged.
RejectVPNGate(c) ==
    /\ fConnectedHost' = NoHost
    /\ ReplyTo(c, State, NoHost)
    /\ UNCHANGED <<sessionVars, fLastState, reconnectVars, fClients, alive, geoVars>>

\* _HandleConnectVPNGate records the host before anything is known to succeed.
ConnectVPNGate(c) ==
    /\ c \in alive /\ Interject
    /\ "OpenVPN" \in UsedKinds
    /\ Len(mailbox) + 2 <= MailboxCap
    /\ \E h \in Hosts : \/ RejectVPNGate(c)
                        \/ HandleConnect(c, [kind |-> "OpenVPN", host |-> h], h)

Disconnect ==
    /\ Interject
    /\ Len(mailbox) + 1 <= MailboxCap
    /\ fUserInitiatedDisconnect' = TRUE
    /\ CancelReconnect
    /\ Post(fBackend, DisconnectOutcome(fBackend, backend[fBackend]))
    /\ IF fReconnectTimer
       THEN /\ Broadcast("DISCONNECTED", fConnectedHost)
            /\ fLastState' = "DISCONNECTED"
            /\ fConnectedHost' = NoHost
       ELSE UNCHANGED <<clientVars, fLastState, fConnectedHost>>
    /\ UNCHANGED <<fBackend, fReconnectProfile, fReconnectArmed, fReconnectAttempt,
                   retries, geoVars>>

GetStatus(c) ==
    /\ c \in alive /\ Interject
    /\ ReplyTo(c, State, fConnectedHost)
    /\ UNCHANGED <<sessionVars, fLastState, fConnectedHost, reconnectVars, fClients,
                   alive, geoVars>>

Subscribe(c) ==
    /\ c \in alive \ fClients
    /\ HandleSubscribe(c)
    /\ UNCHANGED <<sessionVars, fLastState, fConnectedHost, reconnectVars, alive, geoVars>>

Unsubscribe(c) ==
    /\ c \in alive \cap fClients
    /\ fClients' = fClients \ {c}
    /\ UNCHANGED <<sessionVars, fLastState, fConnectedHost, reconnectVars, alive, view,
                   geoVars>>

\* A client's looper goes away; the next broadcast prunes it.
ClientDies(c) ==
    /\ c \in alive
    /\ alive' = alive \ {c}
    /\ UNCHANGED <<sessionVars, fLastState, fConnectedHost, reconnectVars, fClients, view,
                   geoVars>>

-----------------------------------------------------------------------------
(***************************************************************************)
(* Events of the backends.                                                 *)
(***************************************************************************)
\* A message of a backend's child, reader or worker, handled by the backend.
WorkerStep(kind) ==
    /\ Len(mailbox) + 1 <= MailboxCap
    /\ \E o \in WorkerSteps(kind, backend[kind]) : Post(kind, o)
    /\ UNCHANGED <<fBackend, fLastState, fConnectedHost, reconnectVars, clientVars, geoVars>>

\* The states a report of DISCONNECTED ends with a notification.
WasActive(s) == s \in {"CONNECTED", "RECONNECTING", "AUTHENTICATING", "CONNECTING"}

HostKept(new) == IF new = "ERROR" THEN NoHost ELSE fConnectedHost

\* The host record is dropped on every report of a non-live state.
HostAfter(new) == IF new \in DownStates THEN NoHost ELSE fConnectedHost

\* _HandleStatusForNotification, _EnrichForBroadcast and _Broadcast.
HandleStatus ==
    /\ mailbox # <<>>
    /\ mailbox' = Tail(mailbox)
    /\ \E timerOk \in TimerOutcomes :
         LET reported == Head(mailbox)
             drop     == reported = "DISCONNECTED" /\ CanRetry
             new      == IF drop /\ timerOk THEN "RECONNECTING" ELSE reported
             changed  == new # fLastState
         IN /\ fLastState' = new
            /\ fConnectedHost' = HostAfter(new)
            /\ IF drop
               THEN StartReconnectCountdown(timerOk) /\ UNCHANGED retries
               ELSE /\ fReconnectAttempt' = IF changed /\ new = "CONNECTED"
                                            THEN 0 ELSE fReconnectAttempt
                    /\ retries' = IF changed /\ new = "CONNECTED" THEN 0 ELSE retries
                    /\ UNCHANGED <<fReconnectTimer, fReconnectSecondsLeft>>
            /\ IF changed /\ new = "CONNECTED"
               THEN \E spawned \in SpawnOutcomes : countryLookup' = (countryLookup \/ spawned)
               ELSE UNCHANGED countryLookup
            /\ IF changed /\ (new = "ERROR" \/ (new = "DISCONNECTED" /\ WasActive(fLastState)))
               THEN KickHomeGeoLookup
               ELSE UNCHANGED <<fHomeLookupInFlight, homeLookup>>
            /\ Broadcast(new, HostAfter(new))
    /\ UNCHANGED <<backend, fBackend, fReconnectProfile, fUserInitiatedDisconnect,
                   fReconnectArmed, fHome>>

\* kMsgStatsUpdate only fans out, and so only prunes.
HandleStats ==
    /\ \E k \in Kinds : backend[k].worker = "running"
    /\ fClients' = fClients \cap alive
    /\ UNCHANGED <<sessionVars, fLastState, fConnectedHost, reconnectVars, alive, view,
                   geoVars>>

-----------------------------------------------------------------------------
(***************************************************************************)
(* The countdown.                                                          *)
(***************************************************************************)
TickWithoutDecrement ==
    /\ fReconnectTimer /\ ~fUserInitiatedDisconnect /\ Interject
    /\ fReconnectSecondsLeft > 1
    /\ Broadcast("RECONNECTING", fConnectedHost)
    /\ UNCHANGED <<sessionVars, fLastState, fConnectedHost, reconnectVars, geoVars>>

\* _HandleReconnectTick while there is time left.
CountdownTick ==
    /\ fReconnectTimer /\ ~fUserInitiatedDisconnect /\ Interject
    /\ fReconnectSecondsLeft > 1
    /\ fReconnectSecondsLeft' = fReconnectSecondsLeft - 1
    /\ Broadcast("RECONNECTING", fConnectedHost)
    /\ UNCHANGED <<sessionVars, fLastState, fConnectedHost, fReconnectProfile,
                   fUserInitiatedDisconnect, fReconnectArmed, fReconnectAttempt,
                   fReconnectTimer, retries, geoVars>>

FiringStaleTick == Interject /\ fReconnectSecondsLeft <= 1

\* A tick that finds no timer, or a stop in between, is dropped.
FiringTick == /\ fReconnectTimer /\ ~fUserInitiatedDisconnect /\ Interject
              /\ fReconnectSecondsLeft <= 1

\* The last tick: _CancelReconnect and _AttemptReconnect.
AttemptReconnect ==
    /\ FiringTick
    /\ Len(mailbox) <= MailboxCap
    /\ fBackend' = fReconnectProfile.kind
    /\ retries' = retries + 1
    /\ \E o \in ConnectOutcomes(fReconnectProfile.kind, backend[fReconnectProfile.kind]) :
         /\ Post(fReconnectProfile.kind, o)
         /\ IF ~o.ok /\ CanRetry
            THEN \E timerOk \in TimerOutcomes :
                   /\ StartReconnectCountdown(timerOk)
                   /\ IF timerOk THEN Broadcast("RECONNECTING", fConnectedHost)
                      ELSE UNCHANGED clientVars
            ELSE /\ CancelReconnect
                 /\ UNCHANGED <<fReconnectAttempt, clientVars>>
    /\ UNCHANGED <<fLastState, fConnectedHost, fReconnectProfile,
                   fUserInitiatedDisconnect, fReconnectArmed, geoVars>>

-----------------------------------------------------------------------------
(***************************************************************************)
(* Results of the lookup threads.                                          *)
(***************************************************************************)
\* ip-api answers with the address the query came from.
HomeLookupAnswers ==
    /\ homeLookup = "asking"
    /\ \/ homeLookup' \in {"carrier", "failed"}
       \/ /\ \E k \in Kinds : backend[k].state = "CONNECTED"
          /\ homeLookup' = "exit"
    /\ UNCHANGED <<sessionVars, fLastState, fConnectedHost, reconnectVars, clientVars,
                   fHomeLookupInFlight, fHome, countryLookup>>

HandleHomeGeoResult ==
    /\ homeLookup \in {"carrier", "exit", "failed"} /\ Interject
    /\ homeLookup' = "none"
    /\ fHomeLookupInFlight' = FALSE
    /\ IF homeLookup \in {"failed", fHome}
       THEN UNCHANGED <<fHome, clientVars>>
       ELSE fHome' = homeLookup /\ Broadcast(State, fConnectedHost)
    /\ UNCHANGED <<sessionVars, fLastState, fConnectedHost, reconnectVars, countryLookup>>

\* Only a lookup that answered, while the last report was CONNECTED, is shown.
HandleCountryResult ==
    /\ countryLookup /\ Interject
    /\ countryLookup' \in BOOLEAN       \* another one may still be running
    /\ \/ fLastState = "CONNECTED" /\ Broadcast(State, fConnectedHost)
       \/ UNCHANGED clientVars
    /\ UNCHANGED <<sessionVars, fLastState, fConnectedHost, reconnectVars,
                   fHomeLookupInFlight, homeLookup, fHome>>

-----------------------------------------------------------------------------
Next ==
    \/ \E c \in Clients : \/ Connect(c) \/ ConnectVPNGate(c) \/ GetStatus(c)
                          \/ Subscribe(c) \/ Unsubscribe(c) \/ ClientDies(c)
    \/ Disconnect
    \/ \E k \in Kinds : WorkerStep(k)
    \/ HandleStatus \/ HandleStats
    \/ CountdownTick \/ AttemptReconnect
    \/ HomeLookupAnswers \/ HandleHomeGeoResult \/ HandleCountryResult

\* The looper drains its queue, the runner keeps ticking, and a backend asked
\* to stop ends its work (its loops poll the flag, the child honours SIGTERM).
\* The message queue is FIFO, so what a worker posts is handled: strong fairness
\* because the bound on the mailbox can hold its last message back.
WorkerEnds(kind) ==
    /\ Len(mailbox) + 1 <= MailboxCap
    /\ backend[kind].stop
    /\ \E o \in WorkerSteps(kind, backend[kind]) : o.bk.worker = "none" /\ Post(kind, o)
    /\ UNCHANGED <<fBackend, fLastState, fConnectedHost, reconnectVars, clientVars, geoVars>>

Fairness ==
    /\ WF_vars(HandleStatus)
    /\ WF_vars(CountdownTick) /\ WF_vars(AttemptReconnect)
    /\ \A k \in UsedKinds : SF_vars(WorkerEnds(k))

Spec == Init /\ [][Next]_vars

FairSpec == Spec /\ Fairness

-----------------------------------------------------------------------------
(***************************************************************************)
(* Properties.                                                             *)
(***************************************************************************)
\* The daemon's fields hold values of their types; in particular the attempt
\* counter and the countdown stay within their limits.
TypeOK ==
    /\ backend \in [Kinds -> Backend]
    /\ fBackend \in Kinds
    /\ mailbox \in Seq(VPNState)
    /\ fLastState \in VPNState
    /\ fConnectedHost \in Hosts \cup {NoHost}
    /\ fReconnectProfile \in Profile \cup {NoProfile}
    /\ fUserInitiatedDisconnect \in BOOLEAN
    /\ fReconnectArmed \in BOOLEAN
    /\ fReconnectAttempt \in 0..MaxAttempts
    /\ fReconnectSecondsLeft \in 0..DelayCap
    /\ fReconnectTimer \in BOOLEAN
    /\ retries \in Nat
    /\ fClients \subseteq Clients
    /\ alive \subseteq Clients
    /\ view \in [Clients -> View \cup {Untold}]
    /\ fHomeLookupInFlight \in BOOLEAN
    /\ homeLookup \in {"none", "asking", "carrier", "exit", "failed"}
    /\ fHome \in {"unknown", "carrier", "exit"}
    /\ countryLookup \in BOOLEAN

\* A countdown only runs for a session the user asked for and has not asked to
\* stop, and it has time left to run (_StartReconnectCountdown, _HandleDisconnect).
CountdownIsWanted ==
    fReconnectTimer => /\ fReconnectArmed
                       /\ ~fUserInitiatedDisconnect
                       /\ fReconnectSecondsLeft >= 1

\* The daemon never calls Connect on its own more than once beyond the budget
\* since the last user connect or the last CONNECTED: a countdown that is
\* running when CONNECTED resets fReconnectAttempt is the one that is extra.
RetriesBounded == retries <= MaxAttempts + 1

\* The daemon connects on its own only for a session that is wanted, and only so
\* often (_StartReconnectCountdown, _HandleReconnectTick).
RetrySafe == CountdownIsWanted /\ RetriesBounded

\* After a user Disconnect is handled, and until the next accepted connect, no
\* countdown fires an attempt (_HandleReconnectTick).
NoRetryAfterStop ==
    [][fUserInitiatedDisconnect' => retries' <= retries]_vars

\* Once the reports are handled, a daemon with no session and no countdown
\* aims at no VPNGate host: the map draws no arc (_HandleStatusForNotification).
HostClearedWhenDown ==
    (mailbox = <<>> /\ State \in DownStates /\ ~fReconnectTimer)
        => fConnectedHost = NoHost

Told == {c \in fClients \cap alive : view[c] # Untold}

\* Once the reports are handled, a subscriber is shown a live session exactly
\* when there is one, or a countdown is running.
\* The code does not keep this when other messages overtake a report.
SubscribersAgree ==
    (mailbox = <<>> /\ ~fReconnectTimer) =>
        \A c \in Told : (view[c].state \in DownStates) <=> (State \in DownStates)

\* A countdown means that the session is down: "If we were mid-countdown the
\* backend is already Disconnected" (_HandleDisconnect).
CountdownMeansDown == fReconnectTimer => State \in DownStates

\* What is announced is what there is: a countdown only without a session, and a
\* session to every subscriber (_Broadcast, _StartReconnectCountdown).
SessionAnnounced == SubscribersAgree /\ CountdownMeansDown

\* A user Disconnect ends the session it was sent to, unless another connect
\* follows (_HandleDisconnect, VPNBackend::Disconnect).
StopTakesEffect ==
    fUserInitiatedDisconnect ~> (State \in DownStates \/ ~fUserInitiatedDisconnect)

\* A countdown ends: in an attempt, a stop or a new connect.
CountdownEnds == fReconnectTimer ~> ~fReconnectTimer
=============================================================================
