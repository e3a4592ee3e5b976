---------------------- MODULE SotoportegoServerProofs -----------------------
(***************************************************************************)
(* Theorems about the daemon's session handling, for every set of clients  *)
(* and hosts, every retry budget and delay, and whether or not messages    *)
(* overtake status reports.                                                *)
(***************************************************************************)
EXTENDS SotoportegoServer, WellFoundedInduction, TLAPS

-----------------------------------------------------------------------------
(***************************************************************************)
(* What the backends answer.                                               *)
(***************************************************************************)
Attached == {"none", "running", "exiting"}

\* A backend's record stays one when _SetState or Disconnect changes a field.
LEMMA BackendUpdates ==
    ASSUME NEW b \in Backend
    PROVE  /\ b.state \in VPNState /\ b.worker \in Attached
           /\ \A w \in Attached : [b EXCEPT !.worker = w] \in Backend
           /\ \A s \in VPNState, w \in Attached :
                [b EXCEPT !.state = s, !.worker = w] \in Backend
           /\ \A x \in BOOLEAN : [b EXCEPT !.stop = x] \in Backend
<1>1. b.state \in VPNState /\ b.worker \in Attached
  BY DEF Backend, Attached
<1>2. \A w \in Attached : [b EXCEPT !.worker = w] \in Backend
  BY Zenon DEF Backend, Attached
<1>3. \A s \in VPNState, w \in Attached :
        [b EXCEPT !.state = s, !.worker = w] \in Backend
  BY Zenon DEF Backend, Attached
<1>4. \A x \in BOOLEAN : [b EXCEPT !.stop = x] \in Backend
  BY Zenon DEF Backend
<1> QED BY <1>1, <1>2, <1>3, <1>4

\* What a call or a worker's message can lead to is a well-formed outcome.
LEMMA OutcomeTypes ==
    ASSUME NEW b \in Backend
    PROVE  /\ Refused(b) \in Outcome
           /\ [Refused(b) EXCEPT !.ok = TRUE] \in Outcome
           /\ StopAsked(b) \in Outcome
           /\ \A s \in VPNState, w \in Attached :
                /\ SetState(b, s, w) \in Outcome
                /\ [SetState(b, s, w) EXCEPT !.ok = FALSE] \in Outcome
<1>1. \A c \in Backend, p \in Seq(VPNState), x \in BOOLEAN :
        [bk |-> c, posts |-> p, ok |-> x] \in Outcome
  BY Zenon DEF Outcome
<1>2. <<>> \in Seq(VPNState) /\ \A s \in VPNState : <<s>> \in Seq(VPNState)
  OBVIOUS
<1>3. \A o \in Outcome, x \in BOOLEAN : [o EXCEPT !.ok = x] \in Outcome
  BY Zenon DEF Outcome
<1>4. Refused(b) \in Outcome
  BY <1>1, <1>2 DEF Refused
<1>5. StopAsked(b) \in Outcome
  BY <1>1, <1>2, BackendUpdates DEF StopAsked
<1>6. \A s \in VPNState, w \in Attached : SetState(b, s, w) \in Outcome
  BY <1>1, <1>2, BackendUpdates DEF SetState
<1> QED BY <1>3, <1>4, <1>5, <1>6, Zenon

\* Connect, of whichever backend, has only well-formed outcomes.
LEMMA ConnectOutcomesType ==
    ASSUME NEW k \in Kinds, NEW b \in Backend
    PROVE  ConnectOutcomes(k, b) \subseteq Outcome
<1>1. \A w \in Attached, x \in BOOLEAN : FailedLate(w, x) \in Outcome
  BY DEF FailedLate, Outcome, Backend, VPNState, Attached
<1>2. Started \in Outcome
  BY DEF Started, Outcome, Backend, VPNState
<1>3. b.worker \in Attached /\ "none" \in Attached /\ "ERROR" \in VPNState
  BY BackendUpdates DEF Attached, VPNState
<1>4. [FailedLate("none", FALSE) EXCEPT !.ok = TRUE] \in Outcome
  <2>1. \A o \in Outcome : [o EXCEPT !.ok = TRUE] \in Outcome
    BY Zenon DEF Outcome
  <2> QED BY <1>1, <1>3, <2>1, Zenon
<1>5. OpenVPNConnect(b) \subseteq Outcome
  BY <1>1, <1>2, <1>3, <1>4, OutcomeTypes DEF OpenVPNConnect
<1>6. [SetState(b, "ERROR", b.worker) EXCEPT !.ok = FALSE] \in Outcome
  BY <1>3, OutcomeTypes, Zenon
<1>7. WireGuardConnect(b) \subseteq Outcome
  <2>1. [b EXCEPT !.stop = FALSE] \in Backend
    BY BackendUpdates
  <2>2. [SetState([b EXCEPT !.stop = FALSE], "ERROR", b.worker) EXCEPT !.ok = FALSE]
          \in Outcome
    BY <1>3, <2>1, OutcomeTypes, Zenon
  <2> QED BY <1>1, <1>2, <1>3, <1>6, <2>2, OutcomeTypes, Zenon DEF WireGuardConnect
<1>8. TailscaleConnect(b) \subseteq Outcome
  BY <1>1, <1>2, <1>3, <1>6, Zenon DEF TailscaleConnect
<1> QED BY <1>5, <1>7, <1>8 DEF ConnectOutcomes, Kinds

\* Disconnect, of whichever backend, has a well-formed outcome.
LEMMA DisconnectOutcomeType ==
    ASSUME NEW k \in Kinds, NEW b \in Backend
    PROVE  DisconnectOutcome(k, b) \in Outcome
<1>1. [b EXCEPT !.stop = TRUE] \in Backend
  BY BackendUpdates
<1>2. "none" \in Attached /\ "DISCONNECTED" \in VPNState
  BY DEF Attached, VPNState
<1>3. StoppedAtOnce(b) \in Outcome
  BY <1>1, <1>2, OutcomeTypes DEF StoppedAtOnce
<1> QED BY <1>3, OutcomeTypes DEF DisconnectOutcome

\* A message of a child, reader or worker has only well-formed outcomes.
LEMMA WorkerStepsType ==
    ASSUME NEW k \in Kinds, NEW b \in Backend
    PROVE  WorkerSteps(k, b) \subseteq Outcome
<1>1. \A s \in VPNState, w \in Attached : SetState(b, s, w) \in Outcome
  BY OutcomeTypes
<1>2. \A w \in Attached :
        [Refused([b EXCEPT !.worker = w]) EXCEPT !.ok = TRUE] \in Outcome
  BY OutcomeTypes, BackendUpdates
<1>3. OpenVPNWorkerSteps(b) \subseteq Outcome
  BY <1>1, <1>2 DEF OpenVPNWorkerSteps, VPNState, Attached
<1>4. \A s \in VPNState, w \in Attached : SetState([b EXCEPT !.stop = TRUE], s, w) \in Outcome
  <2>1. [b EXCEPT !.stop = TRUE] \in Backend
    BY BackendUpdates
  <2> QED BY <2>1, OutcomeTypes
<1>5. WireGuardWorkerSteps(b) \subseteq Outcome
  BY <1>1, <1>4 DEF WireGuardWorkerSteps, VPNState, Attached
<1>6. TailscaleWorkerSteps(b) \subseteq Outcome
  BY <1>1, <1>4 DEF TailscaleWorkerSteps, VPNState, Attached
<1> QED BY <1>3, <1>5, <1>6 DEF WorkerSteps, Kinds

-----------------------------------------------------------------------------
(***************************************************************************)
(* Induction and recursion over Nat in the form the provers can use: about *)
(* sets and functions instead of operators.                                *)
(***************************************************************************)
\* A set that holds 0 and the successor of each natural number in it holds
\* every natural number.
LEMMA NatSetInduction ==
    ASSUME NEW S, 0 \in S, \A n \in Nat : n \in S => n + 1 \in S
    PROVE  Nat \subseteq S
<1> DEFINE T == Nat \ S
           R == OpToRel(<, Nat)
<1>1. SUFFICES ASSUME T # {} PROVE FALSE
  OBVIOUS
<1>2. IsWellFoundedOn(R, Nat)
  BY NatLessThanWellFounded
<1>3. PICK x \in T : \A y \in T : ~ (<<y, x>> \in R)
  <2> HIDE DEF R
  <2> QED BY <1>1, <1>2, WFMin
<1>4. x \in Nat /\ x # 0
  OBVIOUS
<1>5. x - 1 \in Nat /\ x - 1 < x
  BY <1>4
<1>6. <<x - 1, x>> \in R
  BY <1>4, <1>5 DEF OpToRel
<1>7. x - 1 \in S
  BY <1>3, <1>5, <1>6
<1>8. (x - 1) + 1 \in S
  BY <1>5, <1>7
<1> QED BY <1>4, <1>8

\* The first n + 1 values of the iteration of F from v0.
Iterates(V, v0, F, n) ==
    {g \in [0..n -> V] : g[0] = v0 /\ \A i \in 1..n : g[i] = F[g[i - 1]]}

\* Every number of iterations can be written down as a finite table.
LEMMA IteratesExist ==
    ASSUME NEW V, NEW v0 \in V, NEW F \in [V -> V]
    PROVE  \A n \in Nat : Iterates(V, v0, F, n) # {}
<1> DEFINE S == {n \in Nat : Iterates(V, v0, F, n) # {}}
<1>1. 0 \in S
  <2>1. [i \in 0..0 |-> v0] \in Iterates(V, v0, F, 0)
    BY DEF Iterates
  <2> QED BY <2>1
<1>2. ASSUME NEW n \in Nat, n \in S PROVE n + 1 \in S
  <2>1. PICK g : g \in Iterates(V, v0, F, n)
    BY <1>2
  <2> DEFINE h == [i \in 0..(n + 1) |-> IF i = n + 1 THEN F[g[n]] ELSE g[i]]
  <2>2. g \in [0..n -> V] /\ g[0] = v0 /\ \A i \in 1..n : g[i] = F[g[i - 1]]
    BY <2>1 DEF Iterates
  <2>3. h \in [0..(n + 1) -> V]
    BY <2>2
  <2>4. h[0] = v0
    BY <2>2
  <2>5. \A i \in 1..(n + 1) : h[i] = F[h[i - 1]]
    BY <2>2
  <2>6. h \in Iterates(V, v0, F, n + 1)
    <3> HIDE DEF h
    <3> QED BY <2>3, <2>4, <2>5 DEF Iterates
  <2> QED BY <2>6
<1>3. Nat \subseteq S
  <2> HIDE DEF S
  <2> QED BY <1>1, <1>2, NatSetInduction
<1> QED BY <1>3

\* Two such tables agree where both are defined.
LEMMA IteratesAgree ==
    ASSUME NEW V, NEW v0 \in V, NEW F \in [V -> V],
           NEW m \in Nat, NEW n \in Nat, m <= n,
           NEW g \in Iterates(V, v0, F, m), NEW h \in Iterates(V, v0, F, n)
    PROVE  \A i \in 0..m : g[i] = h[i]
<1> DEFINE S == {i \in Nat : i <= m => g[i] = h[i]}
<1>1. 0 \in S
  BY DEF Iterates
<1>2. ASSUME NEW i \in Nat, i \in S PROVE i + 1 \in S
  <2>1. CASE i + 1 <= m
    <3>1. i + 1 \in 1..m /\ i + 1 \in 1..n /\ (i + 1) - 1 = i
      BY <2>1
    <3>2. g[i + 1] = F[g[i]] /\ h[i + 1] = F[h[i]]
      BY <3>1 DEF Iterates
    <3> QED BY <1>2, <2>1, <3>2
  <2> QED BY <2>1
<1>3. Nat \subseteq S
  <2> HIDE DEF S
  <2> QED BY <1>1, <1>2, NatSetInduction
<1> QED BY <1>3

\* A step function on V has an iteration from every v0 \in V: the recursive
\* function f[i] == IF i = 0 THEN v0 ELSE F[f[i - 1]] exists, with values in V.
LEMMA IterationExists ==
    ASSUME NEW V, NEW v0 \in V, NEW F \in [V -> V]
    PROVE  \E f \in [Nat -> V] :
              \A i \in Nat : f[i] = IF i = 0 THEN v0 ELSE F[f[i - 1]]
<1> DEFINE a(n) == CHOOSE g : g \in Iterates(V, v0, F, n)
           f == [n \in Nat |-> a(n)[n]]
<1>1. \A n \in Nat : a(n) \in Iterates(V, v0, F, n)
  BY IteratesExist
<1>2. ASSUME NEW n \in Nat PROVE a(n)[n] \in V /\ a(n)[0] = v0
  <2> HIDE DEF a
  <2> QED BY <1>1 DEF Iterates
<1>3. ASSUME NEW n \in Nat, n # 0 PROVE a(n)[n] = F[a(n - 1)[n - 1]]
  <2>1. n - 1 \in Nat /\ n - 1 <= n /\ n - 1 \in 0..(n - 1) /\ n \in 1..n
    BY <1>3
  <2>2. a(n) \in Iterates(V, v0, F, n) /\ a(n - 1) \in Iterates(V, v0, F, n - 1)
    BY <1>1, <2>1
  <2> HIDE DEF a
  <2>3. \A i \in 0..(n - 1) : a(n - 1)[i] = a(n)[i]
    BY <2>1, <2>2, IteratesAgree
  <2>4. a(n)[n] = F[a(n)[n - 1]]
    BY <2>1, <2>2 DEF Iterates
  <2> QED BY <2>1, <2>3, <2>4
<1> HIDE DEF a
<1>4. f \in [Nat -> V]
  BY <1>2
<1>5. \A n \in Nat : f[n] = IF n = 0 THEN v0 ELSE F[f[n - 1]]
  BY <1>2, <1>3
<1> QED BY <1>4, <1>5

-----------------------------------------------------------------------------
(***************************************************************************)
(* The wait before a retry.                                                *)
(***************************************************************************)
\* The doubling loop of reconnect_delay_seconds ends with a positive number.
LEMMA DoubledType == doubled \in [Nat -> Nat \ {0}]
<1> DEFINE F == [d \in Nat \ {0} |-> IF d < DelayCap THEN 2 * d ELSE d]
           Eq(f) == f = [i \in Nat |->
                           IF i = 0 THEN BaseDelay
                           ELSE IF f[i - 1] < DelayCap THEN 2 * f[i - 1] ELSE f[i - 1]]
<1>1. BaseDelay \in Nat \ {0} /\ DelayCap \in Nat
  BY ConstantsAssumption
<1>2. F \in [Nat \ {0} -> Nat \ {0}]
  BY <1>1
<1>3. PICK g \in [Nat -> Nat \ {0}] :
           \A i \in Nat : g[i] = IF i = 0 THEN BaseDelay ELSE F[g[i - 1]]
  <2> DEFINE V == Nat \ {0}
  <2>1. BaseDelay \in V /\ F \in [V -> V]
    BY <1>1, <1>2
  <2> HIDE DEF F, V
  <2>2. \E g \in [Nat -> V] : \A i \in Nat : g[i] = IF i = 0 THEN BaseDelay ELSE F[g[i - 1]]
    BY <2>1, IterationExists
  <2> QED BY <2>2 DEF V
<1>4. \A i \in Nat : g[i] = IF i = 0 THEN BaseDelay ELSE
                            IF g[i - 1] < DelayCap THEN 2 * g[i - 1] ELSE g[i - 1]
  <2>1. \A i \in Nat : i # 0 => g[i - 1] \in Nat \ {0}
    BY <1>3
  <2> QED BY <1>1, <1>3, <2>1
<1>5. Eq(g)
  BY <1>3, <1>4
<1>6. doubled = CHOOSE f : Eq(f)
  BY DEF doubled
<1>7. Eq(doubled)
  <2> HIDE DEF Eq
  <2> QED BY <1>5, <1>6
<1>8. \A i \in Nat : doubled[i] =
        IF i = 0 THEN BaseDelay
        ELSE IF doubled[i - 1] < DelayCap THEN 2 * doubled[i - 1] ELSE doubled[i - 1]
  BY <1>7
<1> DEFINE S == {i \in Nat : doubled[i] \in Nat \ {0}}
<1>9. 0 \in S
  BY <1>1, <1>8
<1>10. ASSUME NEW i \in Nat, i \in S PROVE i + 1 \in S
  <2>1. i + 1 \in Nat /\ i + 1 # 0 /\ (i + 1) - 1 = i
    OBVIOUS
  <2>2. doubled[i + 1] = IF doubled[i] < DelayCap THEN 2 * doubled[i] ELSE doubled[i]
    BY <1>8, <2>1
  <2> QED BY <1>10, <2>1, <2>2
<1>11. Nat \subseteq S
  <2> HIDE DEF S
  <2> QED BY <1>9, <1>10, NatSetInduction
<1>12. doubled = [i \in Nat |-> doubled[i]]
  BY <1>7
<1> QED BY <1>11, <1>12

\* The countdown of every attempt waits at least a second and at most the cap.
LEMMA DelayType ==
    ASSUME NEW n \in Nat \ {0}
    PROVE  reconnect_delay_seconds(n) \in 1..DelayCap
<1>1. n - 1 \in Nat
  OBVIOUS
<1>2. doubled[n - 1] \in Nat \ {0}
  BY <1>1, DoubledType
<1>3. DelayCap \in Nat /\ DelayCap >= 1
  BY ConstantsAssumption
<1> QED BY <1>2, <1>3 DEF reconnect_delay_seconds

-----------------------------------------------------------------------------
(***************************************************************************)
(* Type correctness.  Each lemma is about one group of variables, so that  *)
(* an action's proof names the groups it touches.                          *)
(***************************************************************************)
SessionType == /\ backend \in [Kinds -> Backend]
               /\ fBackend \in Kinds
               /\ mailbox \in Seq(VPNState)

HostType == fLastState \in VPNState /\ fConnectedHost \in Hosts \cup {NoHost}

ReconnectType == /\ fReconnectProfile \in Profile \cup {NoProfile}
                 /\ fUserInitiatedDisconnect \in BOOLEAN
                 /\ fReconnectArmed \in BOOLEAN
                 /\ fReconnectAttempt \in 0..MaxAttempts
                 /\ fReconnectSecondsLeft \in 0..DelayCap
                 /\ fReconnectTimer \in BOOLEAN
                 /\ retries \in Nat

ClientType == /\ fClients \subseteq Clients
              /\ alive \subseteq Clients
              /\ view \in [Clients -> View \cup {Untold}]

GeoType == /\ fHomeLookupInFlight \in BOOLEAN
           /\ homeLookup \in {"none", "asking", "carrier", "exit", "failed"}
           /\ fHome \in {"unknown", "carrier", "exit"}
           /\ countryLookup \in BOOLEAN

\* TypeOK by parts, so that an action's proof looks at the parts it changes.
LEMMA TypeOKParts ==
    TypeOK <=> SessionType /\ HostType /\ ReconnectType /\ ClientType /\ GeoType
  BY DEF TypeOK, SessionType, HostType, ReconnectType, ClientType, GeoType

\* The same after a step.
LEMMA TypeOKNext ==
    ASSUME SessionType', HostType', ReconnectType', ClientType', GeoType'
    PROVE  TypeOK'
  BY DEF TypeOK, SessionType, HostType, ReconnectType, ClientType, GeoType

\* The state of the selected backend is a VPN_STATE_* value.
LEMMA StateType == SessionType => State \in VPNState
<1> SUFFICES ASSUME SessionType PROVE State \in VPNState
  OBVIOUS
<1>1. backend[fBackend] \in Backend
  BY DEF SessionType
<1> QED BY <1>1, BackendUpdates DEF State

\* Posting an outcome's reports keeps the backends and the mailbox typed.
LEMMA PostType ==
    ASSUME SessionType, NEW k \in Kinds, NEW o \in Outcome, Post(k, o)
    PROVE  backend' \in [Kinds -> Backend] /\ mailbox' \in Seq(VPNState)
<1>1. o.bk \in Backend /\ o.posts \in Seq(VPNState)
  BY DEF Outcome
<1> QED BY <1>1 DEF Post, SessionType

\* A direct reply keeps the clients' views typed.
LEMMA ReplyToType ==
    ASSUME ClientType, NEW c \in Clients, NEW s \in VPNState, NEW h \in Hosts \cup {NoHost},
           ReplyTo(c, s, h)
    PROVE  view' \in [Clients -> View \cup {Untold}]
<1>1. [state |-> s, host |-> h] \in View
  BY DEF View
<1> QED BY <1>1 DEF ReplyTo, ClientType

\* _Broadcast keeps the subscribers and their views typed.
LEMMA BroadcastType ==
    ASSUME ClientType, NEW s \in VPNState, NEW h \in Hosts \cup {NoHost}, Broadcast(s, h)
    PROVE  ClientType'
<1>1. [state |-> s, host |-> h] \in View
  BY DEF View
<1> QED BY <1>1 DEF Broadcast, ClientType

\* _HandleSubscribe keeps the subscribers and their views typed.
LEMMA SubscribeType ==
    ASSUME ClientType, NEW c \in Clients, HandleSubscribe(c), UNCHANGED alive
    PROVE  ClientType'
  BY DEF HandleSubscribe, ClientType

\* _StartReconnectCountdown stays within the budget and the cap.
LEMMA CountdownType ==
    ASSUME ReconnectType, CanRetry, NEW timerOk \in BOOLEAN,
           StartReconnectCountdown(timerOk)
    PROVE  /\ fReconnectAttempt' \in 0..MaxAttempts
           /\ fReconnectSecondsLeft' \in 0..DelayCap
           /\ fReconnectTimer' \in BOOLEAN
           /\ timerOk => fReconnectSecondsLeft' >= 1
<1>1. MaxAttempts \in Nat /\ DelayCap \in Nat
  BY ConstantsAssumption
<1>2. fReconnectAttempt + 1 \in Nat \ {0} /\ fReconnectAttempt + 1 <= MaxAttempts
  BY <1>1 DEF ReconnectType, CanRetry
<1>3. reconnect_delay_seconds(fReconnectAttempt + 1) \in 1..DelayCap
  BY <1>2, DelayType
<1> HIDE DEF reconnect_delay_seconds
<1> QED BY <1>1, <1>2, <1>3 DEF StartReconnectCountdown

\* _KickHomeGeoLookup keeps the lookup's fields typed.
LEMMA KickType ==
    ASSUME GeoType, KickHomeGeoLookup
    PROVE  /\ fHomeLookupInFlight' \in BOOLEAN
           /\ homeLookup' \in {"none", "asking", "carrier", "exit", "failed"}
  BY DEF KickHomeGeoLookup, GeoType

\* _CancelReconnect keeps the countdown's fields typed.
LEMMA CancelType ==
    ASSUME CancelReconnect
    PROVE  fReconnectTimer' \in BOOLEAN /\ fReconnectSecondsLeft' \in 0..DelayCap
<1>1. fReconnectTimer' = FALSE /\ fReconnectSecondsLeft' = 0
  BY DEF CancelReconnect
<1>2. fReconnectTimer' \in BOOLEAN
  BY <1>1
<1>3. 0 \in 0..DelayCap
  BY ConstantsAssumption
<1> QED BY <1>1, <1>2, <1>3

\* _ArmReconnect keeps the auto-reconnect fields typed.
LEMMA ArmType ==
    ASSUME ReconnectType, NEW p \in Profile, ArmReconnect(p)
    PROVE  ReconnectType'
<1>1. MaxAttempts \in Nat /\ DelayCap \in Nat
  BY ConstantsAssumption
<1>2. fReconnectProfile' = p /\ fReconnectAttempt' = 0 /\ retries' = 0
      /\ fReconnectSecondsLeft' = 0
  BY DEF ArmReconnect, CancelReconnect
<1>3. fUserInitiatedDisconnect' = FALSE /\ fReconnectArmed' = TRUE /\ fReconnectTimer' = FALSE
  BY DEF ArmReconnect, CancelReconnect
<1>4. fReconnectProfile' \in Profile \cup {NoProfile}
  BY <1>2
<1>5. /\ fReconnectAttempt' \in 0..MaxAttempts
      /\ fReconnectSecondsLeft' \in 0..DelayCap
      /\ retries' \in Nat
  BY <1>1, <1>2
<1>6. /\ fUserInitiatedDisconnect' \in BOOLEAN /\ fReconnectArmed' \in BOOLEAN
      /\ fReconnectTimer' \in BOOLEAN
  BY <1>3
<1> QED BY <1>4, <1>5, <1>6 DEF ReconnectType

\* _HandleConnect, refused, rejected or accepted, keeps TypeOK.
LEMMA HandleConnectType ==
    ASSUME TypeOK, NEW c \in Clients, NEW p \in Profile,
           NEW h \in Hosts \cup {NoHost}, HandleConnect(c, p, h)
    PROVE  TypeOK'
<1>0. SessionType /\ HostType /\ ReconnectType /\ ClientType /\ GeoType
  BY TypeOKParts
<1>1. p.kind \in Kinds /\ backend[p.kind] \in Backend
  BY <1>0, ConstantsAssumption DEF Profile, SessionType
<1>2. CASE RefuseConnect(c, h)
  <2>1. State \in VPNState
    BY <1>0, StateType
  <2>2. view' \in [Clients -> View \cup {Untold}]
    BY <1>0, <1>2, <2>1, ReplyToType DEF RefuseConnect
  <2>3. SessionType' /\ HostType' /\ ReconnectType' /\ ClientType' /\ GeoType'
    BY <1>0, <1>2, <2>2
       DEF RefuseConnect, sessionVars, reconnectVars, geoVars, SessionType, HostType,
           ReconnectType, ClientType, GeoType
  <2> QED BY <2>3, TypeOKNext
<1>3. CASE RejectConfigPath(c, p)
  <2>1. backend[p.kind].state \in VPNState
    BY <1>1, BackendUpdates
  <2>2. view' \in [Clients -> View \cup {Untold}]
    BY <1>0, <1>3, <2>1, ReplyToType DEF RejectConfigPath
  <2>3. SessionType' /\ HostType' /\ ReconnectType' /\ ClientType' /\ GeoType'
    BY <1>0, <1>1, <1>3, <2>2
       DEF RejectConfigPath, reconnectVars, geoVars, SessionType, HostType,
           ReconnectType, ClientType, GeoType
  <2> QED BY <2>3, TypeOKNext
<1>4. CASE AcceptConnect(c, p, h)
  <2>1. PICK o \in ConnectOutcomes(p.kind, backend[p.kind]) :
          /\ Post(p.kind, o)
          /\ fConnectedHost' = IF o.ok THEN h ELSE NoHost
          /\ IF o.ok THEN HandleSubscribe(c)
             ELSE fClients' = fClients \cup {c} /\ ReplyTo(c, o.bk.state, NoHost)
    BY <1>4 DEF AcceptConnect
  <2>2. o \in Outcome
    BY <1>1, <2>1, ConnectOutcomesType
  <2>3. o.bk.state \in VPNState
    BY <2>2, BackendUpdates DEF Outcome
  <2>4. SessionType'
    BY <1>0, <1>1, <1>4, <2>1, <2>2, PostType DEF AcceptConnect, SessionType
  <2>5. HostType'
    BY <1>0, <1>4, <2>1 DEF AcceptConnect, HostType
  <2>6. ReconnectType'
    BY <1>0, <1>4, ArmType DEF AcceptConnect
  <2>7. ClientType'
    <3>1. UNCHANGED alive
      BY <1>4 DEF AcceptConnect
    <3>2. CASE o.ok
      BY <1>0, <2>1, <3>1, <3>2, SubscribeType
    <3>3. CASE ~o.ok
      BY <1>0, <2>1, <2>3, <3>1, <3>3, ReplyToType DEF ClientType
    <3> QED BY <3>2, <3>3
  <2>8. GeoType'
    BY <1>0, <1>4 DEF AcceptConnect, geoVars, GeoType
  <2> QED BY <2>4, <2>5, <2>6, <2>7, <2>8, TypeOKNext
<1> QED BY <1>2, <1>3, <1>4 DEF HandleConnect

\* _HandleStatusForNotification and its broadcast keep TypeOK.
LEMMA HandleStatusType ==
    ASSUME TypeOK, HandleStatus
    PROVE  TypeOK'
<1>0. SessionType /\ HostType /\ ReconnectType /\ ClientType /\ GeoType
  BY TypeOKParts
<1> DEFINE reported == Head(mailbox)
           drop == reported = "DISCONNECTED" /\ CanRetry
           new(t) == IF drop /\ t THEN "RECONNECTING" ELSE reported
           up(t) == new(t) # fLastState /\ new(t) = "CONNECTED"
<1>1. PICK t \in TimerOutcomes :
        /\ fLastState' = new(t)
        /\ fConnectedHost' = HostAfter(new(t))
        /\ IF drop
           THEN StartReconnectCountdown(t) /\ UNCHANGED retries
           ELSE /\ fReconnectAttempt' = IF up(t) THEN 0 ELSE fReconnectAttempt
                /\ retries' = IF up(t) THEN 0 ELSE retries
                /\ UNCHANGED <<fReconnectTimer, fReconnectSecondsLeft>>
        /\ \/ \E spawned \in SpawnOutcomes : countryLookup' = (countryLookup \/ spawned)
           \/ UNCHANGED countryLookup
        /\ \/ KickHomeGeoLookup
           \/ UNCHANGED <<fHomeLookupInFlight, homeLookup>>
        /\ Broadcast(new(t), HostAfter(new(t)))
  BY Zenon DEF HandleStatus
<1>2. t \in BOOLEAN /\ MaxAttempts \in Nat
  BY ConstantsAssumption
<1>3. reported \in VPNState /\ Tail(mailbox) \in Seq(VPNState)
  BY <1>0 DEF SessionType, HandleStatus
<1>4. new(t) \in VPNState
  BY <1>3 DEF VPNState
<1>5. HostAfter(new(t)) \in Hosts \cup {NoHost}
  BY <1>0 DEF HostAfter, HostType
<1>6. SessionType'
  BY <1>0, <1>3 DEF HandleStatus, SessionType
<1>7. HostType'
  BY <1>1, <1>4, <1>5 DEF HostType
<1>8. ReconnectType'
  <2>1. UNCHANGED <<fReconnectProfile, fUserInitiatedDisconnect, fReconnectArmed>>
    BY DEF HandleStatus
  <2>2. CASE drop
    <3>1. /\ fReconnectAttempt' \in 0..MaxAttempts
          /\ fReconnectSecondsLeft' \in 0..DelayCap
          /\ fReconnectTimer' \in BOOLEAN
      BY <1>0, <1>1, <1>2, <2>2, CountdownType
    <3> QED BY <1>0, <1>1, <2>1, <2>2, <3>1 DEF ReconnectType
  <2>3. CASE ~drop
    BY <1>0, <1>1, <1>2, <2>1, <2>3 DEF ReconnectType
  <2> QED BY <2>2, <2>3
<1>9. ClientType'
  <2> HIDE DEF new
  <2> QED BY <1>0, <1>1, <1>4, <1>5, BroadcastType
<1>10. GeoType'
  <2>1. countryLookup' \in BOOLEAN
    BY <1>0, <1>1, ConstantsAssumption, Zenon DEF GeoType
  <2>2. /\ fHomeLookupInFlight' \in BOOLEAN
        /\ homeLookup' \in {"none", "asking", "carrier", "exit", "failed"}
    <3>1. CASE KickHomeGeoLookup
      BY <1>0, <3>1, KickType
    <3>2. CASE UNCHANGED <<fHomeLookupInFlight, homeLookup>>
      BY <1>0, <3>2 DEF GeoType
    <3> QED BY <1>1, <3>1, <3>2
  <2> QED BY <1>0, <2>1, <2>2 DEF GeoType, HandleStatus
<1> QED BY <1>6, <1>7, <1>8, <1>9, <1>10, TypeOKNext

\* A client's connect, with or without a VPNGate host, keeps TypeOK.
LEMMA ConnectType ==
    ASSUME TypeOK, NEW c \in Clients, Connect(c) \/ ConnectVPNGate(c)
    PROVE  TypeOK'
<1>0. SessionType /\ HostType /\ ReconnectType /\ ClientType /\ GeoType
  BY TypeOKParts
<1>1. CASE Connect(c)
  <2>1. PICK k \in UsedKinds :
          HandleConnect(c, [kind |-> k, host |-> NoHost], fConnectedHost)
    BY <1>1 DEF Connect
  <2>2. [kind |-> k, host |-> NoHost] \in Profile
    BY DEF Profile
  <2> QED BY <1>0, <2>1, <2>2, HandleConnectType DEF HostType
<1>2. CASE ConnectVPNGate(c)
  <2>1. PICK h \in Hosts : \/ RejectVPNGate(c)
                           \/ HandleConnect(c, [kind |-> "OpenVPN", host |-> h], h)
    BY <1>2 DEF ConnectVPNGate
  <2>2. [kind |-> "OpenVPN", host |-> h] \in Profile
    BY <1>2 DEF ConnectVPNGate, Profile
  <2>3. CASE RejectVPNGate(c)
    <3>1. State \in VPNState
      BY <1>0, StateType
    <3>2. view' \in [Clients -> View \cup {Untold}]
      BY <1>0, <2>3, <3>1, ReplyToType DEF RejectVPNGate
    <3>3. SessionType' /\ HostType' /\ ReconnectType' /\ ClientType' /\ GeoType'
      BY <1>0, <2>3, <3>2
         DEF RejectVPNGate, sessionVars, reconnectVars, geoVars, SessionType, HostType,
             ReconnectType, ClientType, GeoType
    <3> QED BY <3>3, TypeOKNext
  <2> QED BY <2>1, <2>2, <2>3, HandleConnectType
<1> QED BY <1>1, <1>2

\* _HandleDisconnect keeps TypeOK.
LEMMA DisconnectType ==
    ASSUME TypeOK, Disconnect
    PROVE  TypeOK'
<1>0. SessionType /\ HostType /\ ReconnectType /\ ClientType /\ GeoType
  BY TypeOKParts
<1>1. fBackend \in Kinds /\ backend[fBackend] \in Backend
  BY <1>0 DEF SessionType
<1>2. DisconnectOutcome(fBackend, backend[fBackend]) \in Outcome
  BY <1>1, DisconnectOutcomeType
<1>3. SessionType'
  BY <1>0, <1>1, <1>2, PostType DEF Disconnect, SessionType
<1>4. HostType'
  BY <1>0 DEF Disconnect, HostType, VPNState
<1>5. ReconnectType'
  <2>1. fReconnectTimer' \in BOOLEAN /\ fReconnectSecondsLeft' \in 0..DelayCap
    BY CancelType DEF Disconnect
  <2>2. fUserInitiatedDisconnect' \in BOOLEAN
    BY DEF Disconnect
  <2> QED BY <1>0, <2>1, <2>2 DEF Disconnect, ReconnectType
<1>6. ClientType'
  <2>1. CASE fReconnectTimer
    <3>1. "DISCONNECTED" \in VPNState
      BY DEF VPNState
    <3>2. Broadcast("DISCONNECTED", fConnectedHost)
      BY <2>1 DEF Disconnect
    <3> QED BY <1>0, <3>1, <3>2, BroadcastType DEF HostType
  <2>2. CASE ~fReconnectTimer
    BY <1>0, <2>2 DEF Disconnect, ClientType, clientVars
  <2> QED BY <2>1, <2>2
<1>7. GeoType'
  BY <1>0 DEF Disconnect, geoVars, GeoType
<1> QED BY <1>3, <1>4, <1>5, <1>6, <1>7, TypeOKNext

\* _AttemptReconnect keeps TypeOK.
LEMMA AttemptType ==
    ASSUME TypeOK, AttemptReconnect
    PROVE  TypeOK'
<1>0. SessionType /\ HostType /\ ReconnectType /\ ClientType /\ GeoType
  BY TypeOKParts
<1> DEFINE k == fReconnectProfile.kind
<1>1. k \in Kinds /\ backend[k] \in Backend
  <2>1. fReconnectProfile \in Profile => k \in UsedKinds
    BY DEF Profile
  <2>2. fReconnectProfile = NoProfile => k = "OpenVPN"
    BY DEF NoProfile
  <2>3. UsedKinds \subseteq Kinds /\ "OpenVPN" \in Kinds
    BY ConstantsAssumption DEF Kinds
  <2>4. k \in Kinds
    BY <1>0, <2>1, <2>2, <2>3 DEF ReconnectType
  <2> QED BY <1>0, <2>4 DEF SessionType
<1>2. PICK o \in ConnectOutcomes(k, backend[k]) :
        /\ Post(k, o)
        /\ IF ~o.ok /\ CanRetry
           THEN \E timerOk \in TimerOutcomes :
                  /\ StartReconnectCountdown(timerOk)
                  /\ IF timerOk THEN Broadcast("RECONNECTING", fConnectedHost)
                     ELSE UNCHANGED clientVars
           ELSE /\ CancelReconnect
                /\ UNCHANGED <<fReconnectAttempt, clientVars>>
  BY DEF AttemptReconnect
<1>3. o \in Outcome
  BY <1>1, <1>2, ConnectOutcomesType
<1>4. SessionType'
  BY <1>0, <1>1, <1>2, <1>3, PostType DEF AttemptReconnect, SessionType
<1>5. HostType' /\ GeoType'
  BY <1>0 DEF AttemptReconnect, geoVars, GeoType, HostType
<1>6. /\ fReconnectAttempt' \in 0..MaxAttempts
      /\ fReconnectSecondsLeft' \in 0..DelayCap
      /\ fReconnectTimer' \in BOOLEAN
  <2>1. CASE ~o.ok /\ CanRetry
    <3>1. PICK t \in TimerOutcomes : StartReconnectCountdown(t)
      BY <1>2, <2>1
    <3>2. t \in BOOLEAN
      BY ConstantsAssumption
    <3> QED BY <1>0, <2>1, <3>1, <3>2, CountdownType
  <2>2. CASE ~(~o.ok /\ CanRetry)
    <3>1. CancelReconnect /\ UNCHANGED fReconnectAttempt
      BY <1>2, <2>2
    <3> QED BY <1>0, <3>1, CancelType DEF ReconnectType
  <2> QED BY <2>1, <2>2
<1>7. ReconnectType'
  BY <1>0, <1>6 DEF AttemptReconnect, ReconnectType
<1>8. ClientType'
  <2>1. "RECONNECTING" \in VPNState
    BY DEF VPNState
  <2>2. Broadcast("RECONNECTING", fConnectedHost) \/ UNCHANGED clientVars
    BY <1>2
  <2>3. CASE Broadcast("RECONNECTING", fConnectedHost)
    BY <1>0, <2>1, <2>3, BroadcastType DEF HostType
  <2>4. CASE UNCHANGED clientVars
    BY <1>0, <2>4 DEF clientVars, ClientType
  <2> QED BY <2>2, <2>3, <2>4
<1> QED BY <1>4, <1>5, <1>7, <1>8, TypeOKNext

\* The remaining handlers keep TypeOK.
LEMMA OtherStepsType ==
    ASSUME TypeOK,
           \/ \E c \in Clients : GetStatus(c) \/ Subscribe(c) \/ Unsubscribe(c) \/ ClientDies(c)
           \/ \E k \in Kinds : WorkerStep(k)
           \/ HandleStats \/ CountdownTick
           \/ HomeLookupAnswers \/ HandleHomeGeoResult \/ HandleCountryResult
    PROVE  TypeOK'
<1>0. SessionType /\ HostType /\ ReconnectType /\ ClientType /\ GeoType
  BY TypeOKParts
<1> USE DEF sessionVars, reconnectVars, clientVars, geoVars
<1>1. State \in VPNState /\ fConnectedHost \in Hosts \cup {NoHost}
  BY <1>0, StateType DEF HostType
<1>2. CASE \E c \in Clients : GetStatus(c)
  <2>1. view' \in [Clients -> View \cup {Untold}]
    BY <1>0, <1>1, <1>2, ReplyToType DEF GetStatus
  <2>2. SessionType' /\ HostType' /\ ReconnectType' /\ ClientType' /\ GeoType'
    BY <1>0, <1>2, <2>1
       DEF GetStatus, SessionType, HostType, ReconnectType, ClientType, GeoType
  <2> QED BY <2>2, TypeOKNext
<1>3. CASE \E c \in Clients : Subscribe(c)
  <2>1. ClientType'
    BY <1>0, <1>3, SubscribeType DEF Subscribe
  <2>2. SessionType' /\ HostType' /\ ReconnectType' /\ GeoType'
    BY <1>0, <1>3 DEF Subscribe, SessionType, HostType, ReconnectType, GeoType
  <2> QED BY <2>1, <2>2, TypeOKNext
<1>4. CASE \E c \in Clients : Unsubscribe(c) \/ ClientDies(c)
  <2>1. SessionType' /\ HostType' /\ ReconnectType' /\ ClientType' /\ GeoType'
    BY <1>0, <1>4 DEF Unsubscribe, ClientDies, SessionType, HostType, ReconnectType,
                      ClientType, GeoType
  <2> QED BY <2>1, TypeOKNext
<1>5. CASE \E k \in Kinds : WorkerStep(k)
  <2>1. PICK k \in Kinds : WorkerStep(k)
    BY <1>5
  <2>2. backend[k] \in Backend
    BY <1>0 DEF SessionType
  <2>3. PICK o \in WorkerSteps(k, backend[k]) : Post(k, o)
    BY <2>1 DEF WorkerStep
  <2>4. o \in Outcome
    BY <2>2, <2>3, WorkerStepsType
  <2>5. SessionType'
    BY <1>0, <2>1, <2>3, <2>4, PostType DEF WorkerStep, SessionType
  <2>6. HostType' /\ ReconnectType' /\ ClientType' /\ GeoType'
    BY <1>0, <2>1 DEF WorkerStep, HostType, ReconnectType, ClientType, GeoType
  <2> QED BY <2>5, <2>6, TypeOKNext
<1>6. CASE HandleStats
  <2>1. SessionType' /\ HostType' /\ ReconnectType' /\ ClientType' /\ GeoType'
    BY <1>0, <1>6 DEF HandleStats, SessionType, HostType, ReconnectType, ClientType, GeoType
  <2> QED BY <2>1, TypeOKNext
<1>7. CASE CountdownTick
  <2>1. ClientType'
    <3>1. "RECONNECTING" \in VPNState
      BY DEF VPNState
    <3> QED BY <1>0, <1>1, <1>7, <3>1, BroadcastType DEF CountdownTick
  <2>2. fReconnectSecondsLeft' \in 0..DelayCap
    BY <1>0, <1>7, ConstantsAssumption DEF CountdownTick, ReconnectType
  <2>3. SessionType' /\ HostType' /\ ReconnectType' /\ GeoType'
    BY <1>0, <1>7, <2>2 DEF CountdownTick, SessionType, HostType, ReconnectType, GeoType
  <2> QED BY <2>1, <2>3, TypeOKNext
<1>8. CASE HomeLookupAnswers
  <2>1. SessionType' /\ HostType' /\ ReconnectType' /\ ClientType' /\ GeoType'
    BY <1>0, <1>8 DEF HomeLookupAnswers, SessionType, HostType, ReconnectType, ClientType,
                      GeoType
  <2> QED BY <2>1, TypeOKNext
<1>9. CASE HandleHomeGeoResult
  <2>1. ClientType'
    <3>1. Broadcast(State, fConnectedHost) \/ UNCHANGED clientVars
      BY <1>9 DEF HandleHomeGeoResult
    <3> QED BY <1>0, <1>1, <3>1, BroadcastType DEF ClientType
  <2>2. GeoType'
    <3>1. /\ fHome' \in {"unknown", "carrier", "exit"}
          /\ homeLookup' \in {"none", "asking", "carrier", "exit", "failed"}
      BY <1>0, <1>9 DEF HandleHomeGeoResult, GeoType
    <3>2. fHomeLookupInFlight' \in BOOLEAN
      BY <1>9 DEF HandleHomeGeoResult
    <3> QED BY <1>0, <1>9, <3>1, <3>2 DEF HandleHomeGeoResult, GeoType
  <2>3. SessionType' /\ HostType' /\ ReconnectType'
    BY <1>0, <1>9 DEF HandleHomeGeoResult, SessionType, HostType, ReconnectType
  <2> QED BY <2>1, <2>2, <2>3, TypeOKNext
<1>10. CASE HandleCountryResult
  <2>1. ClientType'
    BY <1>0, <1>1, <1>10, BroadcastType DEF HandleCountryResult, ClientType
  <2>2. GeoType'
    BY <1>0, <1>10 DEF HandleCountryResult, GeoType
  <2>3. SessionType' /\ HostType' /\ ReconnectType'
    BY <1>0, <1>10 DEF HandleCountryResult, SessionType, HostType, ReconnectType
  <2> QED BY <2>1, <2>2, <2>3, TypeOKNext
<1> QED BY <1>2, <1>3, <1>4, <1>5, <1>6, <1>7, <1>8, <1>9, <1>10

\* The state ReadyToRun leaves is well typed.
LEMMA InitType == Init => TypeOK
<1> SUFFICES ASSUME Init PROVE TypeOK
  OBVIOUS
<1>1. SessionType
  BY DEF Init, SessionType, IdleBackend, Backend, VPNState, Kinds
<1>2. HostType
  BY DEF Init, HostType, VPNState
<1>3. ReconnectType
  <2>1. /\ fUserInitiatedDisconnect \in BOOLEAN /\ fReconnectArmed \in BOOLEAN
        /\ fReconnectTimer \in BOOLEAN
    BY DEF Init
  <2>2. /\ fReconnectAttempt \in 0..MaxAttempts /\ fReconnectSecondsLeft \in 0..DelayCap
        /\ retries \in Nat
    BY ConstantsAssumption DEF Init
  <2> QED BY <2>1, <2>2 DEF Init, ReconnectType
<1>4. ClientType
  BY DEF Init, ClientType
<1>5. GeoType
  BY ConstantsAssumption DEF Init, GeoType
<1> QED BY <1>1, <1>2, <1>3, <1>4, <1>5, TypeOKParts

\* The daemon's fields keep their types; in particular fReconnectAttempt never
\* exceeds the budget and no countdown is longer than the cap.
THEOREM TypeCorrect == Spec => []TypeOK
<1>1. ASSUME TypeOK, [Next]_vars PROVE TypeOK'
  <2>1. CASE Next
    BY <1>1, <2>1, ConnectType, DisconnectType, HandleStatusType, AttemptType,
       OtherStepsType DEF Next
  <2>2. CASE UNCHANGED vars
    BY <1>1, <2>2 DEF vars, sessionVars, reconnectVars, clientVars, geoVars, TypeOK
  <2> QED BY <1>1, <2>1, <2>2
<1> QED BY InitType, <1>1, PTL DEF Spec

-----------------------------------------------------------------------------
(***************************************************************************)
(* The retry budget.  RetriesBounded is not inductive: an attempt may only *)
(* be made because its countdown was paid for, so the countdown that is    *)
(* still running counts as one attempt more.  The one attempt that nobody  *)
(* pays for is a countdown which CONNECTED finds running.                  *)
(***************************************************************************)
RetryBudget ==
    /\ retries <= fReconnectAttempt + 1
    /\ fReconnectTimer => retries <= fReconnectAttempt

CountdownInv == TypeOK /\ CountdownIsWanted /\ RetryBudget

\* A handler that leaves the auto-reconnect fields alone keeps their invariant.
LEMMA ReconnectUnchanged ==
    ASSUME CountdownInv, TypeOK', UNCHANGED reconnectVars
    PROVE  CountdownInv'
  BY DEF CountdownInv, CountdownIsWanted, RetryBudget, reconnectVars

\* _ArmReconnect establishes the invariant of the auto-reconnect fields.
LEMMA ArmKeepsCountdownInv ==
    ASSUME TypeOK', NEW p, ArmReconnect(p)
    PROVE  CountdownInv'
<1>1. fReconnectTimer' = FALSE /\ retries' = 0 /\ fReconnectAttempt' = 0
  BY DEF ArmReconnect, CancelReconnect
<1> QED BY <1>1 DEF CountdownInv, CountdownIsWanted, RetryBudget

\* Every handler keeps the invariant of the auto-reconnect fields.
LEMMA CountdownStep ==
    ASSUME CountdownInv, [Next]_vars
    PROVE  CountdownInv'
<1>0. TypeOK /\ ReconnectType
  BY TypeOKParts DEF CountdownInv
<1>t. TypeOK'
  <2>1. CASE Next
    BY <1>0, <2>1, ConnectType, DisconnectType, HandleStatusType, AttemptType,
       OtherStepsType DEF Next
  <2>2. CASE UNCHANGED vars
    BY <1>0, <2>2 DEF vars, sessionVars, reconnectVars, clientVars, geoVars, TypeOK
  <2> QED BY <2>1, <2>2
<1>1. CASE \E c \in Clients : Connect(c) \/ ConnectVPNGate(c)
  <2>1. UNCHANGED reconnectVars \/ \E p : ArmReconnect(p)
    BY <1>1 DEF Connect, ConnectVPNGate, RejectVPNGate, HandleConnect, RefuseConnect,
                RejectConfigPath, AcceptConnect
  <2> QED BY <1>t, <2>1, ReconnectUnchanged, ArmKeepsCountdownInv
<1>2. CASE Disconnect
  <2>1. fReconnectTimer' = FALSE /\ UNCHANGED <<retries, fReconnectAttempt>>
    BY <1>2 DEF Disconnect, CancelReconnect
  <2> QED BY <1>t, <2>1 DEF CountdownInv, CountdownIsWanted, RetryBudget
<1>3. CASE HandleStatus
  <2> DEFINE drop == Head(mailbox) = "DISCONNECTED" /\ CanRetry
  <2>0. UNCHANGED <<fUserInitiatedDisconnect, fReconnectArmed>>
    BY <1>3 DEF HandleStatus
  <2>1. CASE drop
    <3>1. PICK t \in TimerOutcomes : StartReconnectCountdown(t) /\ UNCHANGED retries
      BY <1>3, <2>1, Zenon DEF HandleStatus
    <3>2. t \in BOOLEAN
      BY ConstantsAssumption
    <3>3. t => fReconnectSecondsLeft' >= 1
      BY <1>0, <2>1, <3>1, <3>2, CountdownType
    <3>4. fReconnectAttempt' = fReconnectAttempt + 1 /\ fReconnectTimer' = t
      BY <3>1 DEF StartReconnectCountdown
    <3>5. CountdownIsWanted'
      BY <2>0, <2>1, <3>3, <3>4 DEF CountdownIsWanted, CanRetry
    <3>6. RetryBudget'
      BY <1>0, <3>1, <3>4 DEF CountdownInv, RetryBudget, ReconnectType
    <3> QED BY <1>t, <3>5, <3>6 DEF CountdownInv
  <2>2. CASE ~drop
    <3>1. /\ UNCHANGED <<fReconnectTimer, fReconnectSecondsLeft>>
          /\ \/ fReconnectAttempt' = 0 /\ retries' = 0
             \/ UNCHANGED <<fReconnectAttempt, retries>>
      BY <1>3, <2>2, Zenon DEF HandleStatus
    <3>2. CountdownIsWanted'
      BY <2>0, <3>1 DEF CountdownInv, CountdownIsWanted
    <3>3. RetryBudget'
      BY <3>1 DEF CountdownInv, RetryBudget
    <3> QED BY <1>t, <3>2, <3>3 DEF CountdownInv
  <2> QED BY <2>1, <2>2
<1>4. CASE CountdownTick
  <2>1. CountdownIsWanted'
    BY <1>0, <1>4 DEF CountdownTick, CountdownInv, CountdownIsWanted, ReconnectType
  <2>2. RetryBudget'
    BY <1>4 DEF CountdownTick, CountdownInv, RetryBudget
  <2> QED BY <1>t, <2>1, <2>2 DEF CountdownInv
<1>5. CASE AttemptReconnect
  <2>0. /\ retries' = retries + 1 /\ retries <= fReconnectAttempt
        /\ UNCHANGED <<fUserInitiatedDisconnect, fReconnectArmed>>
    BY <1>5 DEF AttemptReconnect, FiringTick, CountdownInv, RetryBudget
  <2>1. CASE CanRetry /\ \E t \in TimerOutcomes : StartReconnectCountdown(t)
    <3>1. PICK t \in TimerOutcomes : StartReconnectCountdown(t)
      BY <2>1
    <3>2. t \in BOOLEAN
      BY ConstantsAssumption
    <3>3. t => fReconnectSecondsLeft' >= 1
      BY <1>0, <2>1, <3>1, <3>2, CountdownType
    <3>4. fReconnectAttempt' = fReconnectAttempt + 1 /\ fReconnectTimer' = t
      BY <3>1 DEF StartReconnectCountdown
    <3>5. CountdownIsWanted'
      BY <2>0, <2>1, <3>3, <3>4 DEF CountdownIsWanted, CanRetry
    <3>6. RetryBudget'
      BY <1>0, <2>0, <3>4 DEF RetryBudget, ReconnectType
    <3> QED BY <1>t, <3>5, <3>6 DEF CountdownInv
  <2>2. CASE CancelReconnect /\ UNCHANGED fReconnectAttempt
    <3>1. fReconnectTimer' = FALSE
      BY <2>2 DEF CancelReconnect
    <3>2. RetryBudget'
      BY <1>0, <2>0, <2>2, <3>1 DEF RetryBudget, ReconnectType
    <3> QED BY <1>t, <3>1, <3>2 DEF CountdownInv, CountdownIsWanted
  <2> QED BY <1>5, <2>1, <2>2 DEF AttemptReconnect
<1>6. CASE UNCHANGED reconnectVars
  BY <1>t, <1>6, ReconnectUnchanged
<1>7. ASSUME \/ \E c \in Clients :
                   GetStatus(c) \/ Subscribe(c) \/ Unsubscribe(c) \/ ClientDies(c)
             \/ \E k \in Kinds : WorkerStep(k)
             \/ HandleStats
             \/ HomeLookupAnswers \/ HandleHomeGeoResult \/ HandleCountryResult
             \/ UNCHANGED vars
      PROVE  UNCHANGED reconnectVars
  BY <1>7 DEF GetStatus, Subscribe, Unsubscribe, ClientDies, WorkerStep, HandleStats,
              HomeLookupAnswers, HandleHomeGeoResult, HandleCountryResult, vars
<1> QED BY <1>1, <1>2, <1>3, <1>4, <1>5, <1>6, <1>7 DEF Next

\* The invariant of the auto-reconnect fields holds in every reachable state.
LEMMA CountdownInvariant == Spec => []CountdownInv
<1>1. Init => CountdownInv
  <2> SUFFICES ASSUME Init PROVE CountdownInv
    OBVIOUS
  <2>1. TypeOK
    BY InitType
  <2>2. ~fReconnectTimer /\ retries = 0 /\ fReconnectAttempt = 0
    BY DEF Init
  <2> QED BY <2>1, <2>2 DEF CountdownInv, CountdownIsWanted, RetryBudget
<1> QED BY <1>1, CountdownStep, PTL DEF Spec

\* A countdown only ever runs for a session the user asked for and has not
\* asked to stop, whatever overtakes what.
THEOREM CountdownWanted == Spec => []CountdownIsWanted
<1>1. CountdownInv => CountdownIsWanted
  BY DEF CountdownInv
<1> QED BY <1>1, CountdownInvariant, PTL

\* The daemon makes at most MaxAttempts + 1 connects of its own between two
\* resets of the budget.
THEOREM RetriesNeverExceedBudget == Spec => []RetriesBounded
<1>1. CountdownInv => RetriesBounded
  BY ConstantsAssumption DEF CountdownInv, TypeOK, RetryBudget, RetriesBounded
<1> QED BY <1>1, CountdownInvariant, PTL

\* No attempt fires between a user Disconnect and the next accepted connect.
THEOREM StoppedMeansNoRetry == Spec => NoRetryAfterStop
<1>1. ASSUME CountdownInv, [Next]_vars, fUserInitiatedDisconnect'
      PROVE  retries' <= retries
  <2>0. retries \in Nat
    BY <1>1 DEF CountdownInv, TypeOK
  <2>1. CASE AttemptReconnect
    BY <1>1, <2>1 DEF AttemptReconnect, FiringTick
  <2>2. CASE HandleStatus
    <3>1. UNCHANGED retries \/ retries' = 0
      BY <2>2, Zenon DEF HandleStatus
    <3> QED BY <2>0, <3>1
  <2>3. CASE \E c \in Clients : Connect(c) \/ ConnectVPNGate(c)
    <3>1. UNCHANGED retries \/ retries' = 0
      BY <2>3 DEF Connect, ConnectVPNGate, RejectVPNGate, HandleConnect, RefuseConnect,
                  RejectConfigPath, AcceptConnect, ArmReconnect, reconnectVars
    <3> QED BY <2>0, <3>1
  <2>4. CASE \/ \E c \in Clients :
                  GetStatus(c) \/ Subscribe(c) \/ Unsubscribe(c) \/ ClientDies(c)
             \/ \E k \in Kinds : WorkerStep(k)
             \/ Disconnect \/ HandleStats \/ CountdownTick
             \/ HomeLookupAnswers \/ HandleHomeGeoResult \/ HandleCountryResult
             \/ UNCHANGED vars
    <3>1. UNCHANGED retries
      BY <2>4 DEF GetStatus, Subscribe, Unsubscribe, ClientDies, WorkerStep, Disconnect,
                  HandleStats, CountdownTick, HomeLookupAnswers, HandleHomeGeoResult,
                  HandleCountryResult, vars, reconnectVars
    <3> QED BY <2>0, <3>1
  <2> QED BY <1>1, <2>1, <2>2, <2>3, <2>4 DEF Next
<1>2. CountdownInv /\ [Next]_vars => [fUserInitiatedDisconnect' => retries' <= retries]_vars
  BY <1>1
<1> QED BY <1>2, CountdownInvariant, PTL DEF Spec, NoRetryAfterStop

\* The daemon connects on its own only while a session is wanted, and never more
\* often than its budget allows.
THEOREM RetriesSafe == Spec => []RetrySafe
<1>1. RetrySafe <=> CountdownIsWanted /\ RetriesBounded
  BY DEF RetrySafe
<1> QED BY <1>1, CountdownWanted, RetriesNeverExceedBudget, PTL

-----------------------------------------------------------------------------
(***************************************************************************)
(* What the backends' outcomes have in common.                             *)
(***************************************************************************)
\* Connect refuses, starts, or fails with ERROR as its last report.
LEMMA ConnectFacts ==
    ASSUME NEW k \in Kinds, NEW b \in Backend, NEW o \in ConnectOutcomes(k, b)
    PROVE  \/ o.posts = <<>> /\ o.bk = b /\ ~o.ok /\ b.state \notin DownStates
           \/ /\ o.posts = <<"CONNECTING">> /\ o.ok
              /\ o.bk.state = "CONNECTING" /\ o.bk.worker = "running"
           \/ /\ o.posts \in {<<"CONNECTING", "ERROR">>, <<"ERROR">>}
              /\ o.bk.state = "ERROR" /\ o.bk.worker \in {b.worker, "none"}
<1>1. CASE o = Refused(b) /\ b.state \notin DownStates
  BY <1>1 DEF Refused
<1>2. CASE o = Started
  BY <1>2 DEF Started
<1>3. CASE \E w \in {b.worker, "none"}, x \in BOOLEAN :
             o = FailedLate(w, x) \/ o = [FailedLate(w, x) EXCEPT !.ok = TRUE]
  BY <1>3 DEF FailedLate
<1>4. CASE o = [SetState(b, "ERROR", b.worker) EXCEPT !.ok = FALSE]
  BY <1>4 DEF SetState, Backend
<1>5. CASE o = [SetState([b EXCEPT !.stop = FALSE], "ERROR", b.worker) EXCEPT !.ok = FALSE]
  BY <1>5 DEF SetState, Backend
<1> QED
  BY <1>1, <1>2, <1>3, <1>4, <1>5 DEF ConnectOutcomes, OpenVPNConnect, WireGuardConnect,
                                     TailscaleConnect, Kinds

\* Disconnect leaves state and worker alone, or reports DISCONNECTED at once.
LEMMA DisconnectFacts ==
    ASSUME NEW k \in Kinds, NEW b \in Backend, NEW o, o = DisconnectOutcome(k, b)
    PROVE  \/ o.posts = <<>> /\ o.bk.state = b.state /\ o.bk.worker = b.worker
           \/ /\ o.posts = <<"DISCONNECTED">>
              /\ o.bk.state = "DISCONNECTED" /\ o.bk.worker = "none"
<1> DEFINE Facts(p) == \/ p.posts = <<>> /\ p.bk.state = b.state /\ p.bk.worker = b.worker
                       \/ /\ p.posts = <<"DISCONNECTED">>
                          /\ p.bk.state = "DISCONNECTED" /\ p.bk.worker = "none"
<1>1. Facts([Refused(b) EXCEPT !.ok = TRUE])
  BY DEF Refused
<1>2. Facts(StopAsked(b))
  BY DEF StopAsked, Backend
<1>3. Facts(StoppedAtOnce(b))
  BY DEF StoppedAtOnce, SetState, Backend
<1> HIDE DEF Facts
<1>4. Facts(DisconnectOutcome(k, b))
  BY <1>1, <1>2, <1>3 DEF DisconnectOutcome
<1> QED
  BY <1>4 DEF Facts

\* A worker reports the state it leads to, except for an openvpn that ends after
\* ERROR; it ends for good, and only openvpn's announces that.
LEMMA WorkerFacts ==
    ASSUME NEW k \in Kinds, NEW b \in Backend, NEW o \in WorkerSteps(k, b)
    PROVE  /\ b.worker # "none"
           /\ \/ o.posts = <<>> /\ o.bk.state = "ERROR" /\ b.state = "ERROR"
              \/ o.posts = <<o.bk.state>>
           /\ o.bk.state = "DISCONNECTED" => o.bk.worker # "running"
           /\ k = "OpenVPN" /\ b.worker = "exiting" =>
                o.bk.worker = "none" /\ o.bk.state \in DownStates
           /\ k # "OpenVPN" =>
                /\ o.bk.worker # "exiting"
                /\ o.bk.state \in DownStates => o.bk.worker = "none"
<1>0. b.worker # "none"
  BY DEF WorkerSteps, OpenVPNWorkerSteps, WireGuardWorkerSteps, TailscaleWorkerSteps, Kinds
<1>1. \A s, w : /\ SetState(b, s, w).posts = <<s>>
                /\ SetState(b, s, w).bk.state = s /\ SetState(b, s, w).bk.worker = w
  BY DEF SetState, Backend
<1>2. \A s, w : LET p == SetState([b EXCEPT !.stop = TRUE], s, w) IN
                p.posts = <<s>> /\ p.bk.state = s /\ p.bk.worker = w
  BY DEF SetState, Backend
<1>3. \A w : LET p == [Refused([b EXCEPT !.worker = w]) EXCEPT !.ok = TRUE] IN
             p.posts = <<>> /\ p.bk.state = b.state /\ p.bk.worker = w
  BY DEF Refused, Backend
<1>4. CASE k = "OpenVPN"
  <2>0. o \in OpenVPNWorkerSteps(b)
    BY <1>4 DEF WorkerSteps
  <2>1. ASSUME NEW s \in (VPNState \ DownStates) \cup {"ERROR"},
               o = SetState(b, s, "running"), b.worker = "running"
        PROVE  /\ o.posts = <<o.bk.state>> /\ o.bk.state # "DISCONNECTED"
               /\ b.worker # "exiting"
    <3>1. o.posts = <<s>> /\ o.bk.state = s
      BY <1>1, <2>1
    <3> QED BY <2>1, <3>1 DEF DownStates
  <2>2. ASSUME NEW w \in {"none", "exiting"},
               o = [Refused([b EXCEPT !.worker = w]) EXCEPT !.ok = TRUE],
               b.state = "ERROR", w = "none" \/ b.worker = "running"
        PROVE  /\ o.posts = <<>> /\ o.bk.state = "ERROR" /\ b.state = "ERROR"
               /\ b.worker = "exiting" => o.bk.worker = "none"
    <3>1. o.posts = <<>> /\ o.bk.state = b.state /\ o.bk.worker = w
      BY <1>3, <2>2
    <3> QED BY <2>2, <3>1
  <2>3. ASSUME NEW w \in {"none", "exiting"}, NEW s \in DownStates,
               o = SetState(b, s, w), w = "none" \/ b.worker = "running"
        PROVE  /\ o.posts = <<o.bk.state>> /\ o.bk.state \in DownStates
               /\ o.bk.worker # "running"
               /\ b.worker = "exiting" => o.bk.worker = "none"
    <3>1. o.posts = <<s>> /\ o.bk.state = s /\ o.bk.worker = w
      BY <1>1, <2>3
    <3> QED BY <2>3, <3>1
  <2>4. \/ \E s \in (VPNState \ DownStates) \cup {"ERROR"} :
             o = SetState(b, s, "running") /\ b.worker = "running"
        \/ \E w \in {"none", "exiting"} :
             /\ o = [Refused([b EXCEPT !.worker = w]) EXCEPT !.ok = TRUE]
             /\ b.state = "ERROR" /\ (w = "none" \/ b.worker = "running")
        \/ \E w \in {"none", "exiting"}, s \in DownStates :
             o = SetState(b, s, w) /\ (w = "none" \/ b.worker = "running")
    BY <2>0 DEF OpenVPNWorkerSteps, DownStates
  <2>5. "ERROR" \in DownStates
    BY DEF DownStates
  <2> QED BY <1>0, <1>4, <2>1, <2>2, <2>3, <2>4, <2>5
<1>5. CASE k # "OpenVPN"
  <2>1. ASSUME NEW s \in {"AUTHENTICATING", "CONNECTED"}, o = SetState(b, s, "running")
        PROVE  /\ o.posts = <<o.bk.state>> /\ o.bk.state \notin DownStates
               /\ o.bk.worker = "running"
    <3>1. o.posts = <<s>> /\ o.bk.state = s /\ o.bk.worker = "running"
      BY <1>1, <2>1
    <3> QED BY <3>1 DEF DownStates
  <2>2. ASSUME NEW s \in DownStates,
               \/ o = SetState(b, s, "none")
               \/ o = SetState([b EXCEPT !.stop = TRUE], s, "none")
        PROVE  o.posts = <<o.bk.state>> /\ o.bk.worker = "none"
    <3>1. CASE o = SetState(b, s, "none")
      BY <1>1, <3>1
    <3>2. CASE o = SetState([b EXCEPT !.stop = TRUE], s, "none")
      <4>1. o.posts = <<s>> /\ o.bk.state = s /\ o.bk.worker = "none"
        BY <1>2, <3>2
      <4> QED BY <4>1
    <3> QED BY <2>2, <3>1, <3>2
  <2>3. \/ \E s \in {"AUTHENTICATING", "CONNECTED"} : o = SetState(b, s, "running")
        \/ \E s \in DownStates : \/ o = SetState(b, s, "none")
                                 \/ o = SetState([b EXCEPT !.stop = TRUE], s, "none")
    BY <1>5 DEF WorkerSteps, WireGuardWorkerSteps, TailscaleWorkerSteps, Kinds, DownStates
  <2>4. "DISCONNECTED" \in DownStates
    BY DEF DownStates
  <2> QED BY <1>0, <1>5, <2>1, <2>2, <2>3, <2>4
<1> QED
  BY <1>4, <1>5

\* A report of one of the states S is in flight.
Pending(S, q) == \E i \in 1..Len(q) : q[i] \in S

\* What is in flight after a post: what was, and what was posted.
LEMMA PendingPosted ==
    ASSUME NEW S, NEW q \in Seq(VPNState), NEW p \in Seq(VPNState)
    PROVE  Pending(S, q \o p) <=> Pending(S, q) \/ Pending(S, p)
<1>1. /\ Len(q) \in Nat /\ Len(p) \in Nat /\ Len(q \o p) = Len(q) + Len(p)
      /\ \A i \in 1..(Len(q) + Len(p)) :
           (q \o p)[i] = IF i <= Len(q) THEN q[i] ELSE p[i - Len(q)]
  OBVIOUS
<1>2. ASSUME Pending(S, q \o p) PROVE Pending(S, q) \/ Pending(S, p)
  <2>1. PICK i \in 1..(Len(q) + Len(p)) : (q \o p)[i] \in S
    BY <1>1, <1>2 DEF Pending
  <2>2. CASE i <= Len(q)
    BY <1>1, <2>1, <2>2 DEF Pending
  <2>3. CASE i > Len(q)
    <3>1. i - Len(q) \in 1..Len(p) /\ p[i - Len(q)] \in S
      BY <1>1, <2>1, <2>3
    <3> QED BY <3>1 DEF Pending
  <2> QED BY <1>1, <2>2, <2>3
<1>3. ASSUME Pending(S, q) PROVE Pending(S, q \o p)
  BY <1>1, <1>3 DEF Pending
<1>4. ASSUME Pending(S, p) PROVE Pending(S, q \o p)
  <2>1. PICK i \in 1..Len(p) : p[i] \in S
    BY <1>4 DEF Pending
  <2>2. i + Len(q) \in 1..(Len(q) + Len(p)) /\ (q \o p)[i + Len(q)] = p[i]
    BY <1>1, <2>1
  <2> QED BY <1>1, <2>1, <2>2 DEF Pending
<1> QED BY <1>2, <1>3, <1>4

\* What is in flight before the first report is taken: it, and what is left.
LEMMA PendingTaken ==
    ASSUME NEW S, NEW q \in Seq(VPNState), q # <<>>
    PROVE  Pending(S, q) <=> Head(q) \in S \/ Pending(S, Tail(q))
<1>1. /\ Len(q) \in Nat \ {0} /\ Len(Tail(q)) = Len(q) - 1 /\ Head(q) = q[1]
      /\ \A i \in 1..(Len(q) - 1) : Tail(q)[i] = q[i + 1]
  OBVIOUS
<1>2. ASSUME Pending(S, q), Head(q) \notin S PROVE Pending(S, Tail(q))
  <2>1. PICK i \in 1..Len(q) : q[i] \in S
    BY <1>2 DEF Pending
  <2>2. i # 1
    BY <1>1, <1>2, <2>1
  <2>3. i - 1 \in 1..(Len(q) - 1) /\ Tail(q)[i - 1] = q[i]
    BY <1>1, <2>2
  <2> QED BY <1>1, <2>1, <2>3 DEF Pending
<1>3. ASSUME Head(q) \in S PROVE Pending(S, q)
  BY <1>1, <1>3 DEF Pending
<1>4. ASSUME Pending(S, Tail(q)) PROVE Pending(S, q)
  <2>1. PICK i \in 1..(Len(q) - 1) : Tail(q)[i] \in S
    BY <1>1, <1>4 DEF Pending
  <2>2. i + 1 \in 1..Len(q) /\ q[i + 1] \in S
    BY <1>1, <2>1
  <2> QED BY <2>2 DEF Pending
<1> QED BY <1>2, <1>3, <1>4

\* A report that leaves nothing behind is the only one.
LEMMA OnlyReport ==
    ASSUME NEW q \in Seq(VPNState), q # <<>>, Tail(q) = <<>>
    PROVE  Len(q) = 1 /\ Head(q) = q[1]
<1>1. Len(q) \in Nat /\ Len(q) # 0 /\ Head(q) = q[1]
  OBVIOUS
<1>2. Len(Tail(q)) = Len(q) - 1
  OBVIOUS
<1>3. Len(Tail(q)) = 0
  <2>1. Len(<<>>) = 0
    OBVIOUS
  <2> QED BY <2>1, Zenon
<1> DEFINE m == Len(Tail(q))
           n == Len(q)
<1>4. n \in Nat /\ m = n - 1 /\ m = 0
  BY <1>1, <1>2, <1>3
<1> HIDE DEF m, n
<1>5. n = 1
  BY <1>4
<1> QED BY <1>1, <1>5 DEF n

\* A report of the given state is in flight once it is posted last.
LEMMA PendingOne ==
    ASSUME NEW S
    PROVE  /\ ~Pending(S, <<>>)
           /\ \A s : Pending(S, <<s>>) <=> s \in S
           /\ \A s, t : Pending(S, <<s, t>>) <=> s \in S \/ t \in S
<1>1. ~Pending(S, <<>>)
  BY DEF Pending
<1>2. ASSUME NEW s PROVE Pending(S, <<s>>) <=> s \in S
  BY DEF Pending
<1>3. ASSUME NEW s, NEW t PROVE Pending(S, <<s, t>>) <=> s \in S \/ t \in S
  <2> DEFINE q == <<s, t>>
  <2>1. Len(q) = 2 /\ q[1] = s /\ q[2] = t
    OBVIOUS
  <2> HIDE DEF q
  <2>2. Pending(S, q) <=> s \in S \/ t \in S
    BY <2>1 DEF Pending
  <2> QED BY <2>2 DEF q
<1> QED BY <1>1, <1>2, <1>3

\* Where a post leaves the backends.
LEMMA PostedBackend ==
    ASSUME SessionType, NEW k \in Kinds, NEW o, Post(k, o)
    PROVE  /\ backend'[k] = o.bk
           /\ \A j \in Kinds : j # k => backend'[j] = backend[j]
           /\ mailbox' = mailbox \o o.posts
  BY DEF SessionType, Post

-----------------------------------------------------------------------------
(***************************************************************************)
(* The host the map points at.  HostClearedWhenDown is not inductive: what *)
(* clears the host is a report, so while a session that is down still has  *)
(* one, the report that clears it has to be on its way.                    *)
(***************************************************************************)
HostBacked ==
    fConnectedHost # NoHost =>
        State \notin DownStates \/ fReconnectTimer \/ Pending(DownStates, mailbox)

\* A connect that was let through leaves a session, or reports that there is none.
LEMMA ConnectBacks ==
    ASSUME SessionType, NEW k \in Kinds, NEW o \in ConnectOutcomes(k, backend[k]),
           Post(k, o), fBackend' = k
    PROVE  State' \notin DownStates \/ Pending(DownStates, mailbox')
<1>1. backend[k] \in Backend
  BY DEF SessionType
<1>2. o.posts \in Seq(VPNState)
  BY <1>1, ConnectOutcomesType DEF Outcome
<1>3. State' = o.bk.state /\ mailbox' = mailbox \o o.posts /\ mailbox \in Seq(VPNState)
  BY PostedBackend DEF State, SessionType
<1>4. o.bk.state \notin DownStates \/ Pending(DownStates, o.posts)
  <2>1. "ERROR" \in DownStates /\ "CONNECTING" \notin DownStates
    BY DEF DownStates
  <2>2. Pending(DownStates, <<"ERROR">>) /\ Pending(DownStates, <<"CONNECTING", "ERROR">>)
    BY <2>1, PendingOne
  <2> QED BY <1>1, <2>1, <2>2, ConnectFacts
<1> QED BY <1>2, <1>3, <1>4, PendingPosted

\* Every handler keeps the host backed.
LEMMA HostStep ==
    ASSUME TypeOK, HostBacked, [Next]_vars
    PROVE  HostBacked'
<1>0. SessionType /\ HostType /\ ReconnectType
  BY TypeOKParts
<1> USE DEF sessionVars, reconnectVars
<1>1. ASSUME NEW c \in Clients, NEW p \in Profile, NEW h, HandleConnect(c, p, h)
      PROVE  HostBacked'
  <2>0. p.kind \in Kinds
    BY ConstantsAssumption DEF Profile
  <2>1. CASE RefuseConnect(c, h)
    BY <2>1 DEF RefuseConnect, HostBacked, State
  <2>2. CASE RejectConfigPath(c, p)
    BY <2>2 DEF RejectConfigPath, HostBacked
  <2>3. CASE AcceptConnect(c, p, h)
    <3>1. PICK o \in ConnectOutcomes(p.kind, backend[p.kind]) : Post(p.kind, o)
      BY <2>3 DEF AcceptConnect
    <3>2. fBackend' = p.kind
      BY <2>3 DEF AcceptConnect
    <3> QED BY <1>0, <2>0, <3>1, <3>2, ConnectBacks DEF HostBacked
  <2> QED BY <1>1, <2>1, <2>2, <2>3 DEF HandleConnect
<1>2. CASE \E c \in Clients : Connect(c)
  <2>1. PICK c \in Clients, k \in UsedKinds :
          HandleConnect(c, [kind |-> k, host |-> NoHost], fConnectedHost)
    BY <1>2 DEF Connect
  <2>2. [kind |-> k, host |-> NoHost] \in Profile
    BY DEF Profile
  <2> QED BY <1>1, <2>1, <2>2
<1>3. CASE \E c \in Clients : ConnectVPNGate(c)
  <2>1. PICK c \in Clients, h \in Hosts :
          RejectVPNGate(c) \/ HandleConnect(c, [kind |-> "OpenVPN", host |-> h], h)
    BY <1>3 DEF ConnectVPNGate
  <2>2. [kind |-> "OpenVPN", host |-> h] \in Profile
    BY <1>3 DEF Profile, ConnectVPNGate
  <2>3. CASE RejectVPNGate(c)
    BY <2>3 DEF RejectVPNGate, HostBacked
  <2> QED BY <1>1, <2>1, <2>2, <2>3
<1>4. CASE Disconnect
  <2> DEFINE o == DisconnectOutcome(fBackend, backend[fBackend])
  <2>1. fBackend \in Kinds /\ backend[fBackend] \in Backend /\ mailbox \in Seq(VPNState)
    BY <1>0 DEF SessionType
  <2>2. Post(fBackend, o) /\ UNCHANGED fBackend
    BY <1>4 DEF Disconnect
  <2>3. o.posts \in Seq(VPNState)
    BY <2>1, DisconnectOutcomeType DEF Outcome
  <2>4. \/ o.posts = <<>> /\ o.bk.state = State
        \/ o.posts = <<"DISCONNECTED">>
    BY <2>1, DisconnectFacts DEF State
  <2> HIDE DEF o
  <2>5. State' = o.bk.state /\ mailbox' = mailbox \o o.posts
    BY <1>0, <2>1, <2>2, PostedBackend DEF State
  <2>6. fConnectedHost' # NoHost => ~fReconnectTimer /\ UNCHANGED fConnectedHost
    BY <1>4 DEF Disconnect
  <2>7. CASE o.posts = <<>> /\ o.bk.state = State
    <3>1. Pending(DownStates, mailbox') <=> Pending(DownStates, mailbox)
      BY <2>1, <2>3, <2>5, <2>7, PendingPosted, PendingOne
    <3> QED BY <2>5, <2>6, <2>7, <3>1 DEF HostBacked
  <2>8. CASE o.posts = <<"DISCONNECTED">>
    <3>1. Pending(DownStates, o.posts)
      BY <2>8, PendingOne DEF DownStates
    <3> QED BY <2>1, <2>3, <2>5, <3>1, PendingPosted DEF HostBacked
  <2> QED BY <2>4, <2>7, <2>8
<1>5. CASE \E k \in Kinds : WorkerStep(k)
  <2>1. PICK k \in Kinds : WorkerStep(k)
    BY <1>5
  <2>2. backend[k] \in Backend /\ mailbox \in Seq(VPNState) /\ fBackend \in Kinds
    BY <1>0 DEF SessionType
  <2>3. PICK o \in WorkerSteps(k, backend[k]) : Post(k, o)
    BY <2>1 DEF WorkerStep
  <2>4. o.posts \in Seq(VPNState)
    BY <2>2, WorkerStepsType DEF Outcome
  <2>5. UNCHANGED <<fBackend, fConnectedHost, fReconnectTimer>>
    BY <2>1 DEF WorkerStep
  <2>6. /\ backend'[k] = o.bk /\ (k # fBackend => State' = State)
        /\ mailbox' = mailbox \o o.posts
    BY <1>0, <2>2, <2>3, <2>5, PostedBackend DEF State
  <2>7. Pending(DownStates, mailbox) => Pending(DownStates, mailbox')
    BY <2>2, <2>4, <2>6, PendingPosted
  <2>8. CASE k # fBackend
    BY <2>5, <2>6, <2>7, <2>8 DEF HostBacked
  <2>9. CASE k = fBackend
    <3>1. State' = o.bk.state /\ State = backend[k].state
      BY <2>5, <2>6, <2>9 DEF State
    <3>2. State' = State \/ o.posts = <<State'>>
      BY <2>2, <3>1, WorkerFacts
    <3>3. CASE o.posts = <<State'>>
      <4>1. State' \in DownStates => Pending(DownStates, o.posts)
        BY <3>3, PendingOne
      <4> QED BY <2>2, <2>4, <2>6, <4>1, PendingPosted DEF HostBacked
    <3>4. CASE State' = State
      BY <2>5, <2>7, <3>4 DEF HostBacked
    <3> QED BY <3>2, <3>3, <3>4
  <2> QED BY <2>8, <2>9
<1>6. CASE HandleStatus
  <2> DEFINE drop == Head(mailbox) = "DISCONNECTED" /\ CanRetry
  <2>1. PICK timerOk \in TimerOutcomes :
          LET new == IF drop /\ timerOk THEN "RECONNECTING" ELSE Head(mailbox)
          IN /\ fConnectedHost' = HostAfter(new)
             /\ IF drop THEN StartReconnectCountdown(timerOk)
                ELSE UNCHANGED fReconnectTimer
    BY <1>6 DEF HandleStatus
  <2>2. mailbox # <<>> /\ mailbox' = Tail(mailbox) /\ UNCHANGED <<backend, fBackend>>
    BY <1>6 DEF HandleStatus
  <2>3. State' = State
    BY <2>2 DEF State
  <2>4. CASE drop /\ timerOk
    BY <2>1, <2>4 DEF StartReconnectCountdown, HostBacked
  <2>5. CASE ~(drop /\ timerOk)
    <3>1. fConnectedHost' = HostAfter(Head(mailbox))
      BY <2>1, <2>5
    <3>2. CASE Head(mailbox) \in DownStates
      BY <3>1, <3>2 DEF HostAfter, HostBacked
    <3>3. CASE Head(mailbox) \notin DownStates
      <4>1. ~drop
        BY <3>3 DEF DownStates
      <4>2. UNCHANGED <<fConnectedHost, fReconnectTimer>>
        BY <2>1, <3>1, <3>3, <4>1 DEF HostAfter
      <4>3. Pending(DownStates, mailbox) => Pending(DownStates, mailbox')
        BY <1>0, <2>2, <3>3, PendingTaken DEF SessionType
      <4> QED BY <2>3, <4>2, <4>3 DEF HostBacked
    <3> QED BY <3>2, <3>3
  <2> QED BY <2>4, <2>5
<1>7. CASE AttemptReconnect
  <2>1. fReconnectProfile.kind \in Kinds /\ fBackend' = fReconnectProfile.kind
    BY <1>0, <1>7, ConstantsAssumption
       DEF AttemptReconnect, ReconnectType, Profile, NoProfile, Kinds
  <2>2. PICK o \in ConnectOutcomes(fReconnectProfile.kind, backend[fReconnectProfile.kind]) :
          Post(fReconnectProfile.kind, o)
    BY <1>7 DEF AttemptReconnect
  <2> QED BY <1>0, <2>1, <2>2, ConnectBacks DEF HostBacked
<1>8. CASE \/ \E c \in Clients :
                GetStatus(c) \/ Subscribe(c) \/ Unsubscribe(c) \/ ClientDies(c)
           \/ HandleStats \/ CountdownTick
           \/ HomeLookupAnswers \/ HandleHomeGeoResult \/ HandleCountryResult
           \/ UNCHANGED vars
  <2>1. UNCHANGED <<sessionVars, fConnectedHost, fReconnectTimer>>
    BY <1>8 DEF GetStatus, Subscribe, Unsubscribe, ClientDies, HandleStats, CountdownTick,
                HomeLookupAnswers, HandleHomeGeoResult, HandleCountryResult, vars
  <2> QED BY <2>1 DEF HostBacked, State
<1> QED BY <1>2, <1>3, <1>4, <1>5, <1>6, <1>7, <1>8 DEF Next

\* Once every report is handled, a daemon without session and without countdown
\* aims at no VPNGate host: for every mix of backends, and even when requests
\* overtake the reports.
THEOREM HostIsCleared == Spec => []HostClearedWhenDown
<1>1. Init => HostBacked
  BY DEF Init, HostBacked
<1>2. TypeOK /\ HostBacked /\ [Next]_vars => HostBacked'
  BY HostStep
<1>3. TypeOK /\ HostBacked => HostClearedWhenDown
  BY PendingOne DEF HostBacked, HostClearedWhenDown
<1> QED BY <1>1, <1>2, <1>3, TypeCorrect, PTL DEF Spec

-----------------------------------------------------------------------------
(***************************************************************************)
(* What the subscribers are shown.  SessionAnnounced speaks of a daemon    *)
(* that has handled its reports; what carries it there is that the reports *)
(* in flight end with the state there is, and that a drop, once reported,  *)
(* means that nothing runs that could raise the session again.             *)
(*                                                                         *)
(* Two assumptions.  Requests do not overtake reports.  And the profiles   *)
(* are all for openvpn, or none is: openvpn may be in ERROR with its child *)
(* running, and a session that another backend then starts has two workers *)
(* reporting.                                                              *)
(***************************************************************************)
InOrder == ~Overtaking

OneFamily == UsedKinds \subseteq {"OpenVPN"} \/ "OpenVPN" \notin UsedKinds

Idle(b) == b.state \in DownStates /\ b.worker = "none"

\* Only the selected backend has work attached, or a session.
OthersIdle == \A k \in Kinds : k # fBackend => Idle(backend[k])

\* What is selected and what is retried was asked for by some profile, but for
\* the openvpn backend that is selected from the start.
KindsUsed ==
    /\ fReconnectArmed => fReconnectProfile.kind \in UsedKinds
    /\ fBackend \in UsedKinds \cup {"OpenVPN"}
    /\ "OpenVPN" \notin UsedKinds =>
         backend["OpenVPN"].state = "DISCONNECTED" /\ backend["OpenVPN"].worker = "none"

\* A reader or worker other than openvpn's is gone when its session is down.
Settled ==
    fBackend # "OpenVPN" =>
        /\ backend[fBackend].worker # "exiting"
        /\ State \in DownStates => backend[fBackend].worker = "none"

\* The last report in flight is of the state there is.
LastIsState == mailbox # <<>> => mailbox[Len(mailbox)] = State

\* A countdown, or a drop that is about to start one, means that the session is
\* down and that its child, if it is still attached, has announced its exit.
DropIsDown ==
    fReconnectTimer \/ Pending({"DISCONNECTED"}, mailbox) =>
        State \in DownStates /\ backend[fBackend].worker # "running"

ReportsInv == OthersIdle /\ KindsUsed /\ Settled /\ LastIsState /\ DropIsDown

\* The parts that do not depend on the clients survive what leaves them alone.
LEMMA ReportsUnchanged ==
    ASSUME ReportsInv,
           UNCHANGED <<sessionVars, fReconnectTimer, fReconnectArmed, fReconnectProfile>>
    PROVE  ReportsInv'
  BY DEF ReportsInv, OthersIdle, KindsUsed, Settled, LastIsState, DropIsDown, State, Idle,
         sessionVars

\* A reply or broadcast of the state there is keeps the subscribers in agreement.
LEMMA ViewsFollow ==
    ASSUME SubscribersAgree, UNCHANGED <<sessionVars, fReconnectTimer>>,
           \A c \in Told' : (c \in Told /\ view'[c] = view[c]) \/ view'[c].state = State
    PROVE  SubscribersAgree'
<1>1. State' = State
  BY DEF State, sessionVars
<1> QED BY <1>1 DEF SubscribersAgree, sessionVars

\* _Broadcast shows every subscriber the same state.
LEMMA BroadcastShows ==
    ASSUME TypeOK, NEW s, NEW h, Broadcast(s, h)
    PROVE  \A c \in Told' : view'[c].state = s
  BY DEF Broadcast, Told, TypeOK

\* A direct reply shows its client that state, and the others nothing new.
LEMMA ReplyShows ==
    ASSUME TypeOK, NEW c \in Clients, NEW s, NEW h, ReplyTo(c, s, h), UNCHANGED <<fClients, alive>>
    PROVE  \A d \in Told' : (d \in Told /\ view'[d] = view[d]) \/ view'[d].state = s
<1>1. view'[c].state = s
  BY DEF ReplyTo, TypeOK
<1>2. \A d \in Clients : d # c => view'[d] = view[d]
  BY DEF ReplyTo, TypeOK
<1>3. Told' \subseteq Clients
  BY DEF Told, TypeOK
<1> QED BY <1>1, <1>2, <1>3 DEF Told

\* When the session is down, another backend is selected only if nothing is left
\* of the one before.
LEMMA SwitchIsIdle ==
    ASSUME OneFamily, SessionType, ReportsInv, State \in DownStates,
           NEW k \in UsedKinds, k # fBackend
    PROVE  Idle(backend[fBackend])
<1>1. CASE fBackend = "OpenVPN"
  <2>1. "OpenVPN" \notin UsedKinds
    BY <1>1 DEF OneFamily
  <2> QED BY <1>1, <2>1 DEF ReportsInv, KindsUsed, Idle, DownStates
<1>2. CASE fBackend # "OpenVPN"
  BY <1>2 DEF ReportsInv, Settled, Idle, State
<1> QED BY <1>1, <1>2

\* Selecting a backend while the session is down.
LEMMA SwitchFacts ==
    ASSUME OneFamily, SessionType, ReportsInv, State \in DownStates, NEW k \in UsedKinds
    PROVE  /\ backend[k].state \in DownStates
           /\ backend[k].worker \in {"none", backend[fBackend].worker}
           /\ k # "OpenVPN" => backend[k].worker = "none"
           /\ \A j \in Kinds : j # k => Idle(backend[j])
<1>1. k \in Kinds
  BY ConstantsAssumption
<1>2. CASE k = fBackend
  BY <1>2 DEF ReportsInv, OthersIdle, Settled, State
<1>3. CASE k # fBackend
  BY <1>1, <1>3, SwitchIsIdle DEF ReportsInv, OthersIdle, Idle
<1> QED BY <1>2, <1>3

\* A connect, of the user or of a countdown that has run out: something is
\* reported, and it is what the backend is in.
LEMMA ConnectReports ==
    ASSUME OneFamily, TypeOK, ReportsInv, State \in DownStates, mailbox = <<>>,
           NEW k \in UsedKinds, NEW o \in ConnectOutcomes(k, backend[k]), Post(k, o),
           fBackend' = k,
           fReconnectArmed' => fReconnectProfile'.kind \in UsedKinds,
           fReconnectTimer' => ~o.ok /\ backend[fBackend].worker # "running"
    PROVE  ReportsInv' /\ mailbox' # <<>>
<1>0. SessionType /\ k \in Kinds /\ backend[k] \in Backend
  BY ConstantsAssumption DEF TypeOK, SessionType
<1>1. /\ backend[k].state \in DownStates
      /\ backend[k].worker \in {"none", backend[fBackend].worker}
      /\ k # "OpenVPN" => backend[k].worker = "none"
      /\ \A j \in Kinds : j # k => Idle(backend[j])
  BY <1>0, SwitchFacts
<1>2. o.posts \in Seq(VPNState)
  BY <1>0, ConnectOutcomesType DEF Outcome
<1>3. /\ backend'[k] = o.bk /\ State' = o.bk.state
      /\ \A j \in Kinds : j # k => backend'[j] = backend[j]
  BY <1>0, PostedBackend DEF State
<1>4. mailbox' = o.posts
  <2>1. mailbox' = <<>> \o o.posts
    BY <1>0, PostedBackend
  <2> QED BY <1>2, <2>1
<1>5. \/ o.posts = <<"CONNECTING">> /\ o.ok /\ o.bk.state = "CONNECTING" /\ o.bk.worker = "running"
      \/ /\ o.posts \in {<<"CONNECTING", "ERROR">>, <<"ERROR">>}
         /\ o.bk.state = "ERROR" /\ o.bk.worker \in {backend[k].worker, "none"}
  BY <1>0, <1>1, ConnectFacts
<1>6. OthersIdle'
  BY <1>1, <1>3 DEF OthersIdle
<1>7. KindsUsed'
  <2>1. CASE "OpenVPN" \notin UsedKinds
    <3>1. backend'["OpenVPN"] = backend["OpenVPN"]
      BY <1>3, <2>1 DEF Kinds
    <3> QED BY <2>1, <3>1 DEF ReportsInv, KindsUsed
  <2>2. CASE "OpenVPN" \in UsedKinds
    BY <2>2 DEF KindsUsed
  <2> QED BY <2>1, <2>2
<1>8. Settled'
  <2>1. CASE o.bk.state = "CONNECTING" /\ o.bk.worker = "running"
    <3>1. o.bk.state \notin DownStates
      BY <2>1 DEF DownStates
    <3> QED BY <1>3, <2>1, <3>1 DEF Settled
  <2>2. CASE o.bk.worker \in {backend[k].worker, "none"}
    BY <1>1, <1>3, <2>2 DEF Settled
  <2> QED BY <1>5, <2>1, <2>2
<1>9. mailbox' # <<>> /\ LastIsState'
  <2>1. CASE o.posts = <<"CONNECTING">> /\ o.bk.state = "CONNECTING"
    BY <1>3, <1>4, <2>1 DEF LastIsState
  <2>2. CASE o.posts = <<"ERROR">> /\ o.bk.state = "ERROR"
    BY <1>3, <1>4, <2>2 DEF LastIsState
  <2>3. CASE o.posts = <<"CONNECTING", "ERROR">> /\ o.bk.state = "ERROR"
    BY <1>3, <1>4, <2>3 DEF LastIsState
  <2> QED BY <1>5, <2>1, <2>2, <2>3
<1>10. DropIsDown'
  <2>1. ~Pending({"DISCONNECTED"}, mailbox')
    <3>1. /\ ~Pending({"DISCONNECTED"}, <<"CONNECTING">>)
          /\ ~Pending({"DISCONNECTED"}, <<"ERROR">>)
          /\ ~Pending({"DISCONNECTED"}, <<"CONNECTING", "ERROR">>)
      <4> DEFINE S == {"DISCONNECTED"}
      <4>1. "CONNECTING" \notin S /\ "ERROR" \notin S
        OBVIOUS
      <4> HIDE DEF S
      <4>2. /\ ~Pending(S, <<"CONNECTING">>) /\ ~Pending(S, <<"ERROR">>)
            /\ ~Pending(S, <<"CONNECTING", "ERROR">>)
        BY <4>1, PendingOne
      <4> QED BY <4>2 DEF S
    <3> QED BY <1>4, <1>5, <3>1
  <2>2. ASSUME fReconnectTimer' PROVE State' \in DownStates /\ backend'[k].worker # "running"
    <3>1. o.bk.state = "ERROR" /\ o.bk.worker \in {backend[k].worker, "none"}
      BY <1>5, <2>2
    <3> QED BY <1>1, <1>3, <2>2, <3>1 DEF DownStates
  <2> QED BY <2>1, <2>2 DEF DropIsDown
<1> QED BY <1>6, <1>7, <1>8, <1>9, <1>10 DEF ReportsInv

\* What a worker's message reports is what the backend is in from then on.
LEMMA WorkerReports ==
    ASSUME TypeOK, ReportsInv, SubscribersAgree, NEW k \in Kinds, WorkerStep(k)
    PROVE  ReportsInv' /\ SubscribersAgree'
<1>0. SessionType /\ backend[k] \in Backend /\ mailbox \in Seq(VPNState)
  BY DEF TypeOK, SessionType
<1>1. PICK o \in WorkerSteps(k, backend[k]) : Post(k, o)
  BY DEF WorkerStep
<1>2. /\ UNCHANGED <<fBackend, fReconnectTimer, fReconnectArmed, fReconnectProfile>>
      /\ UNCHANGED clientVars
  BY DEF WorkerStep, reconnectVars
<1>3. /\ backend[k].worker # "none"
      /\ \/ o.posts = <<>> /\ o.bk.state = "ERROR" /\ backend[k].state = "ERROR"
         \/ o.posts = <<o.bk.state>>
      /\ o.bk.state = "DISCONNECTED" => o.bk.worker # "running"
      /\ k = "OpenVPN" /\ backend[k].worker = "exiting" =>
           o.bk.worker = "none" /\ o.bk.state \in DownStates
      /\ k # "OpenVPN" =>
           /\ o.bk.worker # "exiting"
           /\ o.bk.state \in DownStates => o.bk.worker = "none"
  BY <1>0, WorkerFacts
<1>4. k = fBackend
  BY <1>3 DEF ReportsInv, OthersIdle, Idle
<1>5. o.posts \in Seq(VPNState)
  BY <1>0, WorkerStepsType DEF Outcome
<1>6. /\ backend'[k] = o.bk /\ State' = o.bk.state /\ State = backend[k].state
      /\ \A j \in Kinds : j # k => backend'[j] = backend[j]
      /\ mailbox' = mailbox \o o.posts
  BY <1>0, <1>1, <1>2, <1>4, PostedBackend DEF State
<1>7. OthersIdle'
  BY <1>2, <1>4, <1>6 DEF ReportsInv, OthersIdle
<1>8. KindsUsed'
  <2>1. CASE "OpenVPN" \notin UsedKinds
    <3>1. k # "OpenVPN"
      BY <1>3, <2>1 DEF ReportsInv, KindsUsed
    <3>2. backend'["OpenVPN"] = backend["OpenVPN"]
      BY <1>6, <3>1 DEF Kinds
    <3> QED BY <1>2, <2>1, <3>2 DEF ReportsInv, KindsUsed
  <2>2. CASE "OpenVPN" \in UsedKinds
    BY <1>2, <2>2 DEF ReportsInv, KindsUsed
  <2> QED BY <2>1, <2>2
<1>9. Settled'
  BY <1>2, <1>3, <1>4, <1>6 DEF Settled
<1>10. DropIsDown'
  <2>1. ASSUME fReconnectTimer \/ Pending({"DISCONNECTED"}, mailbox)
        PROVE  State' \in DownStates /\ backend'[k].worker # "running"
    <3>1. State \in DownStates /\ backend[k].worker # "running"
      BY <1>4, <2>1 DEF ReportsInv, DropIsDown
    <3>2. k = "OpenVPN"
      BY <1>3, <1>4, <3>1 DEF ReportsInv, Settled
    <3>3. backend[k].worker = "exiting"
      BY <1>0, <1>3, <3>1 DEF Backend
    <3> QED BY <1>3, <1>6, <3>2, <3>3
  <2>2. ASSUME Pending({"DISCONNECTED"}, o.posts)
        PROVE  State' \in DownStates /\ backend'[k].worker # "running"
    <3> DEFINE S == {"DISCONNECTED"}
    <3>1. Pending(S, o.posts)
      BY <2>2
    <3> HIDE DEF S
    <3>2. o.bk.state \in S
      BY <1>3, <3>1, PendingOne
    <3>3. o.bk.state = "DISCONNECTED"
      BY <3>2 DEF S
    <3> QED BY <1>3, <1>6, <3>3 DEF DownStates
  <2>3. Pending({"DISCONNECTED"}, mailbox')
          => Pending({"DISCONNECTED"}, mailbox) \/ Pending({"DISCONNECTED"}, o.posts)
    <3> DEFINE S == {"DISCONNECTED"}
    <3> HIDE DEF S
    <3>1. Pending(S, mailbox') <=> Pending(S, mailbox) \/ Pending(S, o.posts)
      BY <1>0, <1>5, <1>6, PendingPosted
    <3> QED BY <3>1 DEF S
  <2> QED BY <1>2, <1>4, <2>1, <2>2, <2>3 DEF DropIsDown
<1>11. LastIsState' /\ SubscribersAgree'
  <2>1. CASE o.posts = <<>> /\ State' = State
    <3>1. mailbox' = mailbox
      BY <1>0, <1>6, <2>1
    <3>2. Told' = Told /\ view' = view
      BY <1>2 DEF Told, clientVars
    <3> QED BY <1>2, <2>1, <3>1, <3>2 DEF SubscribersAgree, LastIsState, ReportsInv
  <2>2. CASE o.posts = <<o.bk.state>>
    <3>1. /\ Len(mailbox') = Len(mailbox) + 1 /\ mailbox'[Len(mailbox) + 1] = o.bk.state
          /\ mailbox' # <<>>
      BY <1>0, <1>6, <2>2
    <3> QED BY <1>6, <3>1 DEF SubscribersAgree, LastIsState
  <2> QED BY <1>3, <1>6, <2>1, <2>2
<1> QED BY <1>7, <1>8, <1>9, <1>10, <1>11 DEF ReportsInv

\* Disconnect: a countdown is announced as over, and so is a session that had
\* nothing attached.
LEMMA DisconnectReports ==
    ASSUME InOrder, TypeOK, ReportsInv, SubscribersAgree, Disconnect
    PROVE  ReportsInv' /\ SubscribersAgree'
<1> DEFINE o == DisconnectOutcome(fBackend, backend[fBackend])
           b == backend[fBackend]
<1>0. SessionType /\ fBackend \in Kinds /\ b \in Backend /\ mailbox = <<>>
  BY DEF TypeOK, SessionType, Disconnect, Interject, InOrder
<1>1. /\ Post(fBackend, o) /\ fReconnectTimer' = FALSE
      /\ UNCHANGED <<fBackend, fReconnectArmed, fReconnectProfile>>
  BY DEF Disconnect, CancelReconnect
<1>2. \/ o.posts = <<>> /\ o.bk.state = b.state /\ o.bk.worker = b.worker
      \/ /\ o.posts = <<"DISCONNECTED">>
         /\ o.bk.state = "DISCONNECTED" /\ o.bk.worker = "none"
  BY <1>0, DisconnectFacts
<1>3. o.posts \in Seq(VPNState)
  BY <1>0, DisconnectOutcomeType DEF Outcome
<1> HIDE DEF o
<1>4. /\ backend'[fBackend] = o.bk /\ State' = o.bk.state /\ State = b.state
      /\ \A j \in Kinds : j # fBackend => backend'[j] = backend[j]
  BY <1>0, <1>1, PostedBackend DEF State
<1>5. mailbox' = o.posts
  <2>1. mailbox' = <<>> \o o.posts
    BY <1>0, <1>1, PostedBackend
  <2> QED BY <1>3, <2>1
<1>6. OthersIdle'
  BY <1>1, <1>4 DEF ReportsInv, OthersIdle
<1>7. KindsUsed'
  <2>1. CASE "OpenVPN" \notin UsedKinds
    <3>1. /\ backend'["OpenVPN"].state = "DISCONNECTED"
          /\ backend'["OpenVPN"].worker = "none"
      BY <1>2, <1>4, <2>1 DEF ReportsInv, KindsUsed, Kinds
    <3> QED BY <1>1, <2>1, <3>1 DEF ReportsInv, KindsUsed
  <2>2. CASE "OpenVPN" \in UsedKinds
    BY <1>1, <2>2 DEF ReportsInv, KindsUsed
  <2> QED BY <2>1, <2>2
<1>8. Settled'
  BY <1>1, <1>2, <1>4 DEF ReportsInv, Settled
<1>9. CASE o.posts = <<>> /\ o.bk.state = b.state /\ o.bk.worker = b.worker
  <2>1. LastIsState' /\ DropIsDown'
    BY <1>1, <1>5, <1>9, PendingOne DEF LastIsState, DropIsDown
  <2>2. SubscribersAgree'
    <3>1. CASE fReconnectTimer
      <4>1. \A c \in Told' : view'[c].state = "DISCONNECTED"
        BY <3>1, BroadcastShows DEF Disconnect
      <4>2. State' \in DownStates
        BY <1>4, <1>9, <3>1 DEF ReportsInv, DropIsDown
      <4> QED BY <4>1, <4>2 DEF SubscribersAgree, DownStates
    <3>2. CASE ~fReconnectTimer
      <4>1. Told' = Told /\ view' = view
        BY <3>2 DEF Disconnect, Told, clientVars
      <4> QED BY <1>0, <1>4, <1>9, <3>2, <4>1 DEF SubscribersAgree
    <3> QED BY <3>1, <3>2
  <2> QED BY <1>6, <1>7, <1>8, <2>1, <2>2 DEF ReportsInv
<1>10. CASE o.posts = <<"DISCONNECTED">> /\ o.bk.state = "DISCONNECTED" /\ o.bk.worker = "none"
  <2>1. mailbox' # <<>> /\ LastIsState'
    BY <1>4, <1>5, <1>10 DEF LastIsState
  <2>2. DropIsDown'
    BY <1>1, <1>4, <1>10 DEF DropIsDown, DownStates
  <2> QED BY <1>6, <1>7, <1>8, <2>1, <2>2 DEF ReportsInv, SubscribersAgree
<1> QED BY <1>2, <1>9, <1>10

\* The report that is handled last is the one the subscribers are left with.
LEMMA StatusReports ==
    ASSUME TypeOK, ReportsInv, SubscribersAgree, HandleStatus
    PROVE  ReportsInv' /\ SubscribersAgree'
<1> DEFINE drop == Head(mailbox) = "DISCONNECTED" /\ CanRetry
           new(ok) == IF drop /\ ok THEN "RECONNECTING" ELSE Head(mailbox)
<1>1. PICK timerOk \in TimerOutcomes :
        /\ IF drop THEN StartReconnectCountdown(timerOk) ELSE UNCHANGED fReconnectTimer
        /\ Broadcast(new(timerOk), HostAfter(new(timerOk)))
  BY DEF HandleStatus
<1>2. /\ mailbox # <<>> /\ mailbox' = Tail(mailbox) /\ mailbox \in Seq(VPNState)
      /\ UNCHANGED <<backend, fBackend, fReconnectArmed, fReconnectProfile>>
  BY DEF HandleStatus, TypeOK
<1>3. State' = State
  BY <1>2 DEF State
<1>4. OthersIdle' /\ KindsUsed' /\ Settled'
  BY <1>2, <1>3 DEF ReportsInv, OthersIdle, KindsUsed, Settled
<1>5. LastIsState'
  <2>1. ASSUME mailbox' # <<>> PROVE mailbox'[Len(mailbox')] = mailbox[Len(mailbox)]
    <3>1. Len(mailbox') = Len(mailbox) - 1 /\ Len(mailbox) \in Nat /\ Len(mailbox') # 0
      BY <1>2, <2>1
    <3> QED BY <1>2, <3>1
  <2> QED BY <1>2, <1>3, <2>1 DEF ReportsInv, LastIsState
<1>6. DropIsDown'
  <2> DEFINE S == {"DISCONNECTED"}
  <2>1. Head(mailbox) = "DISCONNECTED" => Head(mailbox) \in S
    OBVIOUS
  <2>2. fReconnectTimer \/ Pending(S, mailbox) =>
          State \in DownStates /\ backend[fBackend].worker # "running"
    BY DEF ReportsInv, DropIsDown
  <2> HIDE DEF S
  <2>3. Pending(S, mailbox) <=> Head(mailbox) \in S \/ Pending(S, mailbox')
    BY <1>2, PendingTaken
  <2>4. fReconnectTimer' => fReconnectTimer \/ Head(mailbox) = "DISCONNECTED"
    BY <1>1
  <2>5. fReconnectTimer' \/ Pending(S, mailbox') =>
          State' \in DownStates /\ backend'[fBackend'].worker # "running"
    BY <1>2, <1>3, <2>1, <2>2, <2>3, <2>4
  <2> QED BY <2>5 DEF S, DropIsDown
<1>7. SubscribersAgree'
  <2>1. ASSUME mailbox' = <<>>, ~fReconnectTimer'
        PROVE  \A c \in Told' : view'[c].state = State'
    <3>1. Head(mailbox) = State
      <4>1. Len(mailbox) = 1 /\ Head(mailbox) = mailbox[1]
        BY <1>2, <2>1, OnlyReport
      <4> QED BY <1>2, <4>1 DEF ReportsInv, LastIsState
    <3>2. ~(drop /\ timerOk)
      BY <1>1, <2>1 DEF StartReconnectCountdown
    <3>3. new(timerOk) = Head(mailbox)
      BY <3>2
    <3>4. \A c \in Told' : view'[c].state = Head(mailbox)
      BY <1>1, <3>3, BroadcastShows
    <3> QED BY <1>3, <3>1, <3>4
  <2> QED BY <2>1 DEF SubscribersAgree
<1> QED BY <1>4, <1>5, <1>6, <1>7 DEF ReportsInv

\* Requests and countdowns, which find every report handled.
LEMMA RequestReports ==
    ASSUME InOrder, OneFamily, CountdownInv, ReportsInv, SubscribersAgree,
           \/ \E c \in Clients : Connect(c) \/ ConnectVPNGate(c)
           \/ AttemptReconnect
    PROVE  ReportsInv' /\ SubscribersAgree'
<1>0. TypeOK /\ SessionType /\ mailbox = <<>>
  BY TypeOKParts DEF CountdownInv, Connect, ConnectVPNGate, AttemptReconnect, FiringTick,
                     Interject, InOrder
<1> USE DEF sessionVars, reconnectVars
<1>1. ASSUME NEW c \in Clients, NEW p \in Profile, NEW h, HandleConnect(c, p, h)
      PROVE  ReportsInv' /\ SubscribersAgree'
  <2>0. p.kind \in UsedKinds /\ p.kind \in Kinds
    BY ConstantsAssumption DEF Profile
  <2>1. CASE RefuseConnect(c, h)
    <3>1. /\ ReplyTo(c, State, h) /\ UNCHANGED <<fClients, alive, sessionVars>>
          /\ UNCHANGED <<fReconnectTimer, fReconnectArmed, fReconnectProfile>>
      BY <2>1 DEF RefuseConnect
    <3> QED BY <1>0, <3>1, ReplyShows, ViewsFollow, ReportsUnchanged
  <2>2. CASE RejectConfigPath(c, p)
    <3> DEFINE s == backend[p.kind].state
    <3>1. /\ State \in DownStates /\ fBackend' = p.kind
          /\ ReplyTo(c, s, NoHost) /\ UNCHANGED <<fClients, alive, backend, mailbox>>
          /\ UNCHANGED <<fReconnectTimer, fReconnectArmed, fReconnectProfile>>
      BY <2>2 DEF RejectConfigPath
    <3>2. /\ backend[p.kind].state \in DownStates
          /\ backend[p.kind].worker \in {"none", backend[fBackend].worker}
          /\ p.kind # "OpenVPN" => backend[p.kind].worker = "none"
          /\ \A j \in Kinds : j # p.kind => Idle(backend[j])
      BY <1>0, <2>0, <3>1, SwitchFacts
    <3>3. State' = s
      BY <3>1 DEF State
    <3>4. OthersIdle' /\ KindsUsed' /\ Settled' /\ LastIsState'
      BY <1>0, <2>0, <3>1, <3>2 DEF ReportsInv, OthersIdle, KindsUsed, Settled, LastIsState
    <3>5. DropIsDown'
      BY <3>1, <3>2, <3>3 DEF ReportsInv, DropIsDown
    <3>6. SubscribersAgree'
      <4>1. \A d \in Told' : (d \in Told /\ view'[d] = view[d]) \/ view'[d].state = s
        BY <1>0, <3>1, ReplyShows
      <4> QED BY <3>1, <3>2, <3>3, <4>1 DEF SubscribersAgree
    <3> QED BY <3>4, <3>5, <3>6 DEF ReportsInv
  <2>3. CASE AcceptConnect(c, p, h)
    <3>1. PICK o \in ConnectOutcomes(p.kind, backend[p.kind]) : Post(p.kind, o)
      BY <2>3 DEF AcceptConnect
    <3>2. /\ State \in DownStates /\ fBackend' = p.kind
          /\ fReconnectTimer' = FALSE /\ fReconnectProfile' = p
      BY <2>3 DEF AcceptConnect, ArmReconnect, CancelReconnect
    <3>3. ReportsInv' /\ mailbox' # <<>>
      BY <1>0, <2>0, <3>1, <3>2, ConnectReports
    <3> QED BY <3>3 DEF SubscribersAgree
  <2> QED BY <1>1, <2>1, <2>2, <2>3 DEF HandleConnect
<1>2. CASE \E c \in Clients : Connect(c)
  <2>1. PICK c \in Clients, k \in UsedKinds :
          HandleConnect(c, [kind |-> k, host |-> NoHost], fConnectedHost)
    BY <1>2 DEF Connect
  <2>2. [kind |-> k, host |-> NoHost] \in Profile
    BY DEF Profile
  <2> QED BY <1>1, <2>1, <2>2
<1>3. CASE \E c \in Clients : ConnectVPNGate(c)
  <2>1. PICK c \in Clients, h \in Hosts :
          RejectVPNGate(c) \/ HandleConnect(c, [kind |-> "OpenVPN", host |-> h], h)
    BY <1>3 DEF ConnectVPNGate
  <2>2. [kind |-> "OpenVPN", host |-> h] \in Profile
    BY <1>3 DEF Profile, ConnectVPNGate
  <2>3. CASE RejectVPNGate(c)
    <3>1. /\ ReplyTo(c, State, NoHost) /\ UNCHANGED <<fClients, alive, sessionVars>>
          /\ UNCHANGED <<fReconnectTimer, fReconnectArmed, fReconnectProfile>>
      BY <2>3 DEF RejectVPNGate
    <3> QED BY <1>0, <3>1, ReplyShows, ViewsFollow, ReportsUnchanged
  <2> QED BY <1>1, <2>1, <2>2, <2>3
<1>4. CASE AttemptReconnect
  <2> DEFINE k == fReconnectProfile.kind
  <2>1. fReconnectTimer /\ fBackend' = k /\ UNCHANGED <<fReconnectArmed, fReconnectProfile>>
    BY <1>4 DEF AttemptReconnect, FiringTick
  <2>2. k \in UsedKinds
    BY <2>1 DEF CountdownInv, CountdownIsWanted, ReportsInv, KindsUsed
  <2>3. State \in DownStates /\ backend[fBackend].worker # "running"
    BY <2>1 DEF ReportsInv, DropIsDown
  <2>4. PICK o \in ConnectOutcomes(k, backend[k]) :
          Post(k, o) /\ (fReconnectTimer' => ~o.ok)
    BY <1>4 DEF AttemptReconnect, CancelReconnect
  <2>5. ReportsInv' /\ mailbox' # <<>>
    <3> HIDE DEF k
    <3>1. fReconnectArmed' => fReconnectProfile'.kind \in UsedKinds
      BY <2>1, <2>2 DEF k
    <3> QED BY <1>0, <2>1, <2>2, <2>3, <2>4, <3>1, ConnectReports
  <2> QED BY <2>5 DEF SubscribersAgree
<1> QED BY <1>2, <1>3, <1>4

\* Handlers that change only what clients were told, or nothing of this at all.
LEMMA OtherReports ==
    ASSUME TypeOK, ReportsInv, SubscribersAgree,
           \/ \E c \in Clients :
                GetStatus(c) \/ Subscribe(c) \/ Unsubscribe(c) \/ ClientDies(c)
           \/ HandleStats \/ CountdownTick
           \/ HomeLookupAnswers \/ HandleHomeGeoResult \/ HandleCountryResult
           \/ UNCHANGED vars
    PROVE  ReportsInv' /\ SubscribersAgree'
<1> USE DEF sessionVars, reconnectVars, clientVars
<1>1. UNCHANGED <<sessionVars, fReconnectTimer, fReconnectArmed, fReconnectProfile>>
  BY DEF GetStatus, Subscribe, Unsubscribe, ClientDies, HandleStats, CountdownTick,
         HomeLookupAnswers, HandleHomeGeoResult, HandleCountryResult, vars
<1>2. SUFFICES SubscribersAgree'
  BY <1>1, ReportsUnchanged
<1>3. CASE CountdownTick
  BY <1>3 DEF CountdownTick, SubscribersAgree
<1>4. CASE \E c \in Clients : GetStatus(c)
  BY <1>1, <1>4, ReplyShows, ViewsFollow DEF GetStatus
<1>5. CASE \E c \in Clients : Subscribe(c)
  <2>1. PICK c \in Clients : Subscribe(c)
    BY <1>5
  <2>2. /\ fClients' = fClients \cup {c} /\ view' = [view EXCEPT ![c] = Untold]
        /\ UNCHANGED alive
    BY <2>1 DEF Subscribe, HandleSubscribe
  <2>3. view'[c] = Untold /\ \A d \in Clients : d # c => view'[d] = view[d]
    BY <2>2 DEF TypeOK
  <2>4. \A d \in Told' : d \in Told /\ view'[d] = view[d]
    BY <2>2, <2>3 DEF Told, TypeOK
  <2> QED BY <1>1, <2>4, ViewsFollow
<1>6. CASE \/ \E c \in Clients : Unsubscribe(c) \/ ClientDies(c)
           \/ HandleStats \/ HomeLookupAnswers \/ UNCHANGED vars
  <2>1. fClients' \subseteq fClients /\ alive' \subseteq alive /\ UNCHANGED view
    BY <1>6 DEF Unsubscribe, ClientDies, HandleStats, HomeLookupAnswers, vars
  <2>2. \A d \in Told' : d \in Told /\ view'[d] = view[d]
    BY <2>1 DEF Told
  <2> QED BY <1>1, <2>2, ViewsFollow
<1>7. CASE HandleHomeGeoResult \/ HandleCountryResult
  <2>1. UNCHANGED clientVars \/ Broadcast(State, fConnectedHost)
    BY <1>7 DEF HandleHomeGeoResult, HandleCountryResult
  <2>2. CASE UNCHANGED clientVars
    <3>1. \A d \in Told' : d \in Told /\ view'[d] = view[d]
      BY <2>2 DEF Told
    <3> QED BY <1>1, <3>1, ViewsFollow
  <2>3. CASE Broadcast(State, fConnectedHost)
    BY <1>1, <2>3, BroadcastShows, ViewsFollow
  <2> QED BY <2>1, <2>2, <2>3
<1> QED BY <1>3, <1>4, <1>5, <1>6, <1>7

\* Once every report is handled, each subscriber is shown a live session exactly
\* when there is one, and a countdown only runs without one: when requests do
\* not overtake reports, for any number of clients and any retry budget.
THEOREM SessionIsAnnounced ==
    ASSUME InOrder, OneFamily
    PROVE  Spec => []SessionAnnounced
<1>1. Init => ReportsInv /\ SubscribersAgree
  <2> SUFFICES ASSUME Init PROVE ReportsInv /\ SubscribersAgree
    OBVIOUS
  <2>1. \A k \in Kinds : backend[k] = IdleBackend
    BY DEF Init
  <2>2. backend["OpenVPN"] = IdleBackend /\ State = "DISCONNECTED"
    BY <2>1 DEF Init, Kinds, IdleBackend, State
  <2>3. OthersIdle /\ KindsUsed /\ Settled
    BY <2>1, <2>2 DEF Init, OthersIdle, KindsUsed, Settled, IdleBackend, Idle, DownStates
  <2>4. LastIsState /\ DropIsDown
    BY PendingOne DEF Init, LastIsState, DropIsDown
  <2>5. SubscribersAgree
    BY DEF Init, SubscribersAgree, Told
  <2> QED BY <2>3, <2>4, <2>5 DEF ReportsInv
<1>2. CountdownInv /\ ReportsInv /\ SubscribersAgree /\ [Next]_vars
        => (ReportsInv /\ SubscribersAgree)'
  <2> SUFFICES ASSUME CountdownInv, ReportsInv, SubscribersAgree, [Next]_vars
               PROVE  ReportsInv' /\ SubscribersAgree'
    OBVIOUS
  <2>1. TypeOK
    BY DEF CountdownInv
  <2>2. CASE \/ \E c \in Clients : Connect(c) \/ ConnectVPNGate(c)
             \/ AttemptReconnect
    BY <2>2, RequestReports
  <2>3. CASE Disconnect
    BY <2>1, <2>3, DisconnectReports
  <2>4. CASE \E k \in Kinds : WorkerStep(k)
    BY <2>1, <2>4, WorkerReports
  <2>5. CASE HandleStatus
    BY <2>1, <2>5, StatusReports
  <2>6. CASE \/ \E c \in Clients :
                  GetStatus(c) \/ Subscribe(c) \/ Unsubscribe(c) \/ ClientDies(c)
             \/ HandleStats \/ CountdownTick
             \/ HomeLookupAnswers \/ HandleHomeGeoResult \/ HandleCountryResult
             \/ UNCHANGED vars
    BY <2>1, <2>6, OtherReports
  <2> QED BY <2>2, <2>3, <2>4, <2>5, <2>6 DEF Next
<1>3. ReportsInv /\ SubscribersAgree => SessionAnnounced
  BY DEF ReportsInv, DropIsDown, SessionAnnounced, CountdownMeansDown
<1> QED BY <1>1, <1>2, <1>3, CountdownInvariant, PTL DEF Spec
=============================================================================
