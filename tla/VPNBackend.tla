----------------------------- MODULE VPNBackend -----------------------------
(***************************************************************************)
(* What the daemon sees of a backend through the VPNBackend interface: the *)
(* state it answers from State(), whether work is still attached to it (a  *)
(* child process, a reader or a worker thread that will post to the looper *)
(* later), and the stop flag of Disconnect().                              *)
(*                                                                         *)
(* Every operator below is a set of outcomes.  An outcome says what the    *)
(* backend is afterwards (bk), which VPN_STATE_* values it posted to its   *)
(* observer, in order (posts: _SetState always posts, so a change of state *)
(* and its report are one step), and whether the call returned B_OK (ok).  *)
(***************************************************************************)
EXTENDS Sequences

VPNState == {"DISCONNECTED", "CONNECTING", "AUTHENTICATING", "CONNECTED",
             "RECONNECTING", "ERROR"}

\* The states from which a connect is accepted: no session is up.
DownStates == {"DISCONNECTED", "ERROR"}

Kinds == {"OpenVPN", "WireGuard", "Tailscale"}

\* "exiting": openvpn has announced its exit but its reader is still attached.
Backend == [state : VPNState, worker : {"none", "running", "exiting"},
            stop : BOOLEAN]

IdleBackend == [state |-> "DISCONNECTED", worker |-> "none", stop |-> FALSE]

Outcome == [bk : Backend, posts : Seq(VPNState), ok : BOOLEAN]

-----------------------------------------------------------------------------
\* _SetState(s): the new state and its report.
SetState(b, s, w) ==
    [bk |-> [b EXCEPT !.state = s, !.worker = w], posts |-> <<s>>, ok |-> TRUE]

Refused(b) == [bk |-> b, posts |-> <<>>, ok |-> FALSE]

FailedLateSilently(w, stop) ==
    [bk |-> [state |-> "ERROR", worker |-> w, stop |-> stop],
     posts |-> <<"CONNECTING">>, ok |-> FALSE]

\* Connect() got past its checks and then failed: CONNECTING, then ERROR.
FailedLate(w, stop) ==
    [bk |-> [state |-> "ERROR", worker |-> w, stop |-> stop],
     posts |-> <<"CONNECTING", "ERROR">>, ok |-> FALSE]

Started ==
    [bk |-> [state |-> "CONNECTING", worker |-> "running", stop |-> FALSE],
     posts |-> <<"CONNECTING">>, ok |-> TRUE]

-----------------------------------------------------------------------------
\* OpenVPNBackend::Connect.  No tun slot or no openvpn leaves whatever reader
\* was still attached alone; a poll timer that cannot be created cleans up and
\* reports ERROR, yet Connect returns B_OK.
OpenVPNConnect(b) ==
    IF b.state \notin DownStates
    THEN {Refused(b)}
    ELSE {Started, FailedLate(b.worker, FALSE),
          [FailedLate("none", FALSE) EXCEPT !.ok = TRUE]}

\* WireGuardBackend::Connect.  A bad .conf is ERROR before CONNECTING is shown,
\* a bad key after the stop flag was reset; _Cleanup sets the flag.
WireGuardConnect(b) ==
    IF b.state \notin DownStates
    THEN {Refused(b)}
    ELSE {Started, FailedLate("none", TRUE),
          [SetState(b, "ERROR", b.worker) EXCEPT !.ok = FALSE],
          [SetState([b EXCEPT !.stop = FALSE], "ERROR", b.worker) EXCEPT !.ok = FALSE]}

\* TailscaleBackend::Connect does not look at fState: a worker still attached
\* is an ERROR of its own, reported over whatever state the session was in.
TailscaleConnect(b) ==
    {[SetState(b, "ERROR", b.worker) EXCEPT !.ok = FALSE]}
    \cup (IF b.worker = "none" THEN {Started, FailedLate("none", FALSE)} ELSE {})

ConnectOutcomes(kind, b) ==
    CASE kind = "OpenVPN"   -> OpenVPNConnect(b)
      [] kind = "WireGuard" -> WireGuardConnect(b)
      [] kind = "Tailscale" -> TailscaleConnect(b)

-----------------------------------------------------------------------------
StopNotRecorded(b) == [bk |-> b, posts |-> <<>>, ok |-> TRUE]

StopAsked(b) ==
    [bk |-> [b EXCEPT !.stop = TRUE], posts |-> <<>>, ok |-> TRUE]

StoppedAtOnce(b) == SetState([b EXCEPT !.stop = TRUE], "DISCONNECTED", "none")

\* Disconnect(): OpenVPN only ever asks its child to stop and waits for the
\* reader; WireGuard and Tailscale report DISCONNECTED themselves when nothing
\* is attached.
DisconnectOutcome(kind, b) ==
    CASE kind # "Tailscale" /\ b.state = "DISCONNECTED" -> [Refused(b) EXCEPT !.ok = TRUE]
      [] kind # "OpenVPN" /\ b.worker = "none"          -> StoppedAtOnce(b)
      [] OTHER                                          -> StopAsked(b)

-----------------------------------------------------------------------------
\* What the looper does with a message of openvpn's reader or of the management
\* poll.  EXITING is DISCONNECTED unless ERROR is already recorded; the end of
\* the reader reports DISCONNECTED a second time, again unless ERROR stands.
OpenVPNWorkerSteps(b) ==
    (IF b.worker # "running" THEN {} ELSE
       {SetState(b, s, "running") : s \in VPNState \ DownStates}
       \cup {SetState(b, "ERROR", "running")}
       \cup {IF b.state = "ERROR"
             THEN [Refused([b EXCEPT !.worker = "exiting"]) EXCEPT !.ok = TRUE]
             ELSE SetState(b, "DISCONNECTED", "exiting")}
       \cup (IF b.state = "CONNECTING" THEN {SetState(b, "ERROR", "none")} ELSE {}))
    \cup
    (IF b.worker = "none" THEN {} ELSE
       {IF b.state = "ERROR"
        THEN [Refused([b EXCEPT !.worker = "none"]) EXCEPT !.ok = TRUE]
        ELSE SetState(b, "DISCONNECTED", "none")})

\* WireGuard's reader: handshake done, handshake failed, or the transport loop
\* ended.  A stop before the handshake ends is a clean exit.
WireGuardWorkerSteps(b) ==
    LET cleaned == [b EXCEPT !.stop = TRUE] IN
    IF b.worker = "none" THEN {} ELSE
      (IF b.state = "CONNECTING"
       THEN {SetState(b, "CONNECTED", "running"), SetState(cleaned, "ERROR", "none")}
       ELSE {})
      \cup (IF b.stop \/ b.state = "CONNECTED"
            THEN {SetState(cleaned, "DISCONNECTED", "none")} ELSE {})

\* Tailscale's control worker: login pending, authorized, network map up, or
\* the end (clean only when asked to stop; a stop may race a failure).
TailscaleWorkerSteps(b) ==
    IF b.worker = "none" THEN {} ELSE
      {SetState(b, "AUTHENTICATING", "running"), SetState(b, "CONNECTED", "running")}
      \cup (IF b.state # "CONNECTED"
            THEN {SetState([b EXCEPT !.stop = TRUE], "ERROR", "none")} ELSE {})
      \cup (IF b.stop THEN {SetState(b, "DISCONNECTED", "none")} ELSE {})

WorkerSteps(kind, b) ==
    CASE kind = "OpenVPN"   -> OpenVPNWorkerSteps(b)
      [] kind = "WireGuard" -> WireGuardWorkerSteps(b)
      [] kind = "Tailscale" -> TailscaleWorkerSteps(b)
=============================================================================
