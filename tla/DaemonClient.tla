---------------------------- MODULE DaemonClient ----------------------------
(***************************************************************************)
(* The daemon as one client program meets it: requests go into the         *)
(* daemon's queue, snapshots and broadcasts come back into the client's.   *)
(*                                                                         *)
(* Two kinds of status reach a client.  An answer (_FillStatus) is built   *)
(* from the backend when the request is handled, and names the profile of  *)
(* a live session.  A broadcast report was built by the backend when it    *)
(* changed state, is handled by the daemon some messages later, and names  *)
(* no profile: _EnrichForBroadcast does not add one.                       *)
(***************************************************************************)
EXTENDS Sequences, Naturals

CONSTANTS
    ProfileNames,   \* names profiles may have
    NoName,         \* the empty string
    OthersConnect,  \* may other clients (deskbar, CLI, GUI) ask for sessions?
    SaveOutcomes,   \* may writing the profile store fail?
    QueueCap,       \* bound on the messages waiting at a client
    ReportCap       \* bound on the reports waiting at the daemon

ASSUME ClientAssumption ==
    /\ NoName \notin ProfileNames
    /\ OthersConnect \in BOOLEAN
    /\ SaveOutcomes \subseteq BOOLEAN /\ QueueCap \in Nat /\ ReportCap \in Nat

VARIABLES
    session,        \* the backend's state and the profile it was started with
    reports,        \* state changes the backend posted, not yet broadcast
    saved,          \* the names in the profile store, in its order
    subscribed,     \* the client is among fClients
    toDaemon,       \* the client's requests, not yet handled
    toClient        \* the client's message queue

daemonVars == <<session, reports, saved, subscribed, toDaemon, toClient>>

\* VPNState; AUTHENTICATING is left out, as no client tells it from CONNECTING
\* in anything modelled here.
SessionStates == {"DISCONNECTED", "CONNECTING", "CONNECTED", "RECONNECTING", "ERROR"}
Down == {"DISCONNECTED", "ERROR"}

Live == session.state \notin Down

\* What a client's looper holds.
Status(state, profile, detail) ==
    [what |-> "status", state |-> state, profile |-> profile, detail |-> detail]
ProfileList == [what |-> "profiles", names |-> saved]

DaemonInit ==
    /\ session = [state |-> "DISCONNECTED", profile |-> NoName]
    /\ reports = <<>>
    /\ \E n \in ProfileNames : saved \in {<<>>, <<n>>}
    /\ subscribed = FALSE
    /\ toDaemon = <<>>
    /\ toClient = <<>>

-----------------------------------------------------------------------------
\* _FillStatus: the profile is there while a session is live.
FillStatus == Status(session.state, IF Live THEN session.profile ELSE NoName, "")

Answer(m) == toClient' = Append(toClient, m)

\* A client that is already subscribed gets no second list.
HandleSubscribe ==
    /\ subscribed' = TRUE
    /\ IF subscribed THEN UNCHANGED toClient ELSE Answer(ProfileList)
    /\ UNCHANGED <<session, reports, saved>>

HandleGetStatus ==
    /\ Answer(FillStatus)
    /\ UNCHANGED <<session, reports, saved, subscribed>>

\* Refused while a session is live, whatever profile it runs.
HandleConnectRequest(m) ==
    IF Live
    THEN Answer(FillStatus) /\ UNCHANGED <<session, reports, saved, subscribed>>
    ELSE /\ session' = [state |-> "CONNECTING", profile |-> m.name]
         /\ reports' = Append(reports, [state |-> "CONNECTING", detail |-> ""])
         /\ subscribed' = TRUE
         /\ IF subscribed THEN UNCHANGED toClient ELSE Answer(ProfileList)
         /\ UNCHANGED saved

\* The session ends, or takes the exit node, when its backend does; nothing is
\* answered here, and nothing at all happens when there is none.
HandleDisconnectRequest ==
    UNCHANGED <<session, reports, saved, subscribed, toClient>>

HandleSetExitNode ==
    UNCHANGED <<session, reports, saved, subscribed, toClient>>

\* The list in memory changes whether or not it could be written (ok); only a
\* written one is broadcast, to this client as well.
StoreBecomes(names, ok) ==
    /\ saved' = names
    /\ IF ok /\ subscribed
       THEN toClient' = Append(toClient, [what |-> "profiles", names |-> names])
       ELSE UNCHANGED toClient
    /\ UNCHANGED <<session, reports, subscribed>>

\* A profile of the name is replaced where it is.
HandleSaveRequest(m) ==
    \E ok \in SaveOutcomes :
      StoreBecomes(IF \E i \in DOMAIN saved : saved[i] = m.name
                   THEN saved ELSE Append(saved, m.name), ok)

\* Deleting a profile that is not there writes nothing and is announced too.
HandleDeleteRequest(m) ==
    IF \E i \in DOMAIN saved : saved[i] = m.name
    THEN \E i \in DOMAIN saved, ok \in SaveOutcomes :
           /\ saved[i] = m.name
           /\ StoreBecomes(SubSeq(saved, 1, i - 1) \o SubSeq(saved, i + 1, Len(saved)), ok)
    ELSE StoreBecomes(saved, TRUE)

\* The daemon's looper takes the client's next request.
DaemonHandles ==
    /\ toDaemon # <<>>
    /\ Len(toClient) < QueueCap /\ Len(reports) < ReportCap
    /\ toDaemon' = Tail(toDaemon)
    /\ LET m == Head(toDaemon)
       IN CASE m.what = "subscribe"  -> HandleSubscribe
            [] m.what = "getStatus"  -> HandleGetStatus
            [] m.what = "connect"    -> HandleConnectRequest(m)
            [] m.what = "disconnect" -> HandleDisconnectRequest
            [] m.what = "setExitNode" -> HandleSetExitNode
            [] m.what = "save"       -> HandleSaveRequest(m)
            [] m.what = "delete"     -> HandleDeleteRequest(m)

-----------------------------------------------------------------------------
\* The backend moves: an authentication failure says so in the detail.
SessionMoves ==
    /\ Live /\ Len(reports) < ReportCap
    /\ \E s \in SessionStates \ {session.state, "RECONNECTING"},
          d \in {"", "authentication failed"} :
         /\ d = "" \/ s = "ERROR"
         /\ session' = [session EXCEPT !.state = s]
         /\ reports' = Append(reports, [state |-> s, detail |-> d])
    /\ UNCHANGED <<saved, subscribed, toDaemon, toClient>>

\* A report is broadcast; an unexpected drop is shown as RECONNECTING.
BroadcastReport ==
    /\ reports # <<>> /\ Len(toClient) < QueueCap
    /\ reports' = Tail(reports)
    /\ LET r == Head(reports)
       IN \E s \in {r.state} \cup (IF r.state = "DISCONNECTED" THEN {"RECONNECTING"} ELSE {}) :
            toClient' = IF subscribed
                        THEN Append(toClient, Status(s, NoName, r.detail)) ELSE toClient
    /\ UNCHANGED <<session, saved, subscribed, toDaemon>>

\* A lookup answered: _HandleCountryResult or _HandleHomeGeoResult broadcasts
\* a filled status.
LookupAnswers ==
    /\ subscribed /\ Len(toClient) < QueueCap
    /\ Answer(FillStatus)
    /\ UNCHANGED <<session, reports, saved, subscribed, toDaemon>>

\* Another client's connect (the deskbar's menu, say), or the
\* countdown's own retry of the profile it kept.
OtherConnects ==
    /\ ~Live /\ Len(reports) < ReportCap
    /\ \E n \in IF OthersConnect THEN ProfileNames ELSE {session.profile} \ {NoName} :
         session' = [state |-> "CONNECTING", profile |-> n]
    /\ reports' = Append(reports, [state |-> "CONNECTING", detail |-> ""])
    /\ UNCHANGED <<saved, subscribed, toDaemon, toClient>>

DaemonNext == DaemonHandles \/ SessionMoves \/ BroadcastReport \/ LookupAnswers
              \/ OtherConnects
=============================================================================
