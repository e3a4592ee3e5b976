---------------------------- MODULE VPNMapWindow ----------------------------
(***************************************************************************)
(* The window that shows the VPNGate catalogue on a map: pins, the side    *)
(* panel, the drill-down into a cluster of pins, and connecting to the     *)
(* picked server.                                                          *)
(*                                                                         *)
(* MapView changes the selection while it handles a click, and tells the   *)
(* window through the window's own queue; a catalogue that was queued      *)
(* before the click is therefore applied in between.                       *)
(***************************************************************************)
EXTENDS Sequences, Naturals, FiniteSets

CONSTANTS
    Servers,        \* hosts of the catalogue
    NoServer,       \* nothing selected, nothing connected
    MapQueueCap     \* bound on the messages waiting at the window

ASSUME MapWindowAssumption == NoServer \notin Servers /\ MapQueueCap \in Nat

VARIABLES
    fPins,          \* the servers on the map
    fOvpnByHost,    \* the hosts whose config is at hand
    fSelectedPin,
    fActiveHost,    \* where the arc points
    panel,          \* the server the side panel describes, and its button connects to
    fClusterList,   \* the rows of the drill-down
    mapQueue,       \* the window's queue
    asked,          \* a catalogue request the daemon has not answered
    fPrompt,        \* the server the open prompt names
    lastConnect     \* the host of the last connect request

mapWindowVars == <<fPins, fOvpnByHost, fSelectedPin, fActiveHost, panel, fClusterList,
                   mapQueue, asked, fPrompt, lastConnect>>

\* The constructor asks for the catalogue and subscribes.
MapWindowInit ==
    /\ fPins = {} /\ fOvpnByHost = {}
    /\ fSelectedPin = NoServer /\ fActiveHost = NoServer
    /\ panel = NoServer
    /\ fClusterList = {}
    /\ mapQueue = <<>>
    /\ asked = TRUE
    /\ fPrompt = NoServer
    /\ lastConnect = NoServer

-----------------------------------------------------------------------------
\* The daemon's side: a catalogue, perhaps with servers that carry no config,
\* perhaps nothing but an error; and status reports with the connected host.
CatalogueSent ==
    /\ asked /\ Len(mapQueue) < MapQueueCap
    /\ asked' = FALSE
    /\ \E servers \in SUBSET Servers : \E configs \in SUBSET servers, error \in BOOLEAN :
         mapQueue' = Append(mapQueue, [what |-> "catalogue", servers |-> servers,
                                       configs |-> configs, error |-> error])
    /\ UNCHANGED <<fPins, fOvpnByHost, fSelectedPin, fActiveHost, panel, fClusterList,
                   fPrompt, lastConnect>>

StatusSent ==
    /\ Len(mapQueue) < MapQueueCap
    /\ \E live \in BOOLEAN, host \in {NoServer, lastConnect} :
         mapQueue' = Append(mapQueue, [what |-> "status", live |-> live, host |-> host])
    /\ UNCHANGED <<fPins, fOvpnByHost, fSelectedPin, fActiveHost, panel, fClusterList,
                   asked, fPrompt, lastConnect>>

-----------------------------------------------------------------------------
\* MapView::MouseDown on a pin: the selection changes now, the window hears of
\* it later; a pin drawn over others stands for all of them.
PinClicked ==
    /\ fPrompt = NoServer /\ Len(mapQueue) < MapQueueCap
    /\ \E members \in SUBSET fPins : \E h \in members :
         /\ fSelectedPin' = h
         /\ mapQueue' = mapQueue \o <<[what |-> "serverSelected"]>>
                        \o (IF Cardinality(members) = 1 THEN <<>>
                            ELSE <<[what |-> "clusterSelected", hosts |-> members]>>)
    /\ UNCHANGED <<fPins, fOvpnByHost, fActiveHost, panel, fClusterList, asked, fPrompt,
                   lastConnect>>

\* SetSelectedHost leaves the selection alone for a host it does not find.
SetSelectedHost(h) == fSelectedPin' = IF h \in fPins THEN h ELSE fSelectedPin

\* _PickClusterRow.
RowPicked ==
    /\ fPrompt = NoServer
    /\ \E h \in fClusterList : SetSelectedHost(h)
    /\ panel' = fSelectedPin'
    /\ UNCHANGED <<fPins, fOvpnByHost, fActiveHost, fClusterList, mapQueue, asked,
                   fPrompt, lastConnect>>

\* kMsgRefresh: _RequestCatalogue(true).
RefreshClicked ==
    /\ fPrompt = NoServer /\ ~asked
    /\ asked' = TRUE
    /\ UNCHANGED <<fPins, fOvpnByHost, fSelectedPin, fActiveHost, panel, fClusterList,
                   mapQueue, fPrompt, lastConnect>>

\* _BeginConnectFlow.
ConnectClicked ==
    /\ fPrompt = NoServer /\ panel # NoServer
    /\ fPrompt' = fSelectedPin
    /\ UNCHANGED <<fPins, fOvpnByHost, fSelectedPin, fActiveHost, panel, fClusterList,
                   mapQueue, asked, lastConnect>>

\* The prompt's answer: _SendConnectWith goes by the selection it finds, and
\* needs its config.
MapPromptAnswered ==
    /\ fPrompt # NoServer
    /\ fPrompt' = NoServer
    /\ \E ok \in BOOLEAN :
         lastConnect' = IF ok /\ fSelectedPin \in fOvpnByHost THEN fSelectedPin
                        ELSE lastConnect
    /\ UNCHANGED <<fPins, fOvpnByHost, fSelectedPin, fActiveHost, panel, fClusterList,
                   mapQueue, asked>>

-----------------------------------------------------------------------------
AppliesUnseen(m) ==
    IF m.error /\ m.servers = {}
    THEN UNCHANGED <<fPins, fOvpnByHost, fSelectedPin, panel, fClusterList>>
    ELSE /\ fPins' = m.servers
         /\ fOvpnByHost' = m.configs
         /\ fSelectedPin' = NoServer
         /\ fClusterList' = {}
         /\ UNCHANGED panel

\* _ApplyCatalogue: an error without servers changes nothing on the map;
\* otherwise pins, configs, selection and drill-down all start afresh.
ApplyCatalogue(m) ==
    IF m.error /\ m.servers = {}
    THEN UNCHANGED <<fPins, fOvpnByHost, fSelectedPin, panel, fClusterList>>
    ELSE /\ fPins' = m.servers
         /\ fOvpnByHost' = m.configs
         /\ fSelectedPin' = NoServer
         /\ panel' = NoServer
         /\ fClusterList' = {}

\* SetActiveHost: the arc, while a session is live.
SetActiveHost(m) ==
    /\ fActiveHost' = IF m.live THEN m.host ELSE NoServer
    /\ UNCHANGED <<fPins, fOvpnByHost, fSelectedPin, panel, fClusterList>>

\* _HideCluster and _RefreshSidePanel, after the map says that a pin was picked.
RefreshSidePanel ==
    /\ panel' = fSelectedPin
    /\ fClusterList' = {}
    /\ UNCHANGED <<fPins, fOvpnByHost, fSelectedPin, fActiveHost>>

\* _ApplyCluster: the rows are the members the click found.
ApplyCluster(m) ==
    /\ fClusterList' = m.hosts
    /\ UNCHANGED <<fPins, fOvpnByHost, fSelectedPin, fActiveHost, panel>>

\* MessageReceived for what the queue holds.
MapWindowHandles ==
    /\ mapQueue # <<>>
    /\ mapQueue' = Tail(mapQueue)
    /\ LET m == Head(mapQueue)
       IN CASE m.what = "catalogue"       -> ApplyCatalogue(m) /\ UNCHANGED fActiveHost
            [] m.what = "status"          -> SetActiveHost(m)
            [] m.what = "serverSelected"  -> RefreshSidePanel
            [] m.what = "clusterSelected" -> ApplyCluster(m)
    /\ UNCHANGED <<asked, fPrompt, lastConnect>>

MapWindowNext ==
    \/ CatalogueSent \/ StatusSent
    \/ PinClicked \/ RowPicked \/ RefreshClicked \/ ConnectClicked \/ MapPromptAnswered
    \/ MapWindowHandles

-----------------------------------------------------------------------------
\* With every message handled, the panel describes the server the Connect
\* button would connect to, and that server is on the map: a catalogue that
\* overtakes the notice of a click, and a row of a drill-down the new catalogue
\* no longer has, included (_RefreshSidePanel, SelectedServer).
PanelIsSelection ==
    mapQueue = <<>> => panel = fSelectedPin /\ panel \in fPins \cup {NoServer}
=============================================================================
