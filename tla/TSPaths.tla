------------------------------- MODULE TSPaths -------------------------------
(***************************************************************************)
(* How packets get to one peer of the tailnet (PeerPath, TSDisco and the   *)
(* senders and handlers of TailscaleBackend): over the DERP relay from the *)
(* start, straight to an address once a disco pong came back from it.      *)
(*                                                                         *)
(* The peer moves between addresses, its endpoints are whatever the map    *)
(* last said, pings, pongs and handshakes get lost, and the relay comes    *)
(* and goes.  Of the WireGuard handshake only its completion is kept;      *)
(* TailscalePeers has the rest.                                            *)
(***************************************************************************)
EXTENDS Integers

CONSTANTS
    Addresses,      \* "ip:port" endpoints
    Nowhere,        \* no address
    PingThrottle,   \* time units between two bursts of pings to a peer
    InitThrottle,   \* time units between two lazy handshakes
    MaxMoves        \* bound on how often the peer, its map entry or the relay changes

ASSUME PathsAssumption ==
    /\ Nowhere \notin Addresses
    /\ PingThrottle \in Nat \ {0} /\ InitThrottle \in Nat \ {0} /\ MaxMoves \in Nat

VARIABLES
    fMode, fEndpoint,   \* PeerPath
    endpoints,          \* the peer's candidates, from the map
    hasKeys,            \* a WireGuard handshake completed
    sincePing,          \* since lastDiscoPing
    sinceHandshake,     \* since lastHandshake
    relayUp,            \* fDerpUp
    where,              \* where the peer can be reached, if anywhere
    pings, pongs,       \* in flight: sent to, sent from
    initiation,         \* in flight: where to, or over the relay
    moves

peerPath == <<fMode, fEndpoint>>
flights == <<pings, pongs, initiation>>
clocks == <<sincePing, sinceHandshake>>
world == <<endpoints, relayUp, where, moves>>
pathVars == <<peerPath, hasKeys, clocks, flights, world>>

PathsInit ==
    /\ fMode \in {"NONE", "DERP"} /\ fEndpoint = Nowhere
    /\ endpoints \in SUBSET Addresses
    /\ hasKeys = FALSE
    /\ sincePing = PingThrottle /\ sinceHandshake = InitThrottle + 1
    /\ relayUp \in BOOLEAN
    /\ where \in Addresses \cup {Nowhere}
    /\ pings = {} /\ pongs = {} /\ initiation = Nowhere
    /\ moves = 0

-----------------------------------------------------------------------------
(***************************************************************************)
(* Sending.                                                                *)
(***************************************************************************)
\* _SendPeerBytes and peer_sockaddr: only a confirmed endpoint is sent to.
SendPath ==
    IF fMode = "DIRECT" /\ fEndpoint # Nowhere THEN fEndpoint
    ELSE IF relayUp THEN "relay" ELSE Nowhere

\* _SendDiscoPing: every candidate, at most every two seconds.
SendDiscoPing ==
    IF endpoints # {} /\ sincePing >= PingThrottle
    THEN pings' = pings \cup endpoints /\ sincePing' = 0
    ELSE UNCHANGED <<pings, sincePing>>

PingWithKeysOnly ==
    IF fMode # "DIRECT" /\ hasKeys THEN SendDiscoPing ELSE UNCHANGED <<pings, sincePing>>

\* _SendToPeer probes while it still relays, keys or no keys.
Probe ==
    IF fMode # "DIRECT" THEN SendDiscoPing ELSE UNCHANGED <<pings, sincePing>>

\* The lazy handshake of _SendToPeer.
StartHandshake ==
    IF ~hasKeys /\ sinceHandshake > InitThrottle
    THEN initiation' = SendPath /\ sinceHandshake' = 0
    ELSE UNCHANGED <<initiation, sinceHandshake>>

\* _SendToPeer for a packet from the tun; a rekey is TailscalePeers'.
SendPacket ==
    /\ Probe /\ StartHandshake
    /\ UNCHANGED <<peerPath, hasKeys, pongs, world>>

\* The other end's _HandleDiscoPacket answers a ping it gets, whoever asks.
PingArrives(a) ==
    /\ a \in pings
    /\ pings' = pings \ {a}
    /\ pongs' = IF a = where THEN pongs \cup {a} ELSE pongs
    /\ UNCHANGED <<peerPath, hasKeys, clocks, initiation, world>>

\* UpgradeToDirect; the pong's transaction is not compared with the ping's.
PongArrives(a) ==
    /\ a \in pongs
    /\ pongs' = pongs \ {a}
    /\ fMode' = "DIRECT" /\ fEndpoint' = a
    /\ UNCHANGED <<hasKeys, clocks, pings, initiation, world>>

\* The initiation gets there, and its answer back.
HandshakeCompletes ==
    /\ initiation \in {"relay", where} \ {Nowhere}
    /\ initiation = "relay" => relayUp
    /\ initiation' = Nowhere /\ hasKeys' = TRUE
    /\ UNCHANGED <<peerPath, clocks, pings, pongs, world>>

\* Pings, pongs and initiations are datagrams.
Lost ==
    /\ \/ \E a \in pings : pings' = pings \ {a} /\ UNCHANGED <<pongs, initiation>>
       \/ \E a \in pongs : pongs' = pongs \ {a} /\ UNCHANGED <<pings, initiation>>
       \/ initiation # Nowhere /\ initiation' = Nowhere /\ UNCHANGED <<pings, pongs>>
    /\ UNCHANGED <<peerPath, hasKeys, clocks, world>>

\* ExpireIfStale, after a rekey nobody answered.
KeysExpire ==
    /\ hasKeys /\ hasKeys' = FALSE
    /\ moves < MaxMoves /\ moves' = moves + 1
    /\ UNCHANGED <<peerPath, clocks, flights, endpoints, relayUp, where>>

\* TSPeerSet::Update: new candidates, and UseDerp if the peer has a home region.
MapChanges ==
    /\ moves < MaxMoves /\ moves' = moves + 1
    /\ endpoints' \in SUBSET Addresses
    /\ fMode' \in {fMode, IF fMode = "NONE" THEN "DERP" ELSE fMode}
    /\ UNCHANGED <<fEndpoint, hasKeys, clocks, flights, relayUp, where>>

WorldChanges ==
    /\ moves < MaxMoves /\ moves' = moves + 1
    /\ \/ where' \in Addresses \cup {Nowhere} /\ UNCHANGED relayUp
       \/ relayUp' = ~relayUp /\ UNCHANGED where
    /\ UNCHANGED <<peerPath, hasKeys, clocks, flights, endpoints>>

PathTick ==
    /\ sincePing < PingThrottle \/ sinceHandshake <= InitThrottle
    /\ sincePing' = IF sincePing < PingThrottle THEN sincePing + 1 ELSE sincePing
    /\ sinceHandshake' = IF sinceHandshake <= InitThrottle THEN sinceHandshake + 1
                                                           ELSE sinceHandshake
    /\ UNCHANGED <<peerPath, hasKeys, flights, world>>

PathsNext ==
    \/ SendPacket \/ HandshakeCompletes \/ Lost \/ KeysExpire
    \/ MapChanges \/ WorldChanges \/ PathTick
    \/ \E a \in Addresses : PingArrives(a) \/ PongArrives(a)

\* Packets for the peer keep coming, time passes, and a datagram that is sent
\* again and again to where it can be received gets through sometime.
PathsFairness ==
    /\ WF_pathVars(SendPacket) /\ WF_pathVars(PathTick)
    /\ SF_pathVars(HandshakeCompletes)
    /\ \A a \in Addresses : SF_pathVars(PingArrives(a)) /\ SF_pathVars(PongArrives(a))

-----------------------------------------------------------------------------
(***************************************************************************)
(* Properties.                                                             *)
(***************************************************************************)
Reachable == where \in endpoints
DirectWorks == fMode = "DIRECT" => fEndpoint = where

\* A peer that can be reached at an address the map lists gets its session,
\* relay or no relay, unless the path was once upgraded to an address that no
\* longer works: the probe of _SendToPeer does not wait for the handshake.
PunchesThrough == <>[](Reachable /\ DirectWorks) => []<>hasKeys
=============================================================================
