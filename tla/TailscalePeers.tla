--------------------------- MODULE TailscalePeers ---------------------------
(***************************************************************************)
(* Two nodes of a tailnet, both running this code, and the WireGuard       *)
(* session between them (WGPeer, TSPeerSet and the packet handlers of      *)
(* TailscaleBackend): lazy handshakes, rekeys started by either side,      *)
(* keepalives, expiry, a peer that leaves the network map and comes back.  *)
(*                                                                         *)
(* The network keeps every datagram ever sent and hands any of them over   *)
(* at any time: losing, delaying, reordering and duplicating are all       *)
(* behaviours of it.  The handshake is symbolic: a chaining key is the     *)
(* sequence of what was mixed into it, and two ends derive the same keys   *)
(* exactly when they mixed the same.  Random indices do not collide.       *)
(***************************************************************************)
EXTENDS Integers, Sequences

CONSTANTS
    Nodes,              \* the two ends
    MaxHandshakes,      \* bound on the initiations and responses ever built
    MaxPackets,         \* bound on the packets sealed under one key
    RekeyTimeout,       \* kRekeyTimeout, and the throttle of _SendToPeer
    KeepaliveTimeout,   \* kKeepaliveTimeout
    RekeyAfterTime,     \* kRekeyAfterTime
    RejectAfterTime     \* kRejectAfterTime

ASSUME PeersAssumption ==
    /\ Nodes # {} /\ \A n \in Nodes : \E m \in Nodes : m # n /\ Nodes = {n, m}
    /\ {MaxHandshakes, MaxPackets, RekeyTimeout, KeepaliveTimeout, RekeyAfterTime,
         RejectAfterTime}
           \subseteq Nat \ {0}
    /\ KeepaliveTimeout > RekeyTimeout /\ RekeyAfterTime > KeepaliveTimeout
    /\ RejectAfterTime > RekeyAfterTime

VARIABLES
    wg,         \* what each node holds about the other: a WGPeer, or no peer
    minted,     \* indices and ephemerals drawn so far
    datagrams,  \* every datagram sent
    sealed,     \* ghost: the key and counter of each packet ever sealed
    opened      \* ghost: the packets each node handed to its tun

peerVars == <<wg, minted, datagrams, sealed, opened>>

Other(n) == CHOOSE m \in Nodes : m # n

NoKeys == [send |-> <<>>, recv |-> <<>>]
NoPeer == [known |-> FALSE]

\* WGPeer's constructor, and ManagedPeer's.  The clocks start long ago.
WGPeer ==
    [known |-> TRUE, keys |-> NoKeys, hasKeys |-> FALSE,
     senderIndex |-> 0, receiverIndex |-> 0, counter |-> 0, replay |-> {}, chain |-> <<>>,
     age |-> RejectAfterTime + 1, sinceInit |-> RekeyTimeout + 1,
     sinceSend |-> KeepaliveTimeout]

PeersInit ==
    /\ wg = [n \in Nodes |-> WGPeer]
    /\ minted = 0 /\ datagrams = {} /\ sealed = {}
    /\ opened = [n \in Nodes |-> {}]

-----------------------------------------------------------------------------
(***************************************************************************)
(* WGPeer.                                                                 *)
(***************************************************************************)
\* SetTransport; the sender index is not its business.
SetTransport(w, keys, index) ==
    [w EXCEPT !.keys = keys, !.hasKeys = TRUE, !.receiverIndex = index,
              !.counter = 0, !.replay = {}, !.age = 0, !.sinceSend = 0]

ExpireIfStale(w) ==
    IF w.hasKeys /\ w.age > RejectAfterTime THEN [w EXCEPT !.hasKeys = FALSE] ELSE w

ShouldInitiateRekey(w) ==
    w.hasKeys /\ w.age >= RekeyAfterTime /\ w.sinceInit >= RekeyTimeout

ShouldKeepalive(w) == w.hasKeys /\ w.sinceSend >= KeepaliveTimeout

\* The peer after BuildInitiation: a new index and a new chain, the old keys kept.
BuildInitiation(w, id) ==
    [w EXCEPT !.senderIndex = id, !.chain = <<id>>, !.sinceInit = 0]

Initiation(n, id) == [type |-> 1, to |-> Other(n), sender |-> id]

\* The initiator sends with the first half of what the handshake yields.
InitiatorKeys(chain) == [send |-> Append(chain, 1), recv |-> Append(chain, 2)]

ResponderKeys(chain) == [send |-> Append(chain, 2), recv |-> Append(chain, 1)]

\* ConsumeInitiation and BuildResponse: the keys are installed at once, for a
\* peer that may never see the response.
AnswerInitiation(w, m, id) ==
    LET chain == <<m.sender, id>> IN
    [SetTransport(w, ResponderKeys(chain), m.sender) EXCEPT
        !.chain = chain, !.senderIndex = id]

Response(n, m, id) ==
    [type |-> 2, to |-> Other(n), sender |-> id, receiver |-> m.sender, seal |-> <<m.sender, id>>]

ConsumeCopy(w, m) ==
    IF Append(SubSeq(w.chain, 1, 1), m.sender) = m.seal
    THEN SetTransport(w, InitiatorKeys(m.seal), m.sender)
    ELSE w

\* ConsumeResponse mixes the response into the chain before it authenticates
\* it.  A chain mixed once too often matches nothing ever after.
ConsumeResponse(w, m) ==
    LET chain == IF Len(w.chain) >= 2 THEN <<0, 0>> ELSE Append(w.chain, m.sender) IN
    IF chain = m.seal
    THEN [SetTransport(w, InitiatorKeys(chain), m.sender) EXCEPT !.chain = chain]
    ELSE [w EXCEPT !.chain = chain]

\* Decapsulate: the tag, then the counter (ReplayWindow says what that does).
CanDecapsulate(w, m) == w.hasKeys /\ w.keys.recv = m.key /\ m.counter \notin w.replay

-----------------------------------------------------------------------------
(***************************************************************************)
(* TailscaleBackend, for one peer.                                         *)
(***************************************************************************)
CanMint == minted < MaxHandshakes

\* A packet sealed with w's keys by n; sealing is the whole of the step.
Packet(n, w) == [type |-> 4, to |-> Other(n), receiver |-> w.receiverIndex,
                 key |-> w.keys.send, counter |-> w.counter]

\* Encapsulate and _SendPeerBytes, from the state w of the peer.
Encapsulate(n, w, before) ==
    /\ w.counter < MaxPackets
    /\ wg' = [wg EXCEPT ![n] = [w EXCEPT !.counter = @ + 1, !.sinceSend = 0]]
    /\ datagrams' = datagrams \cup before \cup {Packet(n, w)}
    /\ sealed' = sealed \cup {<<w.keys.send, w.counter>>}

\* BuildInitiation and _SendPeerBytes.
Initiate(n, w) ==
    /\ CanMint
    /\ minted' = minted + 1
    /\ wg' = [wg EXCEPT ![n] = BuildInitiation(w, minted + 1)]
    /\ datagrams' = datagrams \cup {Initiation(n, minted + 1)}
    /\ UNCHANGED sealed

\* _SendToPeer, for a packet read from the tun.
SendToPeer(n) ==
    LET w == ExpireIfStale(wg[n]) IN
    /\ wg[n].known
    /\ \/ ~w.hasKeys /\ w.sinceInit > RekeyTimeout /\ Initiate(n, w)
       \/ /\ ~w.hasKeys /\ w.sinceInit <= RekeyTimeout      \* the packet is dropped
          /\ wg' = [wg EXCEPT ![n] = w]
          /\ UNCHANGED <<minted, datagrams, sealed>>
       \/ /\ w.hasKeys /\ ~ShouldInitiateRekey(w)
          /\ Encapsulate(n, w, {}) /\ UNCHANGED minted
       \/ /\ w.hasKeys /\ ShouldInitiateRekey(w) /\ CanMint
          /\ minted' = minted + 1
          /\ Encapsulate(n, BuildInitiation(w, minted + 1), {Initiation(n, minted + 1)})
    /\ UNCHANGED opened

\* _MaintainPeers, once a second.
MaintainPeers(n) ==
    LET w == ExpireIfStale(wg[n]) IN
    /\ wg[n].known /\ wg[n].hasKeys
    /\ \/ /\ ~w.hasKeys
          /\ wg' = [wg EXCEPT ![n] = w] /\ UNCHANGED <<minted, datagrams, sealed>>
       \/ ShouldInitiateRekey(w) /\ Initiate(n, w)
       \/ /\ ShouldKeepalive(w) /\ ~ShouldInitiateRekey(w)
          /\ Encapsulate(n, w, {}) /\ UNCHANGED minted
    /\ UNCHANGED opened

\* _HandleWireGuardPacket, type 1: from a peer of the map, answered at once.
HandleInitiation(n, m) ==
    /\ m.type = 1 /\ m.to = n /\ wg[n].known /\ CanMint
    /\ minted' = minted + 1
    /\ wg' = [wg EXCEPT ![n] = AnswerInitiation(@, m, minted + 1)]
    /\ datagrams' = datagrams \cup {Response(n, m, minted + 1)}
    /\ UNCHANGED <<sealed, opened>>

\* FindBySenderIndex: the index we advertised last; 0 is nobody's.
Demuxed(n, m) == wg[n].known /\ m.receiver # 0 /\ wg[n].senderIndex = m.receiver

\* Type 2.
HandleResponse(n, m) ==
    /\ m.type = 2 /\ m.to = n /\ Demuxed(n, m)
    /\ wg' = [wg EXCEPT ![n] = ConsumeResponse(@, m)]
    /\ UNCHANGED <<minted, datagrams, sealed, opened>>

\* Type 4: what opens goes to the tun.
HandleTransport(n, m) ==
    /\ m.type = 4 /\ m.to = n /\ Demuxed(n, m) /\ CanDecapsulate(wg[n], m)
    /\ wg' = [wg EXCEPT ![n].replay = @ \cup {m.counter}]
    /\ opened' = [opened EXCEPT ![n] = @ \cup {<<m.key, m.counter>>}]
    /\ UNCHANGED <<minted, datagrams, sealed>>

\* TSPeerSet::Update keeps a peer's WGPeer as long as the map lists it, ...
PeerLeaves(n) ==
    /\ wg[n].known
    /\ wg' = [wg EXCEPT ![n] = NoPeer]
    /\ UNCHANGED <<minted, datagrams, sealed, opened>>

\* ... and starts it afresh when it is listed again.
PeerReturns(n) ==
    /\ ~wg[n].known
    /\ wg' = [wg EXCEPT ![n] = WGPeer]
    /\ UNCHANGED <<minted, datagrams, sealed, opened>>

Aged(t, limit) == IF t < limit THEN t + 1 ELSE t

Later(w) ==
    [w EXCEPT !.age = Aged(@, RejectAfterTime + 1), !.sinceInit = Aged(@, RekeyTimeout + 1),
              !.sinceSend = Aged(@, KeepaliveTimeout)]

\* system_time() moves on.
Tick ==
    /\ wg' = [n \in Nodes |-> IF wg[n].known THEN Later(wg[n]) ELSE wg[n]]
    /\ wg' # wg
    /\ UNCHANGED <<minted, datagrams, sealed, opened>>

PeersNext ==
    \/ Tick
    \/ \E n \in Nodes :
        \/ SendToPeer(n) \/ MaintainPeers(n) \/ PeerLeaves(n) \/ PeerReturns(n)
        \/ \E m \in datagrams :
            HandleInitiation(n, m) \/ HandleResponse(n, m) \/ HandleTransport(n, m)

-----------------------------------------------------------------------------
(***************************************************************************)
(* Properties.                                                             *)
(***************************************************************************)
\* No counter is used twice under one key, whatever is delivered again: the
\* next nonce of Encapsulate has never been used, by either end, although every
\* SetTransport starts the counter from zero.
NonceUsedOnce ==
    \A n \in Nodes : wg[n].known /\ wg[n].hasKeys =>
        <<wg[n].keys.send, wg[n].counter>> \notin sealed

\* A packet that was handed to the tun is never handed to it again, although
\* every SetTransport empties the replay window.
OpenedOnce ==
    \A n \in Nodes : \A m \in datagrams :
        /\ m.type = 4 /\ m.to = n /\ wg[n].known
        /\ <<m.key, m.counter>> \in opened[n]
        => ~CanDecapsulate(wg[n], m)

\* Two ends that completed the same handshake send and receive with each
\* other's keys, and no packet comes back to the end that sealed it.
KeysMirrored ==
    \A n \in Nodes : LET w == wg[n]  o == wg[Other(n)] IN
        w.known /\ o.known /\ w.hasKeys /\ o.hasKeys =>
            /\ w.keys.send # w.keys.recv /\ w.keys.send # o.keys.send
            /\ (w.keys.send = o.keys.recv <=> w.keys.recv = o.keys.send)

\* The keys of the session between two nodes are sound under every delivery of
\* their datagrams: no nonce twice, no packet twice, and the two ends' keys fit
\* (Encapsulate, Decapsulate, ConsumeResponse, BuildResponse).
SessionKeysSound == NonceUsedOnce /\ OpenedOnce /\ KeysMirrored
=============================================================================
