------------------------------ MODULE TSNetmap ------------------------------
(***************************************************************************)
(* The network map of a tailnet (TSNetmap, TSPeerSet, TSMagicDns and       *)
(* SessionState::ApplyMapResponse): control streams a snapshot and then    *)
(* changes to it, over connections that break and are opened again, and    *)
(* the peer set, the resolver's table and the routing of packets to peers  *)
(* are derived anew from every message.                                    *)
(*                                                                         *)
(* Control is external: it names each node by an ID that stays, and a key  *)
(* that may be rotated to one nobody else has.  A node that registers      *)
(* again keeps its key under a new ID.                                     *)
(***************************************************************************)
EXTENDS Integers, Sequences, FiniteSets, SequencesExt

CONSTANTS
    NodeIDs,        \* tailcfg NodeIDs
    NodeKeys,
    Hosts,          \* hostnames
    AddressBits,    \* width of an address: 32
    CIDRs,       \* CIDRs that may be advertised, as <<network, length>>
    StreamCap       \* bound on the messages under way

ASSUME NetmapAssumption ==
    /\ 0 \notin NodeIDs /\ NodeIDs \subseteq Int
    /\ AddressBits \in Nat /\ StreamCap \in Nat \ {0}
    /\ CIDRs \subseteq (0..(2^AddressBits - 1)) \X (0..AddressBits)

VARIABLES
    tailnet,        \* control's truth: the nodes there are
    stream,         \* the messages of the current map stream not yet read
    fPeers,         \* TSNetmap::fPeers
    managed,        \* TSPeerSet::fPeers
    fHosts          \* MagicDns

mapVars == <<tailnet, stream, fPeers, managed, fHosts>>

Node == [nodeID : NodeIDs, nodeKey : NodeKeys, hostname : Hosts, allowedIPs : CIDRs]

IDs(nodes) == {n.nodeID : n \in nodes}
Keys(nodes) == {n.nodeKey : n \in nodes}

\* Control's nodes have distinct IDs and distinct keys.
Distinct(nodes) ==
    \A a, b \in nodes : a.nodeID = b.nodeID \/ a.nodeKey = b.nodeKey => a = b

NoMessage == [peers |-> FALSE, snapshot |-> <<>>, changed |-> <<>>, patch |-> <<>>,
              removed |-> <<>>]

Snapshot(nodes) ==
    [NoMessage EXCEPT !.peers = TRUE, !.snapshot = SetToSeq(nodes)]

NetmapInit ==
    /\ tailnet = {}
    /\ stream = <<Snapshot({})>>
    /\ fPeers = <<>>
    /\ managed = <<>> /\ fHosts = <<>>

-----------------------------------------------------------------------------
(***************************************************************************)
(* Control (external).                                                     *)
(***************************************************************************)
\* A node that stays may rotate its key, to one that was nobody's.
Rotates(old, new) ==
    \A n \in new : \A o \in old :
        n.nodeID = o.nodeID => n.nodeKey = o.nodeKey \/ n.nodeKey \notin Keys(old)

\* A patch carries the key only; it is for a node whose key is all that changed.
Patchable(old, n) ==
    \E o \in old : n # o /\ [o EXCEPT !.nodeKey = n.nodeKey] = n

\* One message for the step from one set of nodes to the next, in any order.
ChangeMessage(old, new, patched) ==
    [NoMessage EXCEPT
        !.changed = SetToSeq(new \ (old \cup patched)),
        !.patch   = SetToSeq(patched),
        !.removed = SetToSeq(IDs(old) \ IDs(new))]

\* Nodes join, leave, rotate keys, register again, advertise other routes.
TailnetChanges ==
    /\ Len(stream) < StreamCap
    /\ \E gone \in {{}} \cup {{n} : n \in tailnet}, new \in Node \cup {[nodeID |-> 0]} :
        LET kept  == {n \in tailnet \ gone : n.nodeID # new.nodeID}
            nodes == IF new.nodeID = 0 THEN kept ELSE kept \cup {new}
        IN  /\ nodes # tailnet
            /\ Distinct(nodes) /\ Rotates(tailnet, nodes)
            /\ tailnet' = nodes
            /\ \E patched \in SUBSET {n \in nodes : Patchable(tailnet, n)} :
                stream' = Append(stream, ChangeMessage(tailnet, nodes, patched))
    /\ UNCHANGED <<fPeers, managed, fHosts>>

\* The stream breaks; the next one starts with a snapshot (_RunMap, _RunMapSession).
StreamReopened ==
    /\ stream' = <<Snapshot(tailnet)>>
    /\ UNCHANGED <<tailnet, fPeers, managed, fHosts>>

-----------------------------------------------------------------------------
(***************************************************************************)
(* TSNetmap::Parse, section by section.                                    *)
(***************************************************************************)
UpsertByKey(peers, n) ==
    LET at == {i \in DOMAIN peers : peers[i].nodeKey = n.nodeKey}
    IN IF at = {} THEN Append(peers, n) ELSE [peers EXCEPT ![CHOOSE i \in at : TRUE] = n]

\* _UpsertPeer: over the first entry with that ID or that key.
UpsertPeer(peers, n) ==
    LET at == {i \in DOMAIN peers :
                  (n.nodeID # 0 /\ peers[i].nodeID = n.nodeID) \/ peers[i].nodeKey = n.nodeKey}
    IN IF at = {} THEN Append(peers, n)
       ELSE [peers EXCEPT ![CHOOSE i \in at : \A j \in at : i <= j] = n]

FirstWithID(peers, id) ==
    LET at == {i \in DOMAIN peers : peers[i].nodeID = id}
    IN IF at = {} THEN 0 ELSE CHOOSE i \in at : \A j \in at : i <= j

\* "PeersChangedPatch": the fields it carries, on the first entry with that ID.
PatchPeer(peers, n) ==
    LET i == FirstWithID(peers, n.nodeID)
    IN IF i = 0 THEN peers ELSE [peers EXCEPT ![i].nodeKey = n.nodeKey]

\* "PeersRemoved".
RemovePeer(peers, id) ==
    LET i == FirstWithID(peers, id) IN IF i = 0 THEN peers ELSE RemoveAt(peers, i)

\* Each section is a loop over what it carries.
UpsertPeers(peers, nodes) ==
    LET after[i \in 0..Len(nodes)] ==
            IF i = 0 THEN peers ELSE UpsertPeer(after[i - 1], nodes[i])
    IN  after[Len(nodes)]

PatchPeers(peers, nodes) ==
    LET after[i \in 0..Len(nodes)] ==
            IF i = 0 THEN peers ELSE PatchPeer(after[i - 1], nodes[i])
    IN  after[Len(nodes)]

RemovePeers(peers, ids) ==
    LET after[i \in 0..Len(ids)] ==
            IF i = 0 THEN peers ELSE RemovePeer(after[i - 1], ids[i])
    IN  after[Len(ids)]

\* Only the sections that are present change anything.
Parse(peers, m) ==
    LET start   == IF m.peers THEN m.snapshot ELSE peers
        changed == UpsertPeers(start, m.changed)
        patched == PatchPeers(changed, m.patch)
    IN  RemovePeers(patched, m.removed)

-----------------------------------------------------------------------------
(***************************************************************************)
(* What is derived from the map.                                           *)
(***************************************************************************)
Listed(peers, k) == \E i \in DOMAIN peers : peers[i].nodeKey = k
Entry(peers, k) == peers[CHOOSE i \in DOMAIN peers : peers[i].nodeKey = k]

\* The entries of s with a key in K, in their order.
WithKeys(s, K) ==
    LET found[i \in 0..Len(s)] ==
            IF i = 0 THEN <<>>
            ELSE IF s[i].nodeKey \in K THEN Append(found[i - 1], s[i]) ELSE found[i - 1]
    IN  found[Len(s)]

\* TSPeerSet::Update, the first loop for the peers there were: the WGPeer stays.
Refreshed(old, peers) ==
    LET kept == WithKeys(old, Keys(ToSet(peers)))
    IN [i \in DOMAIN kept |->
            [kept[i] EXCEPT !.allowedIPs = Entry(peers, kept[i].nodeKey).allowedIPs]]

\* ... and for those there were not.
NewPeers(old, peers) == WithKeys(peers, Keys(ToSet(peers)) \ Keys(ToSet(old)))

StartsAfresh(old, peers) ==
    [i \in DOMAIN peers |->
        [nodeKey |-> peers[i].nodeKey, allowedIPs |-> peers[i].allowedIPs, hasKeys |-> FALSE]]

\* TSPeerSet::Update.
Update(old, peers) ==
    LET new == NewPeers(old, peers) IN
    Refreshed(old, peers) \o
        [i \in DOMAIN new |-> [nodeKey |-> new[i].nodeKey, allowedIPs |-> new[i].allowedIPs,
                               hasKeys |-> FALSE]]

\* MagicDns::LoadFromNetmap; a host's address stands for its node.
LoadHosts(peers) == [i \in DOMAIN peers |-> <<peers[i].hostname, peers[i].nodeKey>>]

\* SessionState::ApplyMapResponse, for the next message of the stream.
ApplyMapResponse ==
    /\ stream # <<>>
    /\ LET m == Head(stream)  peers == Parse(fPeers, m)
       IN  /\ fPeers' = peers
           /\ managed' = Update(managed, peers)
           /\ fHosts' = LoadHosts(peers)
    /\ stream' = Tail(stream)
    /\ UNCHANGED tailnet

\* A handshake with the peer completes (TailscalePeers).
SessionUp ==
    /\ \E i \in DOMAIN managed : ~managed[i].hasKeys /\ managed' = [managed EXCEPT ![i].hasKeys = TRUE]
    /\ UNCHANGED <<tailnet, stream, fPeers, fHosts>>

NetmapNext == SessionUp \/ TailnetChanges \/ StreamReopened \/ ApplyMapResponse

-----------------------------------------------------------------------------
(***************************************************************************)
(* Looking things up.                                                      *)
(***************************************************************************)
\* Same network as far as the mask goes.
Matches(cidr, a) == LET rest == 2^(AddressBits - cidr[2]) IN a \div rest = cidr[1] \div rest

Better(best, p, a) ==
    IF Matches(p.allowedIPs, a) /\ p.allowedIPs[2] > best.prefix
    THEN [prefix |-> p.allowedIPs[2], key |-> {p.nodeKey}]
    ELSE best

FirstMatch(peers, a) ==
    LET at == {i \in DOMAIN peers : Matches(peers[i].allowedIPs, a)}
    IN IF at = {} THEN {} ELSE {peers[CHOOSE i \in at : \A j \in at : i <= j].nodeKey}

\* FindByAllowedIP: the peer a packet for address a goes to, if any.
FindByAllowedIP(peers, a) ==
    LET best[i \in 0..Len(peers)] ==
            IF i = 0 THEN [prefix |-> -1, key |-> {}] ELSE Better(best[i - 1], peers[i], a)
    IN  best[Len(peers)].key

\* MagicDns::Resolve: answered with the first host of that name, or forwarded.
Resolve(host) ==
    LET at == {i \in DOMAIN fHosts : fHosts[i][1] = host}
    IN IF at = {} THEN {} ELSE {fHosts[CHOOSE i \in at : \A j \in at : i <= j][2]}

-----------------------------------------------------------------------------
(***************************************************************************)
(* Properties.                                                             *)
(***************************************************************************)
\* Once the stream is read to its end the map holds each of control's nodes,
\* once, and nothing else, whatever deltas, key rotations and new connections
\* led there (Parse).
MapFollowsControl ==
    stream = <<>> => ToSet(fPeers) = tailnet /\ Len(fPeers) = Cardinality(tailnet)

\* Every message leaves the peer set with exactly the map's keys, each once, and
\* a packet goes to a peer whose route for it is the most specific of the map
\* (Update, FindByAllowedIP).
PeerSetFollowsMap ==
    /\ {p.nodeKey : p \in ToSet(managed)} = Keys(ToSet(fPeers))
    /\ Len(managed) = Len(fPeers)
    /\ \A a \in 0..(2^AddressBits - 1) :
        LET hits == {n \in ToSet(fPeers) : Matches(n.allowedIPs, a)}
            best == {n \in hits : \A o \in hits : o.allowedIPs[2] <= n.allowedIPs[2]}
        IN IF best = {} THEN FindByAllowedIP(managed, a) = {}
           ELSE \E n \in best : FindByAllowedIP(managed, a) = {n.nodeKey}

\* A peer that stays listed keeps its WGPeer, whatever else a message changes:
\* its session goes on (Update).
SessionsSurviveMaps ==
    [][\A p \in ToSet(managed) : Listed(fPeers', p.nodeKey) =>
        \E q \in ToSet(managed') : q.nodeKey = p.nodeKey /\ (p.hasKeys => q.hasKeys)]_mapVars

\* The resolver answers with a node of the map that has that name, and forwards
\* a name only if no node has it (LoadFromNetmap).
ResolverFollowsMap ==
    \A h \in Hosts :
        LET named == {n \in ToSet(fPeers) : n.hostname = h} IN
        IF named = {} THEN Resolve(h) = {} ELSE \E n \in named : Resolve(h) = {n.nodeKey}

\* Peers and names that are used are the map's own (Update, LoadFromNetmap).
DerivedFollowMap == PeerSetFollowsMap /\ ResolverFollowsMap
=============================================================================
