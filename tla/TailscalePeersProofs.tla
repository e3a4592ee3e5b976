------------------------ MODULE TailscalePeersProofs ------------------------
(***************************************************************************)
(* Theorems about the WireGuard session between two nodes of a tailnet,    *)
(* for any number of handshakes and packets and any timers, whatever the   *)
(* network loses, delays, reorders or delivers again.                      *)
(*                                                                         *)
(* Then ReplayWindow for every word size, ring size and counter range: no  *)
(* counter is taken twice under one key, and none that is within the       *)
(* window is dropped.  The provers know little about quotients by a        *)
(* variable, so the facts the ring rests on come first.                    *)
(***************************************************************************)
EXTENDS TailscalePeers, ReplayWindow, TLAPS

PeersSpec == PeersInit /\ [][PeersNext]_peerVars

-----------------------------------------------------------------------------
(***************************************************************************)
(* Names, keys and what the operations on a WGPeer change.                 *)
(***************************************************************************)
\* What handshakes may have yielded with N indices and ephemerals drawn: the
\* initiator's draw, the responder's, and which half of the two keys it is.
KeysTo(N) == {<<i, r, h>> : i \in 1..N, r \in 1..N, h \in {1, 2}}

KeyPair == [send : Seq(Nat), recv : Seq(Nat)]

\* A ManagedPeer.
Peer == [known : {TRUE}, keys : KeyPair, hasKeys : BOOLEAN,
         senderIndex : Nat, receiverIndex : Nat, counter : Nat, replay : SUBSET Nat,
         chain : Seq(Nat), age : Nat, sinceInit : Nat, sinceSend : Nat]

\* There are two ends, each the other's.
LEMMA TwoEnds ==
    ASSUME NEW n \in Nodes
    PROVE  /\ Other(n) \in Nodes /\ Other(n) # n /\ Other(Other(n)) = n
           /\ \A m \in Nodes : m = n \/ m = Other(n)
<1>1. PICK o \in Nodes : o # n /\ Nodes = {n, o}
  BY PeersAssumption
<1>2. Other(n) = o
  BY <1>1 DEF Other
<1>3. Other(o) = n
  BY <1>1 DEF Other
<1> QED BY <1>1, <1>2, <1>3

\* The keys of a completed handshake, spelled out.
LEMMA HandshakeKeys ==
    ASSUME NEW i \in Nat, NEW r \in Nat
    PROVE  /\ InitiatorKeys(<<i, r>>) = [send |-> <<i, r, 1>>, recv |-> <<i, r, 2>>]
           /\ ResponderKeys(<<i, r>>) = [send |-> <<i, r, 2>>, recv |-> <<i, r, 1>>]
           /\ InitiatorKeys(<<i, r>>) \in KeyPair /\ ResponderKeys(<<i, r>>) \in KeyPair
<1>1. ASSUME NEW h \in {1, 2} PROVE Append(<<i, r>>, h) = <<i, r, h>>
  <2> DEFINE a == Append(<<i, r>>, h)
             b == <<i, r, h>>
  <2>1. a \in Seq(Nat) /\ Len(a) = 3 /\ a[1] = i /\ a[2] = r /\ a[3] = h
    OBVIOUS
  <2>2. b \in Seq(Nat) /\ Len(b) = 3 /\ b[1] = i /\ b[2] = r /\ b[3] = h
    OBVIOUS
  <2> HIDE DEF a, b
  <2>3. a = b
    <3>1. \A j \in 1..3 : a[j] = b[j]
      BY <2>1, <2>2
    <3>2. a = [j \in 1..3 |-> a[j]] /\ b = [j \in 1..3 |-> b[j]]
      BY <2>1, <2>2
    <3> QED BY <3>1, <3>2
  <2> QED BY <2>3 DEF a, b
<1>2. <<i, r, 1>> \in Seq(Nat) /\ <<i, r, 2>> \in Seq(Nat)
  OBVIOUS
<1> QED BY <1>1, <1>2 DEF InitiatorKeys, ResponderKeys, KeyPair

\* A new WGPeer.
LEMMA NewPeer ==
    /\ WGPeer \in Peer
    /\ WGPeer.keys = NoKeys /\ ~WGPeer.hasKeys /\ WGPeer.chain = <<>> /\ WGPeer.senderIndex = 0
<1>1. /\ RejectAfterTime + 1 \in Nat /\ RekeyTimeout + 1 \in Nat /\ KeepaliveTimeout \in Nat
      /\ 0 \in Nat /\ <<>> \in Seq(Nat)
  <2>1. RejectAfterTime \in Nat /\ RekeyTimeout \in Nat /\ KeepaliveTimeout \in Nat
    BY PeersAssumption
  <2> QED BY <2>1
<1>2. NoKeys \in KeyPair
  BY <1>1 DEF NoKeys, KeyPair
<1> QED BY <1>1, <1>2 DEF WGPeer, Peer

\* What two states of a peer have in common when no handshake came in between.
SameKeys(v, w) ==
    /\ v \in Peer /\ w.keys = v.keys /\ v.senderIndex = w.senderIndex /\ v.chain = w.chain
    /\ v.replay = w.replay /\ (v.hasKeys => w.hasKeys)

\* _ExpireIfStale and the passing of time leave the keys and their use alone.
LEMMA TimePasses ==
    ASSUME NEW w \in Peer
    PROVE  /\ SameKeys(ExpireIfStale(w), w) /\ ExpireIfStale(w).counter = w.counter
           /\ SameKeys(Later(w), w) /\ Later(w).counter = w.counter
<1>1. SameKeys(ExpireIfStale(w), w) /\ ExpireIfStale(w).counter = w.counter
  BY DEF ExpireIfStale, SameKeys, Peer
<1>2. /\ Aged(w.age, RejectAfterTime + 1) \in Nat /\ Aged(w.sinceInit, RekeyTimeout + 1) \in Nat
      /\ Aged(w.sinceSend, KeepaliveTimeout) \in Nat
  BY DEF Peer, Aged
<1>3. SameKeys(Later(w), w) /\ Later(w).counter = w.counter
  BY <1>2 DEF Later, SameKeys, Peer
<1> QED BY <1>1, <1>3

\* Encapsulate only takes the next counter.
LEMMA Counted ==
    ASSUME NEW w \in Peer
    PROVE  LET v == [w EXCEPT !.counter = w.counter + 1, !.sinceSend = 0] IN
           SameKeys(v, w) /\ v.counter = w.counter + 1
<1>1. w.counter + 1 \in Nat /\ 0 \in Nat
  BY DEF Peer
<1> QED BY <1>1 DEF SameKeys, Peer

\* BuildInitiation only starts a new chain.
LEMMA InitiationBuilt ==
    ASSUME NEW w \in Peer, NEW id \in Nat
    PROVE  LET v == BuildInitiation(w, id) IN
           /\ v \in Peer /\ v.keys = w.keys /\ v.hasKeys = w.hasKeys
           /\ v.counter = w.counter /\ v.replay = w.replay
           /\ v.chain = <<id>> /\ v.senderIndex = id
<1>1. <<id>> \in Seq(Nat) /\ 0 \in Nat
  OBVIOUS
<1> QED BY <1>1 DEF BuildInitiation, Peer

\* SetTransport installs the keys with a fresh counter and window.
LEMMA TransportSet ==
    ASSUME NEW w \in Peer, NEW keys \in KeyPair, NEW index \in Nat
    PROVE  LET v == SetTransport(w, keys, index) IN
           /\ v \in Peer /\ v.keys = keys /\ v.hasKeys
           /\ v.counter = 0 /\ v.replay = {}
           /\ v.chain = w.chain /\ v.senderIndex = w.senderIndex
  BY DEF SetTransport, Peer

\* A key names the draws it was made of.
LEMMA KeyParts ==
    ASSUME NEW N \in Nat, NEW i, NEW r, NEW h
    PROVE  <<i, r, h>> \in KeysTo(N) <=> i \in 1..N /\ r \in 1..N /\ h \in {1, 2}
  BY DEF KeysTo

\* Keys stay keys when more is drawn.
LEMMA KeysGrow ==
    ASSUME NEW N \in Nat
    PROVE  KeysTo(N) \subseteq KeysTo(N + 1) /\ 1..N \subseteq 1..(N + 1)
<1>1. 1..N \subseteq 1..(N + 1)
  OBVIOUS
<1>2. ASSUME NEW k \in KeysTo(N) PROVE k \in KeysTo(N + 1)
  <2>1. PICK i \in 1..N, r \in 1..N, h \in {1, 2} : k = <<i, r, h>>
    BY DEF KeysTo
  <2>2. N + 1 \in Nat /\ i \in 1..(N + 1) /\ r \in 1..(N + 1)
    OBVIOUS
  <2> QED BY <2>1, <2>2, KeyParts
<1> QED BY <1>1, <1>2

-----------------------------------------------------------------------------
(***************************************************************************)
(* What one end may hold, given what has happened so far: B, the draws     *)
(* each end began a handshake with; S, the nonces used under each key; O,  *)
(* the packets this end has opened; N, the number of draws.                *)
(*                                                                         *)
(* SessionKeysSound is not inductive.  A nonce is safe because a key is    *)
(* installed once: the responder's because its draw is new, the            *)
(* initiator's because its chain takes one response only, which says that  *)
(* as long as the chain is open, nothing of the keys it may still lead to  *)
(* has been used.                                                          *)
(***************************************************************************)
\* The keys that the handshake begun with i gives its initiator are untouched.
Untouched(w, S, O, i) ==
    \A r \in Nat : /\ w.keys.send # <<i, r, 1>>
                   /\ \A c \in Nat : /\ <<<<i, r, 1>>, c>> \notin S
                                     /\ <<<<i, r, 2>>, c>> \notin O

ChainSound(n, w, B, S, O) ==
    \/ w.chain = <<>> /\ w.senderIndex = 0
    \/ /\ w.chain = <<w.senderIndex>> /\ w.senderIndex \in B[n]
       /\ Untouched(w, S, O, w.senderIndex)
    \/ Len(w.chain) = 2

\* Keys come of a handshake that this end, or the other, began.
Initiated(n, w, B, N) ==
    \E i \in B[n], r \in 1..N : w.keys = [send |-> <<i, r, 1>>, recv |-> <<i, r, 2>>]
Answered(n, w, B, N) ==
    \E i \in B[Other(n)], r \in 1..N : w.keys = [send |-> <<i, r, 2>>, recv |-> <<i, r, 1>>]

KeysKnown(n, w, B, N) ==
    \/ w.keys = NoKeys /\ ~w.hasKeys
    \/ Initiated(n, w, B, N) \/ Answered(n, w, B, N)

\* Every nonce used under the current key is behind the counter.
CounterAhead(w, S) == \A c \in Nat : <<w.keys.send, c>> \in S => c < w.counter

\* Every packet opened under the current key is in the window.
WindowFull(w, O) == \A c \in Nat : <<w.keys.recv, c>> \in O => c \in w.replay

Sound(n, w, B, S, O, N) ==
    /\ ChainSound(n, w, B, S, O) /\ KeysKnown(n, w, B, N)
    /\ CounterAhead(w, S) /\ WindowFull(w, O)

\* The history that a peer is judged by.
History(B, S, N) ==
    /\ N \in Nat /\ B \in [Nodes -> SUBSET (1..N)]
    /\ S \subseteq KeysTo(N) \X Nat
    /\ \A n \in Nodes : B[n] \cap B[Other(n)] = {}

\* A new WGPeer is sound.
LEMMA NewIsSound ==
    ASSUME NEW n \in Nodes, NEW B, NEW S, NEW N, NEW O, History(B, S, N),
           O \subseteq KeysTo(N) \X Nat
    PROVE  Sound(n, WGPeer, B, S, O, N)
<1>1. <<>> \notin KeysTo(N)
  BY DEF KeysTo
<1>2. WGPeer.keys.send = <<>> /\ WGPeer.keys.recv = <<>>
  BY NewPeer DEF NoKeys
<1>3. \A c \in Nat : <<<<>>, c>> \notin S /\ <<<<>>, c>> \notin O
  BY <1>1 DEF History
<1> QED BY <1>2, <1>3, NewPeer DEF Sound, ChainSound, KeysKnown, CounterAhead, WindowFull

\* Whatever leaves keys and counter alone leaves a peer sound.
LEMMA SameIsSound ==
    ASSUME NEW n, NEW w, NEW v, NEW B, NEW S, NEW O, NEW N, Sound(n, w, B, S, O, N),
           SameKeys(v, w), v.counter = w.counter
    PROVE  Sound(n, v, B, S, O, N)
  BY DEF Sound, SameKeys, ChainSound, Untouched, KeysKnown, Initiated, Answered,
         CounterAhead, WindowFull

\* A draw, and whatever is begun with it, does not concern a peer that is sound.
LEMMA DrawKeepsSound ==
    ASSUME NEW n \in Nodes, NEW w, NEW B, NEW S, NEW O, NEW N, NEW C, History(B, S, N),
           Sound(n, w, B, S, O, N), \A m \in Nodes : B[m] \subseteq C[m]
    PROVE  Sound(n, w, C, S, O, N + 1)
<1>1. /\ N \in Nat /\ 1..N \subseteq 1..(N + 1) /\ Other(n) \in Nodes
  BY KeysGrow, TwoEnds DEF History
<1>2. ChainSound(n, w, C, S, O)
  BY DEF Sound, ChainSound
<1>3. KeysKnown(n, w, C, N + 1)
  BY <1>1 DEF Sound, KeysKnown, Initiated, Answered
<1> QED BY <1>2, <1>3 DEF Sound

\* BuildInitiation with a new draw: the chain it opens leads to keys that are new.
LEMMA BegunIsSound ==
    ASSUME NEW n \in Nodes, NEW w \in Peer, NEW B, NEW S, NEW O, NEW N, NEW C,
           History(B, S, N), O \subseteq KeysTo(N) \X Nat, Sound(n, w, B, S, O, N),
           \A m \in Nodes : B[m] \subseteq C[m], N + 1 \in C[n]
    PROVE  Sound(n, BuildInitiation(w, N + 1), C, S, O, N + 1)
<1> DEFINE v == BuildInitiation(w, N + 1)
<1>0. N \in Nat /\ N + 1 \in Nat
  BY DEF History
<1>1. /\ v \in Peer /\ v.keys = w.keys /\ v.hasKeys = w.hasKeys
      /\ v.counter = w.counter /\ v.replay = w.replay
      /\ v.chain = <<N + 1>> /\ v.senderIndex = N + 1
  BY <1>0, InitiationBuilt
<1> HIDE DEF v
<1>2. Sound(n, w, C, S, O, N + 1)
  BY DrawKeepsSound
<1>3. KeysKnown(n, v, C, N + 1) /\ CounterAhead(v, S) /\ WindowFull(v, O)
  BY <1>1, <1>2 DEF Sound, KeysKnown, Initiated, Answered, CounterAhead, WindowFull
<1>4. \A r, h : <<N + 1, r, h>> \notin KeysTo(N)
  BY <1>0, KeyParts
<1>5. ASSUME NEW r \in Nat PROVE v.keys.send # <<N + 1, r, 1>>
  <2>1. CASE w.keys = NoKeys
    <3>1. v.keys.send = <<>>
      BY <1>1, <2>1 DEF NoKeys
    <3> QED BY <3>1
  <2>2. CASE Initiated(n, w, B, N)
    <3>1. PICK i \in B[n], q \in 1..N : w.keys = [send |-> <<i, q, 1>>, recv |-> <<i, q, 2>>]
      BY <2>2 DEF Initiated
    <3>2. i # N + 1
      BY <1>0 DEF History
    <3> QED BY <1>1, <3>1, <3>2
  <2>3. CASE Answered(n, w, B, N)
    <3>1. PICK i \in B[Other(n)], q \in 1..N :
            w.keys = [send |-> <<i, q, 2>>, recv |-> <<i, q, 1>>]
      BY <2>3 DEF Answered
    <3> QED BY <1>1, <3>1
  <2> QED BY <2>1, <2>2, <2>3 DEF Sound, KeysKnown
<1>6. Untouched(v, S, O, N + 1)
  BY <1>4, <1>5 DEF Untouched, History
<1>7. ChainSound(n, v, C, S, O)
  BY <1>1, <1>6 DEF ChainSound
<1>8. Sound(n, v, C, S, O, N + 1)
  BY <1>3, <1>7 DEF Sound
<1> QED BY <1>8 DEF v

\* The key a peer seals with: one of a handshake, and never the one its own open
\* chain leads to.
LEMMA SealingKey ==
    ASSUME NEW n \in Nodes, NEW w, NEW B, NEW S, NEW O, NEW N, History(B, S, N),
           Sound(n, w, B, S, O, N), w.hasKeys
    PROVE  /\ w.keys.send \in KeysTo(N) /\ w.keys.recv \in KeysTo(N)
           /\ w.keys.send # w.keys.recv
           /\ \A i \in Nat, r \in Nat : w.keys.send = <<i, r, 1>> => i \in B[n]
           /\ \A i \in Nat, r \in Nat : w.keys.send = <<i, r, 2>> => i \in B[Other(n)]
           /\ \A i \in Nat, r \in Nat : w.keys.recv = <<i, r, 2>> => w.keys.send = <<i, r, 1>>
<1>0. N \in Nat /\ B[n] \subseteq 1..N /\ B[Other(n)] \subseteq 1..N
  BY TwoEnds DEF History
<1>1. CASE Initiated(n, w, B, N)
  <2>1. PICK i \in B[n], r \in 1..N : w.keys = [send |-> <<i, r, 1>>, recv |-> <<i, r, 2>>]
    BY <1>1 DEF Initiated
  <2>2. w.keys.send = <<i, r, 1>> /\ w.keys.recv = <<i, r, 2>>
    BY <2>1
  <2>3. w.keys.send \in KeysTo(N) /\ w.keys.recv \in KeysTo(N)
    BY <1>0, <2>2, KeyParts
  <2> QED BY <2>2, <2>3
<1>2. CASE Answered(n, w, B, N)
  <2>1. PICK i \in B[Other(n)], r \in 1..N :
          w.keys = [send |-> <<i, r, 2>>, recv |-> <<i, r, 1>>]
    BY <1>2 DEF Answered
  <2>2. w.keys.send = <<i, r, 2>> /\ w.keys.recv = <<i, r, 1>>
    BY <2>1
  <2>3. w.keys.send \in KeysTo(N) /\ w.keys.recv \in KeysTo(N)
    BY <1>0, <2>2, KeyParts
  <2> QED BY <2>2, <2>3
<1> QED BY <1>1, <1>2 DEF Sound, KeysKnown

\* Encapsulate takes a nonce that nobody has used; the peer stays sound.
LEMMA SealingIsSound ==
    ASSUME NEW n \in Nodes, NEW w \in Peer, NEW B, NEW S, NEW O, NEW N, NEW v,
           History(B, S, N), Sound(n, w, B, S, O, N), w.hasKeys,
           SameKeys(v, w), v.counter = w.counter + 1
    PROVE  /\ Sound(n, v, B, S \cup {<<w.keys.send, w.counter>>}, O, N)
           /\ History(B, S \cup {<<w.keys.send, w.counter>>}, N)
<1> DEFINE T == S \cup {<<w.keys.send, w.counter>>}
<1>0. w.counter \in Nat
  BY DEF Peer
<1>1. History(B, T, N)
  BY <1>0, SealingKey DEF History
<1>2. CounterAhead(v, T)
  <2>1. ASSUME NEW c \in Nat, <<v.keys.send, c>> \in T PROVE c < w.counter + 1
    <3>1. CASE <<v.keys.send, c>> \in S
      BY <1>0, <3>1 DEF Sound, CounterAhead, SameKeys
    <3>2. CASE c = w.counter
      BY <1>0, <3>2
    <3> QED BY <2>1, <3>1, <3>2
  <2> QED BY <2>1 DEF CounterAhead
<1>3. ChainSound(n, v, B, T, O)
  <2>1. CASE w.chain = <<w.senderIndex>> /\ Untouched(w, S, O, w.senderIndex)
             /\ w.senderIndex \in B[n]
    <3>1. Untouched(v, T, O, w.senderIndex)
      BY <2>1 DEF Untouched, SameKeys
    <3> QED BY <2>1, <3>1 DEF ChainSound, SameKeys
  <2>2. CASE Len(w.chain) = 2 \/ (w.chain = <<>> /\ w.senderIndex = 0)
    BY <2>2 DEF ChainSound, SameKeys
  <2> QED BY <2>1, <2>2 DEF Sound, ChainSound
<1>4. KeysKnown(n, v, B, N) /\ WindowFull(v, O)
  BY DEF Sound, KeysKnown, Initiated, Answered, SameKeys, WindowFull
<1> QED BY <1>1, <1>2, <1>3, <1>4 DEF Sound

\* What one end seals does not concern the other: they never share a key to send with.
LEMMA SealingKeepsOther ==
    ASSUME NEW n \in Nodes, NEW w \in Peer, NEW B, NEW S, NEW O, NEW N,
           NEW z \in Peer, NEW P,
           History(B, S, N), Sound(n, w, B, S, O, N), w.hasKeys,
           Sound(Other(n), z, B, S, P, N)
    PROVE  /\ z.hasKeys => w.keys.send # z.keys.send
           /\ Sound(Other(n), z, B, S \cup {<<w.keys.send, w.counter>>}, P, N)
<1> DEFINE T == S \cup {<<w.keys.send, w.counter>>}
           o == Other(n)
<1>0. /\ N \in Nat /\ o \in Nodes /\ Other(o) = n
      /\ B[n] \subseteq Nat /\ B[o] \subseteq Nat /\ B[n] \cap B[o] = {}
  BY TwoEnds DEF History
<1>1. /\ \A i \in Nat, r \in Nat : w.keys.send = <<i, r, 1>> => i \in B[n]
      /\ \A i \in Nat, r \in Nat : w.keys.send = <<i, r, 2>> => i \in B[o]
      /\ w.keys.send \in KeysTo(N)
  BY SealingKey
<1>2. w.keys.send # z.keys.send
  <2>1. CASE z.keys = NoKeys
    <3>1. z.keys.send = <<>>
      BY <2>1 DEF NoKeys
    <3> QED BY <1>1, <3>1 DEF KeysTo
  <2>2. CASE Initiated(o, z, B, N)
    <3>1. PICK i \in B[o], r \in 1..N : z.keys = [send |-> <<i, r, 1>>, recv |-> <<i, r, 2>>]
      BY <2>2 DEF Initiated
    <3>2. z.keys.send = <<i, r, 1>> /\ i \in Nat /\ r \in Nat /\ i \notin B[n]
      BY <1>0, <3>1
    <3> QED BY <1>1, <3>2
  <2>3. CASE Answered(o, z, B, N)
    <3>1. PICK i \in B[n], r \in 1..N : z.keys = [send |-> <<i, r, 2>>, recv |-> <<i, r, 1>>]
      BY <1>0, <2>3 DEF Answered
    <3>2. z.keys.send = <<i, r, 2>> /\ i \in Nat /\ r \in Nat /\ i \notin B[o]
      BY <1>0, <3>1
    <3> QED BY <1>1, <3>2
  <2> QED BY <2>1, <2>2, <2>3 DEF Sound, KeysKnown
<1>3. CounterAhead(z, T)
  BY <1>2 DEF Sound, CounterAhead
<1>4. ChainSound(o, z, B, T, P)
  <2>1. CASE z.chain = <<z.senderIndex>> /\ Untouched(z, S, P, z.senderIndex)
             /\ z.senderIndex \in B[o]
    <3>1. \A r \in Nat : w.keys.send # <<z.senderIndex, r, 1>>
      BY <1>0, <1>1, <2>1
    <3>2. Untouched(z, T, P, z.senderIndex)
      BY <2>1, <3>1 DEF Untouched
    <3> QED BY <2>1, <3>2 DEF ChainSound
  <2>2. CASE Len(z.chain) = 2 \/ (z.chain = <<>> /\ z.senderIndex = 0)
    BY <2>2 DEF ChainSound
  <2> QED BY <2>1, <2>2 DEF Sound, ChainSound
<1> QED BY <1>2, <1>3, <1>4 DEF Sound

\* BuildResponse: the keys it installs are made with a new draw.
LEMMA AnswerIsSound ==
    ASSUME NEW n \in Nodes, NEW w \in Peer, NEW B, NEW S, NEW O, NEW N, NEW m,
           History(B, S, N), O \subseteq KeysTo(N) \X Nat, m.sender \in B[Other(n)]
    PROVE  /\ AnswerInitiation(w, m, N + 1) \in Peer
           /\ Sound(n, AnswerInitiation(w, m, N + 1), B, S, O, N + 1)
<1> DEFINE i == m.sender
           u == SetTransport(w, ResponderKeys(<<i, N + 1>>), i)
           v == AnswerInitiation(w, m, N + 1)
<1>0. N \in Nat /\ N + 1 \in Nat /\ i \in 1..N /\ i \in Nat
  BY TwoEnds DEF History
<1>1. /\ ResponderKeys(<<i, N + 1>>) \in KeyPair
      /\ ResponderKeys(<<i, N + 1>>) = [send |-> <<i, N + 1, 2>>, recv |-> <<i, N + 1, 1>>]
  BY <1>0, HandshakeKeys
<1>2. /\ u \in Peer /\ u.keys = ResponderKeys(<<i, N + 1>>) /\ u.hasKeys
      /\ u.counter = 0 /\ u.replay = {}
  <2> DEFINE k == ResponderKeys(<<i, N + 1>>)
  <2>1. k \in KeyPair /\ i \in Nat
    BY <1>0, <1>1
  <2>2. u = SetTransport(w, k, i)
    OBVIOUS
  <2> HIDE DEF i, k, u
  <2>3. /\ u \in Peer /\ u.keys = k /\ u.hasKeys
        /\ u.counter = 0 /\ u.replay = {}
    BY <2>1, <2>2, TransportSet
  <2> QED BY <2>3 DEF k
<1>3. v = [u EXCEPT !.chain = <<i, N + 1>>, !.senderIndex = N + 1]
  BY DEF AnswerInitiation
<1>4. <<i, N + 1>> \in Seq(Nat) /\ Len(<<i, N + 1>>) = 2
  BY <1>0
<1> HIDE DEF u, v
<1>5. /\ v \in Peer /\ v.keys = [send |-> <<i, N + 1, 2>>, recv |-> <<i, N + 1, 1>>]
      /\ v.counter = 0 /\ v.replay = {} /\ Len(v.chain) = 2
  <2>1. v \in Peer /\ v.keys = u.keys /\ v.counter = u.counter /\ v.replay = u.replay
        /\ v.chain = <<i, N + 1>>
    BY <1>0, <1>2, <1>3, <1>4 DEF Peer
  <2> QED BY <1>1, <1>2, <1>4, <2>1
<1>6. \A h : <<i, N + 1, h>> \notin KeysTo(N)
  BY <1>0, KeyParts
<1>7. v.keys.send = <<i, N + 1, 2>> /\ v.keys.recv = <<i, N + 1, 1>>
  BY <1>5
<1>8. CounterAhead(v, S) /\ WindowFull(v, O)
  BY <1>6, <1>7 DEF CounterAhead, WindowFull, History
<1>9. Answered(n, v, B, N + 1)
  BY <1>0, <1>5 DEF Answered
<1>10. Sound(n, v, B, S, O, N + 1)
  BY <1>5, <1>8, <1>9 DEF Sound, ChainSound, KeysKnown
<1> QED BY <1>5, <1>10 DEF v

\* ConsumeResponse: an open chain installs keys of which nothing was used, and is
\* closed; a closed one installs nothing.
LEMMA ConsumeIsSound ==
    ASSUME NEW n \in Nodes, NEW w \in Peer, NEW B, NEW S, NEW O, NEW N, NEW m,
           History(B, S, N), Sound(n, w, B, S, O, N),
           m.sender \in 1..N, m.receiver \in 1..N, m.seal = <<m.receiver, m.sender>>,
           w.senderIndex = m.receiver
    PROVE  /\ ConsumeResponse(w, m) \in Peer
           /\ Sound(n, ConsumeResponse(w, m), B, S, O, N)
<1> DEFINE i == m.receiver
           r == m.sender
           v == ConsumeResponse(w, m)
<1>0. N \in Nat /\ i \in Nat /\ r \in Nat /\ i # 0
  BY DEF History
<1>1. CASE w.chain = <<i>> /\ i \in B[n] /\ Untouched(w, S, O, i)
  <2> DEFINE u == SetTransport(w, InitiatorKeys(<<i, r>>), r)
  <2>1. Append(w.chain, r) = <<i, r>> /\ Len(w.chain) = 1
    <3> DEFINE a == Append(w.chain, r)
               b == <<i, r>>
    <3>1. a \in Seq(Nat) /\ Len(a) = 2 /\ a[1] = i /\ a[2] = r
      BY <1>0, <1>1
    <3>2. b \in Seq(Nat) /\ Len(b) = 2 /\ b[1] = i /\ b[2] = r
      BY <1>0
    <3>3. Len(w.chain) = 1
      BY <1>1
    <3> HIDE DEF a, b
    <3>4. a = b
      <4>1. \A j \in 1..2 : a[j] = b[j]
        BY <3>1, <3>2
      <4>2. a = [j \in 1..2 |-> a[j]] /\ b = [j \in 1..2 |-> b[j]]
        BY <3>1, <3>2
      <4> QED BY <4>1, <4>2
    <3> QED BY <3>3, <3>4 DEF a, b
  <2>2. v = [u EXCEPT !.chain = <<i, r>>]
    BY <2>1 DEF ConsumeResponse
  <2>3. /\ InitiatorKeys(<<i, r>>) \in KeyPair
        /\ InitiatorKeys(<<i, r>>) = [send |-> <<i, r, 1>>, recv |-> <<i, r, 2>>]
    BY <1>0, HandshakeKeys
  <2>4. /\ u \in Peer /\ u.keys = InitiatorKeys(<<i, r>>) /\ u.counter = 0 /\ u.replay = {}
    <3>1. InitiatorKeys(<<i, r>>) \in KeyPair /\ r \in Nat
      BY <1>0, <2>3
    <3> HIDE DEF i, r
    <3> QED BY <3>1, TransportSet
  <2>5. <<i, r>> \in Seq(Nat) /\ Len(<<i, r>>) = 2
    BY <1>0
  <2> HIDE DEF u, v
  <2>6. /\ v \in Peer /\ v.keys = u.keys /\ v.counter = u.counter /\ v.replay = u.replay
        /\ v.chain = <<i, r>>
    BY <2>2, <2>4, <2>5 DEF Peer
  <2>7. v.keys = [send |-> <<i, r, 1>>, recv |-> <<i, r, 2>>]
    BY <2>3, <2>4, <2>6
  <2>8. v.keys.send = <<i, r, 1>> /\ v.keys.recv = <<i, r, 2>>
    BY <2>7
  <2>9. CounterAhead(v, S) /\ WindowFull(v, O)
    BY <1>0, <1>1, <2>8 DEF CounterAhead, WindowFull, Untouched
  <2>10. Initiated(n, v, B, N)
    BY <1>1, <2>7 DEF Initiated
  <2>11. Sound(n, v, B, S, O, N)
    BY <2>5, <2>6, <2>9, <2>10 DEF Sound, ChainSound, KeysKnown
  <2> QED BY <2>6, <2>11 DEF v
<1>2. CASE Len(w.chain) = 2
  <2>1. <<0, 0>> # m.seal
    BY <1>0
  <2>2. v = [w EXCEPT !.chain = <<0, 0>>]
    BY <1>2, <2>1 DEF ConsumeResponse
  <2>3. <<0, 0>> \in Seq(Nat) /\ Len(<<0, 0>>) = 2
    OBVIOUS
  <2> HIDE DEF v
  <2>4. /\ v \in Peer /\ v.keys = w.keys /\ v.hasKeys = w.hasKeys /\ v.counter = w.counter
        /\ v.replay = w.replay /\ v.chain = <<0, 0>>
    BY <2>2, <2>3 DEF Peer
  <2>5. Sound(n, v, B, S, O, N)
    BY <2>3, <2>4 DEF Sound, ChainSound, KeysKnown, Initiated, Answered, CounterAhead,
                      WindowFull
  <2> QED BY <2>4, <2>5 DEF v
<1> QED BY <1>0, <1>1, <1>2 DEF Sound, ChainSound

\* Decapsulate: what is opened is in the window from then on.
LEMMA OpeningIsSound ==
    ASSUME NEW n \in Nodes, NEW w \in Peer, NEW B, NEW S, NEW O, NEW N, NEW c \in Nat,
           History(B, S, N), Sound(n, w, B, S, O, N), w.hasKeys
    PROVE  LET v == [w EXCEPT !.replay = w.replay \cup {c}] IN
           v \in Peer /\ Sound(n, v, B, S, O \cup {<<w.keys.recv, c>>}, N)
<1> DEFINE v == [w EXCEPT !.replay = w.replay \cup {c}]
           P == O \cup {<<w.keys.recv, c>>}
<1>1. /\ v \in Peer /\ v.keys = w.keys /\ v.hasKeys = w.hasKeys /\ v.counter = w.counter
      /\ v.replay = w.replay \cup {c} /\ v.chain = w.chain /\ v.senderIndex = w.senderIndex
  BY DEF Peer
<1> HIDE DEF v
<1>2. WindowFull(v, P)
  BY <1>1 DEF Sound, WindowFull
<1>3. ChainSound(n, v, B, S, P)
  <2>1. CASE w.chain = <<w.senderIndex>> /\ Untouched(w, S, O, w.senderIndex)
             /\ w.senderIndex \in B[n]
    <3>0. w.senderIndex \in Nat
      BY DEF Peer
    <3>1. \A r \in Nat : w.keys.recv # <<w.senderIndex, r, 2>>
      BY <2>1, <3>0, SealingKey DEF Untouched
    <3>2. Untouched(v, S, P, w.senderIndex)
      BY <1>1, <2>1, <3>1 DEF Untouched
    <3> QED BY <1>1, <2>1, <3>2 DEF ChainSound
  <2>2. CASE Len(w.chain) = 2 \/ (w.chain = <<>> /\ w.senderIndex = 0)
    BY <1>1, <2>2 DEF ChainSound
  <2> QED BY <2>1, <2>2 DEF Sound, ChainSound
<1>4. KeysKnown(n, v, B, N) /\ CounterAhead(v, S)
  BY <1>1 DEF Sound, KeysKnown, Initiated, Answered, CounterAhead
<1>5. v \in Peer /\ Sound(n, v, B, S, P, N)
  BY <1>1, <1>2, <1>3, <1>4 DEF Sound
<1> QED BY <1>5 DEF v

-----------------------------------------------------------------------------
(***************************************************************************)
(* The two ends and the network.                                           *)
(***************************************************************************)
\* The draws that each end has begun a handshake with: they are in the
\* initiations it has sent.
begun == [n \in Nodes |-> {i \in Nat : Initiation(n, i) \in datagrams}]

\* Initiations and responses name draws; a packet's counter is a number.
DatagramOK(m, N) ==
    \/ \E n \in Nodes, i \in 1..N : m = Initiation(n, i)
    \/ \E n \in Nodes, i \in 1..N, r \in 1..N :
         m = [type |-> 2, to |-> Other(n), sender |-> r, receiver |-> i, seal |-> <<i, r>>]
    \/ m.type = 4 /\ m.counter \in Nat

PeersInv ==
    /\ wg \in [Nodes -> Peer \cup {NoPeer}]
    /\ opened \in [Nodes -> SUBSET (KeysTo(minted) \X Nat)]
    /\ \A m \in datagrams : DatagramOK(m, minted)
    /\ History(begun, sealed, minted)
    /\ \A n \in Nodes : wg[n].known => Sound(n, wg[n], begun, sealed, opened[n], minted)

\* Only a peer of the map is known.
LEMMA KnownPeer ==
    ASSUME NEW w \in Peer \cup {NoPeer}
    PROVE  w.known <=> w \in Peer
<1>1. ASSUME w \in Peer PROVE w.known = TRUE
  BY <1>1 DEF Peer
<1>2. ASSUME w = NoPeer PROVE w.known = FALSE
  BY <1>2 DEF NoPeer
<1> QED BY <1>1, <1>2

\* A step of one end is judged by the histories of both.
LEMMA OneEndMoves ==
    ASSUME PeersInv, NEW n \in Nodes, NEW v \in Peer \cup {NoPeer},
           wg' = [wg EXCEPT ![n] = v],
           opened' \in [Nodes -> SUBSET (KeysTo(minted') \X Nat)],
           \A m \in datagrams' : DatagramOK(m, minted'),
           History(begun', sealed', minted'),
           v \in Peer => Sound(n, v, begun', sealed', opened'[n], minted'),
           wg[Other(n)] \in Peer =>
               Sound(Other(n), wg[Other(n)], begun', sealed', opened'[Other(n)], minted')
    PROVE  PeersInv'
<1>1. /\ wg' \in [Nodes -> Peer \cup {NoPeer}] /\ wg'[n] = v /\ Other(n) \in Nodes
      /\ wg'[Other(n)] = wg[Other(n)]
  BY TwoEnds DEF PeersInv
<1>2. ASSUME NEW m \in Nodes, wg'[m].known
      PROVE  Sound(m, wg'[m], begun', sealed', opened'[m], minted')
  <2>1. wg'[m] \in Peer
    BY <1>1, <1>2, KnownPeer
  <2> QED BY <1>1, <2>1, TwoEnds
<1> QED BY <1>1, <1>2 DEF PeersInv

\* A datagram that is not an initiation begins nothing.
LEMMA NothingBegun ==
    ASSUME NEW X, datagrams' = datagrams \cup X, \A x \in X : x.type # 1
    PROVE  begun' = begun
<1>1. \A n, i : Initiation(n, i).type = 1
  BY DEF Initiation
<1>2. \A n, i : Initiation(n, i) \in datagrams' <=> Initiation(n, i) \in datagrams
  BY <1>1
<1> QED BY <1>2 DEF begun

\* An initiation with a new draw begins that handshake, for the end that sends it.
LEMMA OneBegun ==
    ASSUME PeersInv, NEW n \in Nodes, NEW X, minted' = minted + 1,
           datagrams' = (datagrams \cup {Initiation(n, minted + 1)}) \cup X,
           \A x \in X : x.type = 4 /\ x.counter \in Nat
    PROVE  /\ \A m \in Nodes : begun[m] \subseteq begun'[m]
           /\ minted + 1 \in begun'[n]
           /\ History(begun', sealed, minted')
           /\ \A m \in datagrams' : DatagramOK(m, minted')
<1> DEFINE id == minted + 1
<1>0. minted \in Nat /\ id \in Nat /\ Other(n) \in Nodes /\ Other(n) # n
  BY TwoEnds DEF PeersInv, History
<1>1. \A m, o, i, j : Initiation(m, i) = Initiation(o, j) => i = j /\ Other(m) = Other(o)
  BY DEF Initiation
<1>2. \A m, i : Initiation(m, i) \notin X
  BY DEF Initiation
<1>3. \A m, i : Initiation(m, i) \in datagrams' <=>
                Initiation(m, i) \in datagrams \/ Initiation(m, i) = Initiation(n, id)
  BY <1>2
<1>4. \A m \in Nodes : begun[m] \subseteq begun'[m]
  BY <1>3 DEF begun
<1>5. id \in begun'[n]
  BY <1>0, <1>3 DEF begun
<1>6. \A m \in Nodes : begun'[m] \subseteq begun[m] \cup {id}
  BY <1>1, <1>3 DEF begun
<1>7. begun'[Other(n)] = begun[Other(n)]
  <2>1. \A i : Initiation(Other(n), i) # Initiation(n, id)
    BY <1>0, <1>1, TwoEnds
  <2> QED BY <1>0, <1>3, <2>1 DEF begun
<1>8. History(begun', sealed, id)
  <2>1. \A m \in Nodes : begun[m] \subseteq 1..minted
    BY DEF PeersInv, History
  <2>2. begun' \in [Nodes -> SUBSET (1..id)]
    <3>1. ASSUME NEW m \in Nodes PROVE begun'[m] \subseteq 1..id
      BY <1>0, <1>6, <2>1
    <3>2. begun' = [m \in Nodes |-> begun'[m]]
      BY DEF begun
    <3> QED BY <3>1, <3>2
  <2>3. sealed \subseteq KeysTo(id) \X Nat
    BY <1>0, KeysGrow DEF PeersInv, History
  <2>4. begun'[n] \cap begun'[Other(n)] = {}
    <3>1. begun[n] \cap begun[Other(n)] = {} /\ id \notin begun[Other(n)]
      BY <1>0, <2>1 DEF PeersInv, History
    <3> QED BY <1>6, <1>7, <3>1
  <2>5. \A m \in Nodes : begun'[m] \cap begun'[Other(m)] = {}
    BY <1>0, <2>4, TwoEnds
  <2> QED BY <1>0, <2>2, <2>3, <2>5 DEF History
<1>9. ASSUME NEW m \in datagrams' PROVE DatagramOK(m, id)
  <2>1. CASE m \in datagrams
    <3>1. DatagramOK(m, minted)
      BY <2>1 DEF PeersInv
    <3>2. 1..minted \subseteq 1..id
      BY <1>0, KeysGrow
    <3> QED BY <3>1, <3>2 DEF DatagramOK
  <2>2. CASE m = Initiation(n, id)
    BY <1>0, <2>2 DEF DatagramOK
  <2>3. CASE m \in X
    BY <2>3 DEF DatagramOK
  <2> QED BY <2>1, <2>2, <2>3
<1> QED BY <1>4, <1>5, <1>8, <1>9

\* What an end holds of the other, and the histories, before a step of it.
LEMMA BeforeStep ==
    ASSUME PeersInv, NEW n \in Nodes, wg[n].known
    PROVE  /\ wg[n] \in Peer /\ Sound(n, wg[n], begun, sealed, opened[n], minted)
           /\ opened[n] \subseteq KeysTo(minted) \X Nat
           /\ History(begun, sealed, minted) /\ minted \in Nat /\ Other(n) \in Nodes
           /\ wg[Other(n)] \in Peer => Sound(Other(n), wg[Other(n)], begun, sealed,
                                             opened[Other(n)], minted)
<1>1. Other(n) \in Nodes
  BY TwoEnds
<1>2. /\ wg[n] \in Peer \cup {NoPeer} /\ wg[Other(n)] \in Peer \cup {NoPeer}
      /\ opened[n] \subseteq KeysTo(minted) \X Nat
      /\ History(begun, sealed, minted) /\ minted \in Nat
  BY <1>1 DEF PeersInv, History
<1>3. wg[n] \in Peer /\ (wg[Other(n)] \in Peer => wg[Other(n)].known)
  BY <1>2, KnownPeer
<1> QED BY <1>1, <1>2, <1>3 DEF PeersInv

\* Nothing happens but that an end's clocks or its hasKeys change.
LEMMA QuietStep ==
    ASSUME PeersInv, NEW n \in Nodes, wg[n].known, NEW v, SameKeys(v, wg[n]),
           v.counter = wg[n].counter, wg' = [wg EXCEPT ![n] = v],
           UNCHANGED <<minted, datagrams, sealed, opened>>
    PROVE  PeersInv'
<1>1. begun' = begun
  BY DEF begun
<1>2. Sound(n, v, begun, sealed, opened[n], minted) /\ v \in Peer
  BY BeforeStep, SameIsSound DEF SameKeys
<1>3. /\ opened' \in [Nodes -> SUBSET (KeysTo(minted') \X Nat)]
      /\ \A m \in datagrams' : DatagramOK(m, minted')
  BY DEF PeersInv
<1> QED BY <1>1, <1>2, <1>3, BeforeStep, OneEndMoves

\* Initiate, from a state w of the peer that holds the same keys.
LEMMA InitiateStep ==
    ASSUME PeersInv, NEW n \in Nodes, wg[n].known, NEW w, SameKeys(w, wg[n]),
           w.counter = wg[n].counter, Initiate(n, w), UNCHANGED opened
    PROVE  PeersInv'
<1> DEFINE v == BuildInitiation(w, minted + 1)
           o == Other(n)
<1>0. /\ wg[n] \in Peer /\ Sound(n, w, begun, sealed, opened[n], minted) /\ w \in Peer
      /\ opened[n] \subseteq KeysTo(minted) \X Nat
      /\ History(begun, sealed, minted) /\ minted \in Nat /\ o \in Nodes
      /\ wg[o] \in Peer => Sound(o, wg[o], begun, sealed, opened[o], minted)
  BY BeforeStep, SameIsSound DEF SameKeys
<1>1. /\ minted' = minted + 1 /\ wg' = [wg EXCEPT ![n] = v] /\ UNCHANGED sealed
      /\ datagrams' = (datagrams \cup {Initiation(n, minted + 1)}) \cup {}
  BY DEF Initiate
<1>2. /\ \A m \in Nodes : begun[m] \subseteq begun'[m]
      /\ minted + 1 \in begun'[n]
      /\ History(begun', sealed, minted')
      /\ \A m \in datagrams' : DatagramOK(m, minted')
  <2> DEFINE X == {}
  <2>1. datagrams' = (datagrams \cup {Initiation(n, minted + 1)}) \cup X
    BY <1>1
  <2>2. \A x \in X : x.type = 4 /\ x.counter \in Nat
    OBVIOUS
  <2> HIDE DEF X
  <2> QED BY <1>1, <2>1, <2>2, OneBegun
<1>3. Sound(n, v, begun', sealed, opened[n], minted + 1)
  BY <1>0, <1>2, BegunIsSound
<1>4. v \in Peer
  <2>1. minted + 1 \in Nat
    BY <1>0
  <2> QED BY <1>0, <2>1, InitiationBuilt
<1>5. wg[o] \in Peer => Sound(o, wg[o], begun', sealed, opened[o], minted + 1)
  BY <1>0, <1>2, DrawKeepsSound
<1>6. opened' \in [Nodes -> SUBSET (KeysTo(minted') \X Nat)]
  BY <1>0, <1>1, KeysGrow DEF PeersInv
<1> HIDE DEF v
<1> QED BY <1>1, <1>2, <1>3, <1>4, <1>5, <1>6, OneEndMoves

\* Encapsulate, from a state w of the peer that holds the same keys.
LEMMA SealStep ==
    ASSUME PeersInv, NEW n \in Nodes, wg[n].known, NEW w, SameKeys(w, wg[n]),
           w.counter = wg[n].counter, w.hasKeys, Encapsulate(n, w, {}),
           UNCHANGED <<minted, opened>>
    PROVE  PeersInv'
<1> DEFINE v == [w EXCEPT !.counter = w.counter + 1, !.sinceSend = 0]
           o == Other(n)
<1>0. /\ wg[n] \in Peer /\ Sound(n, w, begun, sealed, opened[n], minted) /\ w \in Peer
      /\ History(begun, sealed, minted) /\ minted \in Nat /\ o \in Nodes
      /\ wg[o] \in Peer => Sound(o, wg[o], begun, sealed, opened[o], minted)
  BY BeforeStep, SameIsSound DEF SameKeys
<1>1. /\ wg' = [wg EXCEPT ![n] = v]
      /\ sealed' = sealed \cup {<<w.keys.send, w.counter>>}
      /\ datagrams' = datagrams \cup {Packet(n, w)}
  BY DEF Encapsulate
<1>2. Packet(n, w).type = 4 /\ Packet(n, w).counter \in Nat
  BY <1>0 DEF Packet, Peer
<1>3. begun' = begun
  <2> DEFINE X == {Packet(n, w)}
  <2>1. datagrams' = datagrams \cup X /\ \A x \in X : x.type # 1
    BY <1>1, <1>2
  <2> HIDE DEF X
  <2> QED BY <2>1, NothingBegun
<1>4. \A m \in datagrams' : DatagramOK(m, minted')
  BY <1>1, <1>2 DEF PeersInv, DatagramOK
<1>5. SameKeys(v, w) /\ v.counter = w.counter + 1
  BY <1>0, Counted
<1>6. v \in Peer
  BY <1>5 DEF SameKeys
<1> HIDE DEF v
<1>7. Sound(n, v, begun, sealed', opened[n], minted) /\ History(begun, sealed', minted)
  BY <1>0, <1>1, <1>5, SealingIsSound
<1>8. wg[o] \in Peer => Sound(o, wg[o], begun, sealed', opened[o], minted)
  BY <1>0, <1>1, SealingKeepsOther
<1>9. opened' \in [Nodes -> SUBSET (KeysTo(minted') \X Nat)]
  BY DEF PeersInv
<1> QED BY <1>1, <1>3, <1>4, <1>6, <1>7, <1>8, <1>9, OneEndMoves

\* A rekey is started and the packet still goes out under the old keys.
LEMMA RekeyStep ==
    ASSUME PeersInv, NEW n \in Nodes, wg[n].known, NEW w, SameKeys(w, wg[n]),
           w.counter = wg[n].counter, w.hasKeys, minted' = minted + 1,
           Encapsulate(n, BuildInitiation(w, minted + 1), {Initiation(n, minted + 1)}),
           UNCHANGED opened
    PROVE  PeersInv'
<1> DEFINE u == BuildInitiation(w, minted + 1)
           v == [u EXCEPT !.counter = u.counter + 1, !.sinceSend = 0]
           o == Other(n)
<1>0. /\ wg[n] \in Peer /\ Sound(n, w, begun, sealed, opened[n], minted) /\ w \in Peer
      /\ opened[n] \subseteq KeysTo(minted) \X Nat
      /\ History(begun, sealed, minted) /\ minted \in Nat /\ minted + 1 \in Nat /\ o \in Nodes
      /\ wg[o] \in Peer => Sound(o, wg[o], begun, sealed, opened[o], minted)
  BY BeforeStep, SameIsSound DEF SameKeys
<1>1. /\ wg' = [wg EXCEPT ![n] = v]
      /\ sealed' = sealed \cup {<<u.keys.send, u.counter>>}
      /\ datagrams' = (datagrams \cup {Initiation(n, minted + 1)}) \cup {Packet(n, u)}
  BY DEF Encapsulate
<1>2. u \in Peer /\ u.hasKeys
  BY <1>0, InitiationBuilt
<1>3. Packet(n, u).type = 4 /\ Packet(n, u).counter \in Nat
  BY <1>2 DEF Packet, Peer
<1> HIDE DEF u
<1>4. /\ \A m \in Nodes : begun[m] \subseteq begun'[m]
      /\ minted + 1 \in begun'[n]
      /\ History(begun', sealed, minted')
      /\ \A m \in datagrams' : DatagramOK(m, minted')
  BY <1>1, <1>3, OneBegun
<1>5. Sound(n, u, begun', sealed, opened[n], minted')
  BY <1>0, <1>4, BegunIsSound DEF u
<1>6. wg[o] \in Peer => Sound(o, wg[o], begun', sealed, opened[o], minted')
  BY <1>0, <1>4, DrawKeepsSound
<1>7. SameKeys(v, u) /\ v.counter = u.counter + 1
  BY <1>2, Counted
<1>8. v \in Peer
  BY <1>7 DEF SameKeys
<1> HIDE DEF v
<1>9. Sound(n, v, begun', sealed', opened[n], minted') /\ History(begun', sealed', minted')
  BY <1>1, <1>2, <1>4, <1>5, <1>7, SealingIsSound
<1>10. wg[o] \in Peer => Sound(o, wg[o], begun', sealed', opened[o], minted')
  BY <1>1, <1>2, <1>4, <1>5, <1>6, SealingKeepsOther
<1>11. opened' \in [Nodes -> SUBSET (KeysTo(minted') \X Nat)]
  BY <1>0, KeysGrow DEF PeersInv
<1> QED BY <1>1, <1>4, <1>8, <1>9, <1>10, <1>11, OneEndMoves

\* Answering an initiation, once more if it is delivered again.
LEMMA AnswerStep ==
    ASSUME PeersInv, NEW n \in Nodes, NEW m \in datagrams, HandleInitiation(n, m)
    PROVE  PeersInv'
<1> DEFINE v == AnswerInitiation(wg[n], m, minted + 1)
           o == Other(n)
           R == Response(n, m, minted + 1)
<1>0. /\ wg[n].known /\ m.type = 1 /\ m.to = n /\ minted' = minted + 1
      /\ wg' = [wg EXCEPT ![n] = v] /\ UNCHANGED <<sealed, opened>>
      /\ datagrams' = datagrams \cup {R}
  BY DEF HandleInitiation
<1>1. /\ wg[n] \in Peer /\ opened[n] \subseteq KeysTo(minted) \X Nat
      /\ History(begun, sealed, minted) /\ minted \in Nat /\ minted + 1 \in Nat /\ o \in Nodes
      /\ wg[o] \in Peer => Sound(o, wg[o], begun, sealed, opened[o], minted)
  BY <1>0, BeforeStep
<1>2. m.sender \in begun[o] /\ m.sender \in 1..minted
  <2>1. PICK a \in Nodes, i \in 1..minted : m = Initiation(a, i)
    BY <1>0 DEF PeersInv, DatagramOK
  <2>2. m.sender = i /\ Other(a) = n
    BY <1>0, <2>1 DEF Initiation
  <2>3. a = o
    BY <2>2, TwoEnds
  <2> QED BY <1>1, <2>1, <2>2, <2>3 DEF begun
<1>3. R = [type |-> 2, to |-> Other(n), sender |-> minted + 1, receiver |-> m.sender,
           seal |-> <<m.sender, minted + 1>>]
  BY DEF Response
<1>4. begun' = begun
  <2> DEFINE X == {R}
  <2>1. datagrams' = datagrams \cup X /\ \A x \in X : x.type # 1
    BY <1>0, <1>3
  <2> HIDE DEF X
  <2> QED BY <2>1, NothingBegun
<1>5. 1..minted \subseteq 1..minted' /\ KeysTo(minted) \subseteq KeysTo(minted')
  BY <1>0, <1>1, KeysGrow
<1>6. \A d \in datagrams' : DatagramOK(d, minted')
  <2>1. DatagramOK(R, minted')
    <3>1. minted + 1 \in 1..minted' /\ m.sender \in 1..minted'
      BY <1>0, <1>1, <1>2
    <3> QED BY <1>3, <3>1 DEF DatagramOK
  <2>2. \A d \in datagrams : DatagramOK(d, minted')
    BY <1>5 DEF PeersInv, DatagramOK
  <2> QED BY <1>0, <2>1, <2>2
<1>7. v \in Peer /\ Sound(n, v, begun, sealed, opened[n], minted')
  BY <1>0, <1>1, <1>2, AnswerIsSound
<1>8. wg[o] \in Peer => Sound(o, wg[o], begun, sealed, opened[o], minted')
  BY <1>0, <1>1, DrawKeepsSound
<1>9. History(begun, sealed, minted')
  BY <1>0, <1>1, <1>5 DEF History
<1>10. opened' \in [Nodes -> SUBSET (KeysTo(minted') \X Nat)]
  BY <1>0, <1>5 DEF PeersInv
<1> HIDE DEF v
<1> QED BY <1>0, <1>4, <1>6, <1>7, <1>8, <1>9, <1>10, OneEndMoves

\* Taking a response, old or new.
LEMMA ResponseStep ==
    ASSUME PeersInv, NEW n \in Nodes, NEW m \in datagrams, HandleResponse(n, m)
    PROVE  PeersInv'
<1> DEFINE v == ConsumeResponse(wg[n], m)
<1>0. /\ wg[n].known /\ m.type = 2 /\ wg[n].senderIndex = m.receiver
      /\ wg' = [wg EXCEPT ![n] = v] /\ UNCHANGED <<minted, datagrams, sealed, opened>>
  BY DEF HandleResponse, Demuxed
<1>1. PICK a \in Nodes, i \in 1..minted, r \in 1..minted :
        m = [type |-> 2, to |-> Other(a), sender |-> r, receiver |-> i, seal |-> <<i, r>>]
  BY <1>0 DEF PeersInv, DatagramOK, Initiation
<1>2. m.sender \in 1..minted /\ m.receiver \in 1..minted /\ m.seal = <<m.receiver, m.sender>>
  BY <1>1
<1>3. v \in Peer /\ Sound(n, v, begun, sealed, opened[n], minted)
  BY <1>0, <1>2, BeforeStep, ConsumeIsSound
<1>4. begun' = begun
  BY <1>0 DEF begun
<1>5. /\ opened' \in [Nodes -> SUBSET (KeysTo(minted') \X Nat)]
      /\ \A d \in datagrams' : DatagramOK(d, minted')
  BY <1>0 DEF PeersInv
<1> HIDE DEF v
<1> QED BY <1>0, <1>3, <1>4, <1>5, BeforeStep, OneEndMoves

\* Opening a packet.
LEMMA OpenStep ==
    ASSUME PeersInv, NEW n \in Nodes, NEW m \in datagrams, HandleTransport(n, m)
    PROVE  PeersInv'
<1> DEFINE w == wg[n]
           v == [w EXCEPT !.replay = w.replay \cup {m.counter}]
<1>0. /\ w.known /\ m.type = 4 /\ w.hasKeys /\ w.keys.recv = m.key
      /\ wg' = [wg EXCEPT ![n].replay = wg[n].replay \cup {m.counter}]
      /\ opened' = [opened EXCEPT ![n] = opened[n] \cup {<<m.key, m.counter>>}]
      /\ UNCHANGED <<minted, datagrams, sealed>>
  BY DEF HandleTransport, Demuxed, CanDecapsulate
<1>1. wg' = [wg EXCEPT ![n] = v]
  BY <1>0
<1>2. m.counter \in Nat
  BY <1>0 DEF PeersInv, DatagramOK, Initiation
<1>3. /\ w \in Peer /\ Sound(n, w, begun, sealed, opened[n], minted)
      /\ History(begun, sealed, minted) /\ Other(n) \in Nodes /\ Other(n) # n
      /\ wg[Other(n)] \in Peer => Sound(Other(n), wg[Other(n)], begun, sealed,
                                        opened[Other(n)], minted)
  BY <1>0, BeforeStep, TwoEnds
<1>4. v \in Peer /\ Sound(n, v, begun, sealed, opened[n] \cup {<<w.keys.recv, m.counter>>}, minted)
  BY <1>0, <1>2, <1>3, OpeningIsSound
<1>5. /\ opened'[n] = opened[n] \cup {<<w.keys.recv, m.counter>>}
      /\ opened'[Other(n)] = opened[Other(n)]
  BY <1>0, <1>3 DEF PeersInv
<1>6. opened' \in [Nodes -> SUBSET (KeysTo(minted') \X Nat)]
  <2>1. w.keys.recv \in KeysTo(minted)
    BY <1>0, <1>3, SealingKey
  <2> QED BY <1>0, <1>2, <2>1 DEF PeersInv
<1>7. begun' = begun
  BY <1>0 DEF begun
<1>8. \A d \in datagrams' : DatagramOK(d, minted')
  BY <1>0 DEF PeersInv
<1>9. sealed' = sealed /\ minted' = minted
  BY <1>0
<1> HIDE DEF v, w
<1>10. Sound(n, v, begun', sealed', opened'[n], minted')
  BY <1>4, <1>5, <1>7, <1>9
<1>11. wg[Other(n)] \in Peer =>
        Sound(Other(n), wg[Other(n)], begun', sealed', opened'[Other(n)], minted')
  BY <1>3, <1>5, <1>7, <1>9
<1>12. History(begun', sealed', minted')
  BY <1>3, <1>7, <1>9
<1>13. v \in Peer \cup {NoPeer}
  BY <1>4
<1> QED BY <1>1, <1>6, <1>8, <1>10, <1>11, <1>12, <1>13, OneEndMoves

\* An end that holds no peer, or a new one, in place of what it held.
LEMMA ReplacedStep ==
    ASSUME PeersInv, NEW n \in Nodes, NEW v \in Peer \cup {NoPeer},
           v \in Peer => Sound(n, v, begun, sealed, opened[n], minted),
           wg' = [wg EXCEPT ![n] = v], UNCHANGED <<minted, datagrams, sealed, opened>>
    PROVE  PeersInv'
<1>1. Other(n) \in Nodes
  BY TwoEnds
<1>2. wg[Other(n)] \in Peer =>
        Sound(Other(n), wg[Other(n)], begun, sealed, opened[Other(n)], minted)
  BY <1>1, KnownPeer DEF PeersInv
<1>3. begun' = begun
  BY DEF begun
<1>4. /\ opened' \in [Nodes -> SUBSET (KeysTo(minted') \X Nat)]
      /\ \A d \in datagrams' : DatagramOK(d, minted')
      /\ History(begun, sealed, minted)
  BY DEF PeersInv
<1> QED BY <1>2, <1>3, <1>4, OneEndMoves

\* A peer that leaves the map, or comes back to it as a new WGPeer.
LEMMA MapStep ==
    ASSUME PeersInv, NEW n \in Nodes, PeerLeaves(n) \/ PeerReturns(n)
    PROVE  PeersInv'
<1>1. CASE PeerLeaves(n)
  <2>1. NoPeer \notin Peer
    <3>1. NoPeer.known = FALSE
      BY DEF NoPeer
    <3>2. \A w \in Peer : w.known = TRUE
      BY DEF Peer
    <3> QED BY <3>1, <3>2
  <2>2. wg' = [wg EXCEPT ![n] = NoPeer] /\ UNCHANGED <<minted, datagrams, sealed, opened>>
    BY <1>1 DEF PeerLeaves
  <2> QED BY <2>1, <2>2, ReplacedStep
<1>2. CASE PeerReturns(n)
  <2>1. WGPeer \in Peer /\ Sound(n, WGPeer, begun, sealed, opened[n], minted)
    BY NewPeer, NewIsSound DEF PeersInv
  <2>2. wg' = [wg EXCEPT ![n] = WGPeer] /\ UNCHANGED <<minted, datagrams, sealed, opened>>
    BY <1>2 DEF PeerReturns
  <2> QED BY <2>1, <2>2, ReplacedStep
<1> QED BY <1>1, <1>2

\* Every step of either end, and of time, keeps both ends sound.
LEMMA PeersStep ==
    ASSUME PeersInv, [PeersNext]_peerVars
    PROVE  PeersInv'
<1>1. CASE Tick
  <2>0. /\ wg' = [n \in Nodes |-> IF wg[n].known THEN Later(wg[n]) ELSE wg[n]]
        /\ UNCHANGED <<minted, datagrams, sealed, opened>>
    BY <1>1 DEF Tick
  <2>1. begun' = begun
    BY <2>0 DEF begun
  <2>2. ASSUME NEW n \in Nodes
        PROVE  /\ wg'[n] \in Peer \cup {NoPeer}
               /\ wg'[n].known => Sound(n, wg'[n], begun, sealed, opened[n], minted)
    <3>1. CASE wg[n].known
      <4>1. wg'[n] = Later(wg[n])
        BY <2>0, <3>1
      <4>2. wg[n] \in Peer /\ Sound(n, wg[n], begun, sealed, opened[n], minted)
        BY <3>1, BeforeStep
      <4>3. SameKeys(Later(wg[n]), wg[n]) /\ Later(wg[n]).counter = wg[n].counter
        BY <4>2, TimePasses
      <4>4. Sound(n, Later(wg[n]), begun, sealed, opened[n], minted)
        BY <4>2, <4>3, SameIsSound
      <4> QED BY <4>1, <4>3, <4>4 DEF SameKeys
    <3>2. CASE ~wg[n].known
      <4>1. wg'[n] = wg[n]
        BY <2>0, <3>2
      <4> QED BY <3>2, <4>1 DEF PeersInv
    <3> QED BY <3>1, <3>2
  <2>3. wg' \in [Nodes -> Peer \cup {NoPeer}]
    BY <2>0, <2>2
  <2> QED BY <2>0, <2>1, <2>2, <2>3 DEF PeersInv
<1>2. ASSUME NEW n \in Nodes, SendToPeer(n) PROVE PeersInv'
  <2> DEFINE w == ExpireIfStale(wg[n])
  <2>0. wg[n].known /\ UNCHANGED opened
    BY <1>2 DEF SendToPeer
  <2>1. SameKeys(w, wg[n]) /\ w.counter = wg[n].counter
    BY <2>0, BeforeStep, TimePasses
  <2>2. \/ Initiate(n, w)
        \/ wg' = [wg EXCEPT ![n] = w] /\ UNCHANGED <<minted, datagrams, sealed>>
        \/ w.hasKeys /\ Encapsulate(n, w, {}) /\ UNCHANGED minted
        \/ /\ w.hasKeys /\ minted' = minted + 1
           /\ Encapsulate(n, BuildInitiation(w, minted + 1), {Initiation(n, minted + 1)})
    BY <1>2 DEF SendToPeer
  <2> HIDE DEF w
  <2>3. CASE Initiate(n, w)
    BY <2>0, <2>1, <2>3, InitiateStep
  <2>4. CASE wg' = [wg EXCEPT ![n] = w] /\ UNCHANGED <<minted, datagrams, sealed>>
    BY <2>0, <2>1, <2>4, QuietStep
  <2>5. CASE w.hasKeys /\ Encapsulate(n, w, {}) /\ UNCHANGED minted
    BY <2>0, <2>1, <2>5, SealStep
  <2>6. CASE /\ w.hasKeys /\ minted' = minted + 1
             /\ Encapsulate(n, BuildInitiation(w, minted + 1), {Initiation(n, minted + 1)})
    BY <2>0, <2>1, <2>6, RekeyStep
  <2> QED BY <2>2, <2>3, <2>4, <2>5, <2>6
<1>3. ASSUME NEW n \in Nodes, MaintainPeers(n) PROVE PeersInv'
  <2> DEFINE w == ExpireIfStale(wg[n])
  <2>0. wg[n].known /\ UNCHANGED opened
    BY <1>3 DEF MaintainPeers
  <2>1. SameKeys(w, wg[n]) /\ w.counter = wg[n].counter
    BY <2>0, BeforeStep, TimePasses
  <2>2. \/ Initiate(n, w)
        \/ wg' = [wg EXCEPT ![n] = w] /\ UNCHANGED <<minted, datagrams, sealed>>
        \/ w.hasKeys /\ Encapsulate(n, w, {}) /\ UNCHANGED minted
    BY <1>3 DEF MaintainPeers, ShouldKeepalive
  <2> HIDE DEF w
  <2>3. CASE Initiate(n, w)
    BY <2>0, <2>1, <2>3, InitiateStep
  <2>4. CASE wg' = [wg EXCEPT ![n] = w] /\ UNCHANGED <<minted, datagrams, sealed>>
    BY <2>0, <2>1, <2>4, QuietStep
  <2>5. CASE w.hasKeys /\ Encapsulate(n, w, {}) /\ UNCHANGED minted
    BY <2>0, <2>1, <2>5, SealStep
  <2> QED BY <2>2, <2>3, <2>4, <2>5
<1>4. CASE UNCHANGED peerVars
  <2>1. begun' = begun
    BY <1>4 DEF peerVars, begun
  <2> QED BY <1>4, <2>1 DEF peerVars, PeersInv
<1> QED
  BY <1>1, <1>2, <1>3, <1>4, MapStep, AnswerStep, ResponseStep, OpenStep DEF PeersNext

\* Both ends start without keys.
LEMMA PeersStart == PeersInit => PeersInv
<1> SUFFICES ASSUME PeersInit PROVE PeersInv
  OBVIOUS
<1>1. /\ wg \in [Nodes -> Peer \cup {NoPeer}] /\ \A n \in Nodes : wg[n] = WGPeer
      /\ opened \in [Nodes -> SUBSET (KeysTo(minted) \X Nat)]
      /\ \A m \in datagrams : DatagramOK(m, minted)
  BY NewPeer DEF PeersInit
<1>2. History(begun, sealed, minted)
  <2>1. \A n \in Nodes : begun[n] = {}
    BY DEF PeersInit, begun
  <2>2. begun \in [Nodes -> SUBSET (1..minted)]
    BY <2>1 DEF begun
  <2> QED BY <2>1, <2>2 DEF PeersInit, History
<1>3. \A n \in Nodes : Sound(n, WGPeer, begun, sealed, opened[n], minted)
  BY <1>1, <1>2, NewIsSound
<1> QED BY <1>1, <1>2, <1>3 DEF PeersInv

\* What sound ends amount to: the next nonce is unused, no packet opens twice,
\* and the keys of the two ends fit.
LEMMA SoundEnds == PeersInv => SessionKeysSound
<1> SUFFICES ASSUME PeersInv PROVE SessionKeysSound
  OBVIOUS
<1>1. NonceUsedOnce
  <2> SUFFICES ASSUME NEW n \in Nodes, wg[n].known, wg[n].hasKeys,
                      <<wg[n].keys.send, wg[n].counter>> \in sealed
               PROVE  FALSE
    BY DEF NonceUsedOnce
  <2>1. wg[n] \in Peer /\ CounterAhead(wg[n], sealed)
    BY BeforeStep DEF Sound
  <2>2. wg[n].counter \in Nat
    BY <2>1 DEF Peer
  <2>3. wg[n].counter < wg[n].counter
    BY <2>1, <2>2 DEF CounterAhead
  <2> QED BY <2>2, <2>3
<1>2. OpenedOnce
  <2> SUFFICES ASSUME NEW n \in Nodes, NEW m \in datagrams, m.type = 4, wg[n].known,
                      <<m.key, m.counter>> \in opened[n], wg[n].keys.recv = m.key
               PROVE  m.counter \in wg[n].replay
    BY DEF OpenedOnce, CanDecapsulate
  <2>1. m.counter \in Nat
    BY DEF PeersInv, DatagramOK, Initiation
  <2> QED BY <2>1, BeforeStep DEF Sound, WindowFull
<1>3. KeysMirrored
  <2> SUFFICES ASSUME NEW n \in Nodes, NEW w, NEW o, w = wg[n], o = wg[Other(n)],
                      w.known, o.known, w.hasKeys, o.hasKeys
               PROVE  /\ w.keys.send # w.keys.recv /\ w.keys.send # o.keys.send
                      /\ (w.keys.send = o.keys.recv <=> w.keys.recv = o.keys.send)
    BY DEF KeysMirrored
  <2>0. Other(n) \in Nodes /\ Other(Other(n)) = n
    BY TwoEnds
  <2>1. /\ w \in Peer /\ Sound(n, w, begun, sealed, opened[n], minted)
        /\ o \in Peer /\ Sound(Other(n), o, begun, sealed, opened[Other(n)], minted)
        /\ History(begun, sealed, minted)
    BY <2>0, BeforeStep
  <2>2. w.keys.send # w.keys.recv /\ w.keys.send # o.keys.send
    BY <2>1, SealingKey, SealingKeepsOther
  <2>3. ASSUME NEW m \in Nodes, NEW z, Sound(m, z, begun, sealed, opened[m], minted), z.hasKeys
        PROVE  \E i \in Nat, r \in Nat :
                 \/ z.keys.send = <<i, r, 1>> /\ z.keys.recv = <<i, r, 2>>
                 \/ z.keys.send = <<i, r, 2>> /\ z.keys.recv = <<i, r, 1>>
    <3>0. begun[m] \subseteq Nat /\ begun[Other(m)] \subseteq Nat
      BY <2>1, TwoEnds DEF History
    <3>1. CASE Initiated(m, z, begun, minted)
      <4>1. PICK i \in begun[m], r \in 1..minted :
              z.keys = [send |-> <<i, r, 1>>, recv |-> <<i, r, 2>>]
        BY <3>1 DEF Initiated
      <4>2. z.keys.send = <<i, r, 1>> /\ z.keys.recv = <<i, r, 2>>
        BY <4>1
      <4> QED BY <3>0, <4>2
    <3>2. CASE Answered(m, z, begun, minted)
      <4>1. PICK i \in begun[Other(m)], r \in 1..minted :
              z.keys = [send |-> <<i, r, 2>>, recv |-> <<i, r, 1>>]
        BY <3>2 DEF Answered
      <4>2. z.keys.send = <<i, r, 2>> /\ z.keys.recv = <<i, r, 1>>
        BY <4>1
      <4> QED BY <3>0, <4>2
    <3> QED BY <2>3, <3>1, <3>2 DEF Sound, KeysKnown
  <2>4. PICK i \in Nat, r \in Nat :
          \/ w.keys.send = <<i, r, 1>> /\ w.keys.recv = <<i, r, 2>>
          \/ w.keys.send = <<i, r, 2>> /\ w.keys.recv = <<i, r, 1>>
    BY <2>1, <2>3
  <2>5. PICK j \in Nat, q \in Nat :
          \/ o.keys.send = <<j, q, 1>> /\ o.keys.recv = <<j, q, 2>>
          \/ o.keys.send = <<j, q, 2>> /\ o.keys.recv = <<j, q, 1>>
    BY <2>0, <2>1, <2>3
  <2>6. w.keys.send = o.keys.recv <=> w.keys.recv = o.keys.send
    BY <2>4, <2>5
  <2> QED BY <2>2, <2>6
<1> QED BY <1>1, <1>2, <1>3 DEF SessionKeysSound

\* Under every delivery of their datagrams the two ends use no nonce twice, hand
\* no packet to the tun twice, and hold keys that fit each other's: for any
\* number of handshakes, rekeys and packets.
THEOREM KeysStaySound == PeersSpec => []SessionKeysSound
<1>1. PeersInv /\ [PeersNext]_peerVars => PeersInv'
  BY PeersStep
<1> QED BY <1>1, PeersStart, SoundEnds, PTL DEF PeersSpec

-----------------------------------------------------------------------------
(* Quotients and remainders. *)

\* A number is its quotient times the divisor plus its remainder.
LEMMA DivMod ==
    ASSUME NEW n \in Nat, NEW d \in Nat \ {0}
    PROVE  /\ n \div d \in Nat /\ n % d \in 0..(d - 1)
           /\ n = d * (n \div d) + (n % d)
OBVIOUS

\* Multiplication preserves strict order, with room for one more factor.
LEMMA Multiply ==
    ASSUME NEW d \in Nat \ {0}, NEW a \in Int, NEW b \in Int, a < b
    PROVE  d * a + d <= d * b
OBVIOUS

\* Quotient and remainder are the only pair of their kind.
LEMMA DivModUnique ==
    ASSUME NEW d \in Nat \ {0}, NEW q \in Nat, NEW p \in Nat,
           NEW r \in 0..(d - 1), NEW s \in 0..(d - 1), d * q + r = d * p + s
    PROVE  q = p /\ r = s
<1>1. ~(q < p)
  BY Multiply
<1>2. ~(p < q)
  BY Multiply
<1>3. q = p
  BY <1>1, <1>2
<1> QED BY <1>3

\* The remainder of a number written as multiple plus rest is the rest.
LEMMA ModOf ==
    ASSUME NEW d \in Nat \ {0}, NEW q \in Nat, NEW r \in 0..(d - 1)
    PROVE  (d * q + r) % d = r
<1> DEFINE n == d * q + r
<1>1. n \in Nat
  OBVIOUS
<1>2. /\ n \div d \in Nat /\ n % d \in 0..(d - 1)
      /\ n = d * (n \div d) + (n % d)
  BY <1>1, DivMod
<1> QED BY <1>2, DivModUnique

\* A number below the divisor is its own remainder.
LEMMA ModSmall ==
    ASSUME NEW d \in Nat \ {0}, NEW n \in 0..(d - 1)
    PROVE  n % d = n
<1>1. (d * 0 + n) % d = n
  BY ModOf
<1> QED BY <1>1

\* A larger number has no smaller quotient.
LEMMA DivMonotone ==
    ASSUME NEW d \in Nat \ {0}, NEW m \in Nat, NEW n \in Nat, m <= n
    PROVE  m \div d <= n \div d
<1>1. m = d * (m \div d) + (m % d) /\ m \div d \in Nat /\ m % d \in 0..(d - 1)
  BY DivMod
<1>2. n = d * (n \div d) + (n % d) /\ n \div d \in Nat /\ n % d \in 0..(d - 1)
  BY DivMod
<1>3. SUFFICES ASSUME n \div d < m \div d PROVE FALSE
  BY <1>1, <1>2
<1>4. d * (n \div d) + d <= d * (m \div d)
  BY <1>1, <1>2, <1>3, Multiply
<1> QED BY <1>1, <1>2, <1>4

\* Numbers less than d apart have different remainders.
LEMMA RingDistinct ==
    ASSUME NEW d \in Nat \ {0}, NEW a \in Nat, NEW b \in Nat,
           a <= b, b < a + d, a % d = b % d
    PROVE  a = b
<1>1. a = d * (a \div d) + (a % d) /\ a \div d \in Nat /\ a % d \in 0..(d - 1)
  BY DivMod
<1>2. b = d * (b \div d) + (b % d) /\ b \div d \in Nat /\ b % d \in 0..(d - 1)
  BY DivMod
<1>3. a \div d <= b \div d
  BY DivMonotone
<1>4. ~(a \div d < b \div d)
  BY <1>1, <1>2, Multiply
<1> QED BY <1>1, <1>2, <1>3, <1>4

\* The d numbers that follow a have every remainder between them.
LEMMA RingCovered ==
    ASSUME NEW d \in Nat \ {0}, NEW a \in Nat, NEW r \in 0..(d - 1)
    PROVE  \E i \in 1..d : (i + a) % d = r
<1>1. a = d * (a \div d) + (a % d) /\ a \div d \in Nat /\ a % d \in 0..(d - 1)
  BY DivMod
<1>2. CASE r > a % d
  <2>1. (r - (a % d)) + a = d * (a \div d) + r
    BY <1>1
  <2>2. ((r - (a % d)) + a) % d = r
    BY <1>1, <2>1, ModOf
  <2>3. r - (a % d) \in 1..d
    BY <1>1, <1>2
  <2> QED BY <2>2, <2>3
<1>3. CASE r <= a % d
  <2>1. PICK q \in Nat : q = (a \div d) + 1
    BY <1>1
  <2>2. d * q = d * (a \div d) + d
    BY <1>1, <2>1
  <2>3. (d * q + r) % d = r
    BY ModOf
  <2>4. (d + r - (a % d)) + a = d * q + r
    BY <1>1, <2>2
  <2>5. d + r - (a % d) \in 1..d
    BY <1>1, <1>3
  <2> QED BY <2>3, <2>4, <2>5
<1> QED BY <1>1, <1>2, <1>3

\* Numbers less than k - 1 blocks apart are in blocks less than k apart.
LEMMA BlocksApart ==
    ASSUME NEW d \in Nat \ {0}, NEW k \in Nat \ {0}, NEW x \in Nat, NEW y \in Nat,
           NEW r \in 0..(d - 1), NEW s \in 0..(d - 1),
           d * y + s <= d * k - d + (d * x + r)
    PROVE  y < x + k
<1>1. SUFFICES ASSUME x + k <= y PROVE FALSE
  OBVIOUS
<1>2. PICK z \in Nat : z = x + k - 1
  OBVIOUS
<1>3. d * z + d <= d * y
  BY <1>1, <1>2, Multiply
<1>4. d * z = d * x + d * k - d
  BY <1>2
<1>5. d * z \in Nat /\ d * x \in Nat /\ d * k \in Nat /\ d * y \in Nat
  OBVIOUS
<1> QED BY <1>3, <1>4, <1>5

-----------------------------------------------------------------------------
(* The inductive invariant. *)

\* Block b of the counters' axis is one the ring holds when its top is at t.
InWindow(b, t) == b <= Block(t) /\ Block(t) < b + Blocks

\* Nothing above the top was taken.
TopIsHighest == \A c \in accepted : c + 1 <= fReplayCounter

\* In every block the ring holds, the bits are the counters that were taken.
RingMatches ==
    \A m \in Nat : InWindow(Block(m), fReplayCounter) =>
        (m % Bits \in fReplayBitmap[Block(m) % Blocks] <=> m - 1 \in accepted)

IInv == TypeOK /\ TopIsHighest /\ RingMatches

\* The constants as the provers need them.
LEMMA Sizes ==
    /\ Bits \in Nat \ {0} /\ Blocks \in Nat \ {0} /\ Word \in Nat \ {0}
    /\ kRejectAfterMessages \in Nat /\ kReplayWindow \in Nat
    /\ kReplayWindow = Bits * Blocks - Bits
    /\ kReplayWindow + kRejectAfterMessages < Word
<1>1. Bits \in Nat \ {0} /\ Blocks \in Nat \ {0} /\ Word \in Nat /\ Bits * Blocks + 2 <= Word
  BY ReplayAssumption
<1>2. Bits * Blocks \in Nat
  BY <1>1
<1>3. Bits * (Blocks - 1) = Bits * Blocks - Bits
  BY <1>1
<1>4. Bits <= Bits * Blocks
  <2>1. Bits * 0 + Bits <= Bits * Blocks
    BY <1>1, Multiply
  <2> QED BY <1>1, <2>1
<1> QED BY <1>1, <1>2, <1>3, <1>4 DEF kReplayWindow, kRejectAfterMessages

\* A counter that is considered does not wrap, neither plus one nor plus the
\* window.
LEMMA NoWrap ==
    ASSUME NEW c \in Counters, c < kRejectAfterMessages
    PROVE  /\ c + 1 \in 1..kRejectAfterMessages
           /\ (c + 1) % Word = c + 1
           /\ (kReplayWindow + (c + 1)) % Word = kReplayWindow + (c + 1)
<1>1. c \in Nat /\ c + 1 \in 0..(Word - 1) /\ kReplayWindow + (c + 1) \in 0..(Word - 1)
  BY Sizes DEF Counters
<1> QED BY <1>1, Sizes, ModSmall

\* A block is a natural number, its place in the ring and a bit's in a word exist.
LEMMA Places ==
    ASSUME NEW n \in Nat
    PROVE  /\ Block(n) \in Nat /\ n % Bits \in 0..(Bits - 1)
           /\ n = Bits * Block(n) + (n % Bits)
           /\ Block(n) % Blocks \in 0..(Blocks - 1)
<1>1. Block(n) \in Nat /\ n % Bits \in 0..(Bits - 1) /\ n = Bits * Block(n) + (n % Bits)
  BY Sizes, DivMod DEF Block
<1> QED BY <1>1, Sizes, DivMod

\* A number that is not below the window is in a block the ring holds.
LEMMA NotTooOldInWindow ==
    ASSUME NEW n \in Nat, NEW t \in Nat, n <= t, t <= kReplayWindow + n
    PROVE  InWindow(Block(n), t)
<1>1. Block(n) <= Block(t)
  BY Sizes, DivMonotone DEF Block
<1>2. Block(t) < Block(n) + Blocks
  <2>1. Block(n) \in Nat /\ n % Bits \in 0..(Bits - 1) /\ n = Bits * Block(n) + (n % Bits)
    BY Places
  <2>2. Block(t) \in Nat /\ t % Bits \in 0..(Bits - 1) /\ t = Bits * Block(t) + (t % Bits)
    BY Places
  <2>3. t <= Bits * Blocks - Bits + n
    BY Sizes
  <2> QED BY <2>1, <2>2, <2>3, Sizes, BlocksApart
<1> QED BY <1>1, <1>2 DEF InWindow

\* Two numbers of the window that share a bit of the ring are the same.
LEMMA SameBitSameNumber ==
    ASSUME NEW m \in Nat, NEW n \in Nat, NEW t \in Nat,
           InWindow(Block(m), t), InWindow(Block(n), t),
           Block(m) % Blocks = Block(n) % Blocks, m % Bits = n % Bits
    PROVE  m = n
<1>1. Block(m) \in Nat /\ Block(n) \in Nat /\ Block(t) \in Nat
  BY Places
<1>2. Block(m) < Block(n) + Blocks /\ Block(n) < Block(m) + Blocks
  BY <1>1, Sizes DEF InWindow
<1>3. Blocks \in Nat \ {0}
  BY Sizes
<1>4. Block(m) = Block(n)
  <2>1. PICK x \in Nat, y \in Nat : x = Block(m) /\ y = Block(n)
    BY <1>1
  <2>2. x < y + Blocks /\ y < x + Blocks /\ x % Blocks = y % Blocks
    BY <1>2, <2>1
  <2>3. x <= y \/ y <= x
    OBVIOUS
  <2>4. x = y
    BY <1>3, <2>2, <2>3, RingDistinct
  <2> QED BY <2>1, <2>4
<1> QED BY <1>4, Places

-----------------------------------------------------------------------------
(* Moving the window. *)

\* The top after a packet whose number is n.
Top(n) == IF n > fReplayCounter THEN n ELSE fReplayCounter

\* A block the window moves over is cleared, however far it moves.
LEMMA NewBlocksCleared ==
    ASSUME IInv, NEW n \in Nat, NEW m \in Nat,
           Block(fReplayCounter) < Block(m), Block(m) <= Block(n)
    PROVE  Clears(n, Block(m) % Blocks)
<1>1. /\ Block(fReplayCounter) \in Nat /\ Block(m) \in Nat /\ Block(n) \in Nat
      /\ Block(m) % Blocks \in 0..(Blocks - 1) /\ Blocks \in Nat \ {0}
  BY Sizes, Places DEF IInv, TypeOK
<1>2. PICK moved \in Nat : moved = Block(n) - Block(fReplayCounter)
  BY <1>1
<1>3. CASE moved > Blocks
  <2>1. PICK i \in 1..Blocks : (i + Block(fReplayCounter)) % Blocks = Block(m) % Blocks
    BY <1>1, RingCovered
  <2> QED BY <1>2, <1>3, <2>1 DEF Clears
<1>4. CASE ~(moved > Blocks)
  <2>1. PICK i \in 1..moved : i = Block(m) - Block(fReplayCounter)
    BY <1>1, <1>2
  <2>2. i + Block(fReplayCounter) = Block(m)
    BY <1>1, <2>1
  <2> QED BY <1>2, <1>4, <2>1, <2>2 DEF Clears
<1> QED BY <1>3, <1>4

\* A block that stays in the window keeps its bits.
LEMMA OldBlocksKept ==
    ASSUME IInv, NEW n \in Nat, NEW m \in Nat,
           Block(m) <= Block(fReplayCounter), Block(fReplayCounter) <= Block(n),
           Block(n) < Block(m) + Blocks
    PROVE  ~Clears(n, Block(m) % Blocks)
<1>1. /\ Block(fReplayCounter) \in Nat /\ Block(m) \in Nat /\ Block(n) \in Nat
      /\ Blocks \in Nat \ {0}
  BY Sizes, Places DEF IInv, TypeOK
<1>2. SUFFICES ASSUME NEW i \in 1..(Block(n) - Block(fReplayCounter)),
                      (i + Block(fReplayCounter)) % Blocks = Block(m) % Blocks
               PROVE  FALSE
  BY <1>1 DEF Clears
<1>3. PICK x \in Nat, y \in Nat : x = Block(m) /\ y = i + Block(fReplayCounter)
  BY <1>1, <1>2
<1>4. x < y /\ y < x + Blocks /\ x % Blocks = y % Blocks
  BY <1>1, <1>2, <1>3
<1>5. x <= y
  BY <1>4
<1>6. x = y
  BY <1>1, <1>4, <1>5, RingDistinct
<1> QED BY <1>4, <1>6

\* Once room for n is made, the ring still matches what was taken, now in the
\* window that has the new top.
LEMMA AdvancedMatches ==
    ASSUME IInv, NEW n \in Nat, NEW m \in Nat, InWindow(Block(m), Top(n))
    PROVE  m % Bits \in Advanced(n)[Block(m) % Blocks] <=> m - 1 \in accepted
<1>1. /\ fReplayCounter \in Nat
      /\ Block(fReplayCounter) \in Nat /\ Block(m) \in Nat /\ Block(n) \in Nat
      /\ Block(m) % Blocks \in 0..(Blocks - 1) /\ Blocks \in Nat \ {0}
  <2>1. fReplayCounter \in Nat
    BY Sizes DEF IInv, TypeOK
  <2> QED BY <2>1, Sizes, Places
<1>2. CASE ~(n > fReplayCounter)
  <2>1. Advanced(n) = fReplayBitmap /\ InWindow(Block(m), fReplayCounter)
    BY <1>2 DEF Advanced, Top
  <2> QED BY <2>1 DEF IInv, RingMatches
<1>3. CASE n > fReplayCounter
  <2>1. /\ Block(m) <= Block(n) /\ Block(n) < Block(m) + Blocks
        /\ Block(fReplayCounter) <= Block(n)
    <3>1. Block(fReplayCounter) <= Block(n)
      BY <1>1, <1>3, Sizes, DivMonotone DEF Block
    <3> QED BY <1>3, <3>1 DEF Top, InWindow
  <2>2. Advanced(n)[Block(m) % Blocks] =
          IF Clears(n, Block(m) % Blocks) THEN {} ELSE fReplayBitmap[Block(m) % Blocks]
    BY <1>1, <1>3 DEF Advanced
  <2>3. CASE Block(m) <= Block(fReplayCounter)
    <3>1. Advanced(n)[Block(m) % Blocks] = fReplayBitmap[Block(m) % Blocks]
      BY <2>1, <2>2, <2>3, OldBlocksKept
    <3>2. InWindow(Block(m), fReplayCounter)
      BY <1>1, <2>1, <2>3 DEF InWindow
    <3> QED BY <3>1, <3>2 DEF IInv, RingMatches
  <2>4. CASE Block(fReplayCounter) < Block(m)
    <3>1. Advanced(n)[Block(m) % Blocks] = {}
      BY <2>1, <2>2, <2>4, NewBlocksCleared
    <3>2. ~(m <= fReplayCounter)
      BY <1>1, <2>4, Sizes, DivMonotone DEF Block
    <3>3. m - 1 \notin accepted
      BY <1>1, <3>2 DEF IInv, TopIsHighest
    <3> QED BY <3>1, <3>3
  <2> QED BY <1>1, <2>3, <2>4
<1> QED BY <1>2, <1>3

\* A counter is taken when, and only when, it is considered and was not taken.
LEMMA AcceptsFresh ==
    ASSUME IInv, NEW c \in Counters, Considered(c, c + 1), c < kRejectAfterMessages
    PROVE  /\ InWindow(Block(c + 1), Top(c + 1))
           /\ Accepts(c) <=> c \notin accepted
<1>1. /\ c + 1 \in Nat /\ (c + 1) % Word = c + 1 /\ fReplayCounter \in Nat
      /\ (kReplayWindow + (c + 1)) % Word = kReplayWindow + (c + 1)
  BY NoWrap, Sizes DEF IInv, TypeOK
<1>2. fReplayCounter <= kReplayWindow + (c + 1)
  BY <1>1, Sizes DEF Considered, TooOld
<1>3. Top(c + 1) \in Nat /\ c + 1 <= Top(c + 1) /\ Top(c + 1) <= kReplayWindow + (c + 1)
  BY <1>1, <1>2, Sizes DEF Top
<1>4. InWindow(Block(c + 1), Top(c + 1))
  BY <1>1, <1>3, NotTooOldInWindow
<1>5. (c + 1) % Bits \in Advanced(c + 1)[Block(c + 1) % Blocks] <=> (c + 1) - 1 \in accepted
  BY <1>1, <1>4, AdvancedMatches
<1>6. (c + 1) - 1 = c
  BY Sizes DEF Counters
<1> QED BY <1>1, <1>4, <1>5, <1>6 DEF Accepts

-----------------------------------------------------------------------------
(* The theorems. *)

\* The empty window satisfies the invariant, at the start and with every new key.
LEMMA EmptyInv ==
    ASSUME fReplayCounter = 0, accepted = {},
           fReplayBitmap = [b \in 0..(Blocks - 1) |-> {}]
    PROVE  IInv
<1>1. TypeOK /\ TopIsHighest
  BY Sizes DEF TypeOK, TopIsHighest
<1>2. RingMatches
  BY Places DEF RingMatches
<1> QED BY <1>1, <1>2 DEF IInv

\* _ReplayValidate keeps the invariant.
LEMMA ValidateInv ==
    ASSUME IInv, NEW c \in Counters, ReplayValidate(c)
    PROVE  IInv'
<1>1. /\ Considered(c, c + 1) /\ c < kRejectAfterMessages /\ c \in Nat
      /\ c + 1 \in 1..kRejectAfterMessages /\ (c + 1) % Word = c + 1
  <2>1. c < kRejectAfterMessages
    BY DEF ReplayValidate, Considered
  <2> QED BY <2>1, NoWrap DEF ReplayValidate, Counters
<1>2. PICK n \in Nat : n = c + 1
  BY <1>1
<1>3. /\ fReplayCounter' = Top(n)
      /\ fReplayBitmap' = [Advanced(n) EXCEPT ![Block(n) % Blocks] = @ \cup {n % Bits}]
      /\ accepted' = IF Accepts(c) THEN accepted \cup {c} ELSE accepted
  BY <1>1, <1>2 DEF ReplayValidate, Top
<1>4. InWindow(Block(n), Top(n)) /\ (Accepts(c) <=> c \notin accepted)
  BY <1>1, <1>2, AcceptsFresh
<1>5. accepted' = accepted \cup {c}
  BY <1>3, <1>4
<1>6. fReplayCounter \in 0..kRejectAfterMessages /\ Top(n) \in 0..kRejectAfterMessages
  BY <1>1, <1>2, Sizes DEF IInv, TypeOK, Top
<1>7. Advanced(n) \in [0..(Blocks - 1) -> SUBSET (0..(Bits - 1))]
  BY DEF Advanced, IInv, TypeOK
<1>8. n % Bits \in 0..(Bits - 1) /\ Block(n) % Blocks \in 0..(Blocks - 1)
  BY Places
<1>9. TypeOK'
  <2>1. fReplayCounter' \in 0..kRejectAfterMessages
    BY <1>3, <1>6
  <2>2. fReplayBitmap' \in [0..(Blocks - 1) -> SUBSET (0..(Bits - 1))]
    BY <1>3, <1>7, <1>8
  <2>3. accepted' \subseteq 0..(kRejectAfterMessages - 1)
    BY <1>1, <1>5, Sizes DEF IInv, TypeOK
  <2> QED BY <2>1, <2>2, <2>3 DEF TypeOK
<1>10. TopIsHighest'
  <2>1. \A d \in accepted : d \in Nat /\ d + 1 <= fReplayCounter
    BY Sizes DEF IInv, TypeOK, TopIsHighest
  <2>2. fReplayCounter <= Top(n) /\ c + 1 <= Top(n)
    BY <1>1, <1>2, <1>6, Sizes DEF Top
  <2> QED BY <1>1, <1>3, <1>5, <1>6, <2>1, <2>2, Sizes DEF TopIsHighest
<1>11. RingMatches'
  <2>1. SUFFICES ASSUME NEW m \in Nat, InWindow(Block(m), Top(n))
                 PROVE  m % Bits \in fReplayBitmap'[Block(m) % Blocks]
                          <=> m - 1 \in accepted \cup {c}
    BY <1>3, <1>5 DEF RingMatches, InWindow, Block
  <2>2. m % Bits \in Advanced(n)[Block(m) % Blocks] <=> m - 1 \in accepted
    BY <2>1, AdvancedMatches
  <2>3. Block(m) % Blocks \in 0..(Blocks - 1)
    BY Places
  <2>4. CASE m = n
    <3>1. m - 1 = c
      BY <1>1, <1>2, <2>4
    <3>2. m % Bits \in fReplayBitmap'[Block(m) % Blocks]
      BY <1>3, <1>7, <1>8, <2>4
    <3> QED BY <3>1, <3>2
  <2>5. CASE m # n
    <3>1. m - 1 # c
      BY <1>1, <1>2, <2>5
    <3>2. ~(Block(m) % Blocks = Block(n) % Blocks /\ m % Bits = n % Bits)
      BY <1>4, <1>6, <2>1, <2>5, SameBitSameNumber
    <3>3. m % Bits \in fReplayBitmap'[Block(m) % Blocks]
            <=> m % Bits \in Advanced(n)[Block(m) % Blocks]
      BY <1>3, <1>7, <1>8, <2>3, <3>2
    <3> QED BY <2>2, <3>1, <3>3
  <2> QED BY <2>4, <2>5
<1> QED BY <1>9, <1>10, <1>11 DEF IInv

\* Every reachable window satisfies the invariant.
THEOREM WindowInvariant == Spec => []IInv
<1>1. Init => IInv
  BY EmptyInv DEF Init
<1>2. IInv /\ [Next]_vars => IInv'
  <2> SUFFICES ASSUME IInv, [Next]_vars PROVE IInv'
    OBVIOUS
  <2>1. CASE ReplayReset
    <3>1. TypeOK' /\ TopIsHighest'
      BY <2>1, Sizes DEF ReplayReset, TypeOK, TopIsHighest
    <3>2. RingMatches'
      BY <2>1, Places DEF ReplayReset, RingMatches
    <3> QED BY <3>1, <3>2 DEF IInv
  <2>2. ASSUME NEW c \in Counters, ReplayValidate(c) PROVE IInv'
    BY <2>2, ValidateInv
  <2>3. CASE UNCHANGED vars
    BY <2>3 DEF vars, IInv, TypeOK, TopIsHighest, RingMatches, InWindow, Block
  <2> QED BY <2>1, <2>2, <2>3 DEF Next
<1> QED BY <1>1, <1>2, PTL DEF Spec

\* The window's top never passes the limit on messages.
THEOREM WindowTypeCorrect == Spec => []TypeOK
<1>1. IInv => TypeOK
  BY DEF IInv
<1> QED BY <1>1, WindowInvariant, PTL

\* No counter is taken twice under one key, for every size of the ring.
THEOREM NeverReplayed == Spec => []NoReplay
<1>1. IInv => NoReplay
  <2> SUFFICES ASSUME IInv, NEW c \in accepted, Accepts(c) PROVE FALSE
    BY DEF NoReplay
  <2>1. c \in Counters /\ c < kRejectAfterMessages /\ (c + 1) % Word = c + 1
    <3>1. c \in Counters /\ c < kRejectAfterMessages
      BY Sizes DEF IInv, TypeOK, Counters
    <3> QED BY <3>1, NoWrap
  <2>2. Considered(c, c + 1)
    BY <2>1 DEF Accepts
  <2> QED BY <2>1, <2>2, AcceptsFresh
<1> QED BY <1>1, WindowInvariant, PTL

\* No counter within the window is dropped unless it was taken before, for
\* every size of the ring.
THEOREM NeverFalselyDropped == Spec => []NoFalseDrop
<1>1. IInv => NoFalseDrop
  <2> SUFFICES ASSUME IInv, NEW c \in 0..(kRejectAfterMessages - 1), c \notin accepted,
                      fReplayCounter <= c + 1 + kReplayWindow
               PROVE  Accepts(c)
    BY DEF NoFalseDrop
  <2>1. c \in Counters /\ c < kRejectAfterMessages /\ c \in Nat /\ fReplayCounter \in Nat
    BY Sizes DEF Counters, IInv, TypeOK
  <2>2. (kReplayWindow + (c + 1)) % Word = kReplayWindow + (c + 1)
    BY <2>1, NoWrap
  <2>3. Considered(c, c + 1)
    BY <2>1, <2>2, Sizes DEF Considered, TooOld
  <2> QED BY <2>1, <2>3, AcceptsFresh
<1> QED BY <1>1, WindowInvariant, PTL

\* For every size of the ring and of the counter, the window takes a counter
\* within its reach exactly when it has not taken it before.
THEOREM WindowIsExact == Spec => []WindowExact
<1>1. WindowExact <=> NoReplay /\ NoFalseDrop
  BY DEF WindowExact
<1> QED BY <1>1, NeverReplayed, NeverFalselyDropped, PTL

=============================================================================
