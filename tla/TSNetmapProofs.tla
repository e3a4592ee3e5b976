--------------------------- MODULE TSNetmapProofs ---------------------------
(***************************************************************************)
(* TSNetmap for any nodes, keys, names and routes, any number of messages  *)
(* under way and connections broken: the map read to its end is control's, *)
(* and the peer set, the routes and the resolver's table are the map's.    *)
(*                                                                         *)
(* The messages under way are a run (TSMapStreamProofs) over the sets of   *)
(* nodes control has had, from the one the client knows to the one there   *)
(* is; reading the next message takes the client one step along it.        *)
(***************************************************************************)
EXTENDS TSNetmap, TSMapStreamProofs, FiniteSetTheorems

-----------------------------------------------------------------------------
(***************************************************************************)
(* Lists: l holds each member of A, once, and nothing else.                *)
(***************************************************************************)
Lists(l, A) ==
    /\ l \in Seq(A)
    /\ \A x \in A : \E i \in 1..Len(l) : l[i] = x
    /\ \A i, j \in 1..Len(l) : l[i] = l[j] => i = j

\* Control's snapshot lists its nodes.
LEMMA SetListed ==
    ASSUME NEW A, IsFiniteSet(A)
    PROVE  Lists(SetToSeq(A), A)
<1> DEFINE n == Cardinality(A)
           D == 1..n
           s == SetToSeq(A)
<1>1. n \in Nat /\ ExistsBijection(D, A)
  BY FS_CardinalityType
<1>2. IsFiniteSet(D) /\ Cardinality(D) = n
  BY <1>1, FS_Interval
<1>3. PICK f \in Bijection(D, A) : TRUE
  BY <1>1 DEF ExistsBijection
<1>4. f \in [D -> A] /\ IsInjective(f)
  BY <1>3 DEF Bijection, Injection, IsInjective
<1>5. s = CHOOSE g \in [D -> A] : IsInjective(g)
  BY DEF SetToSeq
<1> HIDE DEF D, n, s
<1>6. s \in [D -> A] /\ IsInjective(s)
  BY <1>4, <1>5
<1>7. s \in Injection(D, A)
  BY <1>6 DEF Injection, IsInjective
<1>8. s \in Surjection(D, A)
  BY <1>2, <1>7, FS_Injection DEF n
<1>9. s \in Seq(A) /\ Len(s) = n
  BY <1>1, <1>6 DEF D
<1>10. \A x \in A : \E i \in 1..n : s[i] = x
  BY <1>8 DEF Surjection, D
<1>11. \A i, j \in 1..n : s[i] = s[j] => i = j
  BY <1>6 DEF IsInjective, D
<1> QED BY <1>9, <1>10, <1>11 DEF Lists, s

\* A list is as long as its set is large.
LEMMA ListedSet ==
    ASSUME NEW l, NEW A, Lists(l, A)
    PROVE  IsFiniteSet(A) /\ Cardinality(A) = Len(l) /\ ToSet(l) = A
<1> DEFINE n == Len(l)
           D == 1..n
<1>1. n \in Nat /\ l \in [D -> A]
  BY DEF Lists
<1>2. \A x \in A : \E i \in D : l[i] = x
  BY DEF Lists
<1>3. \A i, j \in D : l[i] = l[j] => i = j
  BY DEF Lists
<1>4. ToSet(l) = A
  BY <1>1, <1>2 DEF ToSet
<1> HIDE DEF D, n
<1>5. l \in Bijection(D, A)
  <2>1. l \in Injection(D, A)
    BY <1>1, <1>3 DEF Injection, IsInjective
  <2>2. l \in Surjection(D, A)
    BY <1>1, <1>2 DEF Surjection
  <2> QED BY <2>1, <2>2 DEF Bijection
<1>6. ExistsBijection(D, A)
  BY <1>5 DEF ExistsBijection
<1>7. IsFiniteSet(D) /\ Cardinality(D) = n
  BY <1>1, FS_Interval DEF D
<1>8. IsFiniteSet(A) /\ Cardinality(A) = n
  BY <1>6, <1>7, FS_Bijection
<1> QED BY <1>4, <1>8 DEF n

\* The lists of nothing, and of one.
LEMMA EmptyListed ==
    ASSUME NEW l
    PROVE  Lists(l, {}) <=> l = <<>>
<1>1. ASSUME Lists(l, {}) PROVE l = <<>>
  BY <1>1 DEF Lists
<1>2. Lists(<<>>, {})
  BY DEF Lists
<1> QED BY <1>1, <1>2

\* A list of one has one entry.
LEMMA OneListed ==
    ASSUME NEW l, NEW x, Lists(l, {x})
    PROVE  Len(l) = 1 /\ l[1] = x
<1>1. l \in Seq({x}) /\ Len(l) \in Nat
  BY DEF Lists
<1>2. \A i \in 1..Len(l) : l[i] = x
  BY <1>1
<1>3. Len(l) >= 1
  BY <1>1 DEF Lists
<1>4. ~ (Len(l) >= 2)
  <2>1. SUFFICES ASSUME Len(l) >= 2 PROVE FALSE
    OBVIOUS
  <2>2. 1 \in 1..Len(l) /\ 2 \in 1..Len(l)
    BY <1>1, <2>1
  <2> QED BY <1>2, <2>2 DEF Lists
<1>5. Len(l) = 1
  <2> DEFINE n == Len(l)
  <2>1. n \in Nat /\ n >= 1 /\ ~ (n >= 2)
    BY <1>1, <1>3, <1>4
  <2> HIDE DEF n
  <2>2. n = 1
    BY <2>1
  <2> QED BY <2>2 DEF n
<1> QED BY <1>2, <1>5

\* Writing x over the entry o.
LEMMA EntryReplaced ==
    ASSUME NEW l, NEW A, Lists(l, A), NEW k \in 1..Len(l), NEW x, x \notin A \ {l[k]}
    PROVE  Lists([l EXCEPT ![k] = x], (A \ {l[k]}) \cup {x})
<1> DEFINE n == Len(l)
           B == (A \ {l[k]}) \cup {x}
           g == [l EXCEPT ![k] = x]
<1>1. n \in Nat /\ l \in [1..n -> A] /\ k \in 1..n
  BY DEF Lists
<1>2. \A i, j \in 1..n : l[i] = l[j] => i = j
  BY DEF Lists
<1>3. \A y \in A : \E i \in 1..n : l[i] = y
  BY DEF Lists
<1>4. DOMAIN g = 1..n /\ \A i \in 1..n : g[i] = IF i = k THEN x ELSE l[i]
  BY <1>1
<1>5. g = [i \in 1..n |-> g[i]]
  BY <1>1
<1> HIDE DEF n, g
<1>6. \A i \in 1..n : g[i] \in B
  BY <1>1, <1>2, <1>4
<1>7. g \in [1..n -> B]
  <2> HIDE DEF B
  <2> QED BY <1>5, <1>6
<1>8. g \in Seq(B) /\ Len(g) = n
  <2> HIDE DEF B
  <2> QED BY <1>1, <1>7
<1>9. \A y \in B : \E i \in 1..n : g[i] = y
  BY <1>1, <1>3, <1>4
<1>10. \A i, j \in 1..n : g[i] = g[j] => i = j
  BY <1>1, <1>2, <1>4
<1> QED BY <1>8, <1>9, <1>10 DEF Lists, g

\* Adding x at the end.
LEMMA EntryAdded ==
    ASSUME NEW l, NEW A, Lists(l, A), NEW x, x \notin A
    PROVE  Lists(Append(l, x), A \cup {x})
<1> DEFINE n == Len(l)
           B == A \cup {x}
           g == Append(l, x)
<1>1. n \in Nat /\ l \in Seq(A) /\ l \in Seq(B)
  BY DEF Lists
<1>2. \A i, j \in 1..n : l[i] = l[j] => i = j
  BY DEF Lists
<1>3. \A y \in A : \E i \in 1..n : l[i] = y
  BY DEF Lists
<1>4. \A i \in 1..n : l[i] \in A
  BY <1>1
<1>5. g \in Seq(B) /\ Len(g) = n + 1
  BY <1>1
<1>6. \A i \in 1..n : g[i] = l[i]
  BY <1>1
<1>7. g[n + 1] = x
  BY <1>1
<1> HIDE DEF g, n
<1>8. \A y \in B : \E i \in 1..(n + 1) : g[i] = y
  <2>1. SUFFICES ASSUME NEW y \in B PROVE \E i \in 1..(n + 1) : g[i] = y
    OBVIOUS
  <2>2. CASE y = x
    BY <1>1, <1>7, <2>2
  <2>3. CASE y \in A
    <3>1. PICK i \in 1..n : l[i] = y
      BY <1>3, <2>3
    <3>2. i \in 1..(n + 1) /\ g[i] = y
      BY <1>1, <1>6, <3>1
    <3> QED BY <3>2
  <2> QED BY <2>2, <2>3
<1>9. \A i, j \in 1..(n + 1) : g[i] = g[j] => i = j
  <2>1. \A i \in 1..(n + 1) : i \in 1..n \/ i = n + 1
    BY <1>1
  <2> QED BY <1>2, <1>4, <1>6, <1>7, <2>1
<1> QED BY <1>5, <1>8, <1>9 DEF Lists, g

\* Taking the entry at k out.
LEMMA EntryRemoved ==
    ASSUME NEW l, NEW A, Lists(l, A), NEW k \in 1..Len(l)
    PROVE  Lists(RemoveAt(l, k), A \ {l[k]})
<1> DEFINE n == Len(l)
           B == A \ {l[k]}
           X == SubSeq(l, 1, k - 1)
           Y == SubSeq(l, k + 1, n)
           g == RemoveAt(l, k)
<1>1. n \in Nat /\ l \in Seq(A) /\ k \in 1..n
  BY DEF Lists
<1>2. \A i, j \in 1..n : l[i] = l[j] => i = j
  BY DEF Lists
<1>3. \A y \in A : \E i \in 1..n : l[i] = y
  BY DEF Lists
<1>4. \A i \in 1..n : l[i] \in A
  BY <1>1
<1>5. X \in Seq(A) /\ Len(X) = k - 1
  <2>1. k - 1 \in 0..Len(l)
    BY <1>1
  <2> QED BY <1>1, <2>1, CutApart
<1>6. \A i \in 1..(k - 1) : X[i] = l[i]
  BY <1>1
<1>7. Y \in Seq(A) /\ Len(Y) = n - k
  <2>1. k \in 0..Len(l)
    BY <1>1
  <2> QED BY <1>1, <2>1, CutApart
<1>8. \A i \in 1..(n - k) : Y[i] = l[k + i]
  BY <1>1
<1>9. g = X \o Y
  BY DEF RemoveAt
<1> HIDE DEF X, Y, g, n
<1>10. /\ g \in Seq(A) /\ Len(g) = Len(X) + Len(Y)
       /\ \A i \in 1..Len(X) : g[i] = X[i]
       /\ \A i \in 1..Len(Y) : g[Len(X) + i] = Y[i]
  <2>1. X \in Seq(A) /\ Y \in Seq(A)
    BY <1>5, <1>7
  <2>2. /\ X \o Y \in Seq(A) /\ Len(X \o Y) = Len(X) + Len(Y)
        /\ \A i \in 1..Len(X) : (X \o Y)[i] = X[i]
        /\ \A i \in 1..Len(Y) : (X \o Y)[Len(X) + i] = Y[i]
    BY <2>1, Concatenated
  <2> QED BY <1>9, <2>2
<1>11. Len(g) = n - 1
  BY <1>1, <1>5, <1>7, <1>10
<1>12. \A i \in 1..(n - 1) : g[i] = IF i < k THEN l[i] ELSE l[i + 1]
  <2>1. SUFFICES ASSUME NEW i \in 1..(n - 1) PROVE g[i] = IF i < k THEN l[i] ELSE l[i + 1]
    OBVIOUS
  <2>2. CASE i < k
    <3>1. i \in 1..(k - 1)
      BY <1>1, <2>2
    <3> QED BY <1>5, <1>6, <1>10, <2>2, <3>1
  <2>3. CASE ~ (i < k)
    <3> DEFINE j == i - (k - 1)
    <3>1. j \in 1..(n - k) /\ (k - 1) + j = i /\ k + j = i + 1
      BY <1>1, <2>3
    <3> HIDE DEF j
    <3>2. g[(k - 1) + j] = Y[j] /\ Y[j] = l[k + j]
      BY <1>5, <1>7, <1>8, <1>10, <3>1
    <3> QED BY <2>3, <3>1, <3>2
  <2> QED BY <2>2, <2>3
<1>13. \A i \in 1..(n - 1) : g[i] \in B
  <2>1. SUFFICES ASSUME NEW i \in 1..(n - 1) PROVE g[i] \in B
    OBVIOUS
  <2>2. CASE i < k
    BY <1>1, <1>2, <1>4, <1>12, <2>2
  <2>3. CASE ~ (i < k)
    <3>1. i + 1 \in 1..n /\ i + 1 # k /\ g[i] = l[i + 1]
      BY <1>1, <1>12, <2>3
    <3> QED BY <1>1, <1>2, <1>4, <3>1
  <2> QED BY <2>2, <2>3
<1>14. g \in Seq(B)
  <2>1. g = [i \in 1..(n - 1) |-> g[i]]
    BY <1>10, <1>11
  <2>2. n - 1 \in Nat
    BY <1>1
  <2> HIDE DEF B
  <2>3. g \in [1..(n - 1) -> B]
    BY <1>13, <2>1
  <2> QED BY <2>2, <2>3
<1>15. \A y \in B : \E i \in 1..(n - 1) : g[i] = y
  <2>1. SUFFICES ASSUME NEW y \in B PROVE \E i \in 1..(n - 1) : g[i] = y
    OBVIOUS
  <2>2. PICK j \in 1..n : l[j] = y
    BY <1>3
  <2>3. j # k
    BY <2>2
  <2>4. CASE j < k
    <3>1. j \in 1..(n - 1)
      BY <1>1, <2>4
    <3> QED BY <1>12, <2>2, <2>4, <3>1
  <2>5. CASE j > k
    <3>1. j - 1 \in 1..(n - 1) /\ ~ (j - 1 < k) /\ (j - 1) + 1 = j
      BY <1>1, <2>5
    <3>2. g[j - 1] = l[j]
      BY <1>12, <3>1
    <3> QED BY <2>2, <3>1, <3>2
  <2> QED BY <1>1, <2>3, <2>4, <2>5
<1>16. \A i, j \in 1..(n - 1) : g[i] = g[j] => i = j
  <2>1. SUFFICES ASSUME NEW i \in 1..(n - 1), NEW j \in 1..(n - 1), g[i] = g[j] PROVE i = j
    OBVIOUS
  <2> DEFINE u == IF i < k THEN i ELSE i + 1
             v == IF j < k THEN j ELSE j + 1
  <2>2. u \in 1..n /\ v \in 1..n /\ g[i] = l[u] /\ g[j] = l[v]
    BY <1>1, <1>12
  <2>3. u = v
    BY <1>2, <2>1, <2>2
  <2> QED BY <1>1, <2>3
<1> QED BY <1>11, <1>14, <1>15, <1>16 DEF Lists, g

-----------------------------------------------------------------------------
(***************************************************************************)
(* What Parse's sections do to a list of nodes.                            *)
(***************************************************************************)
\* The sets of nodes control can have.
NodeSets == {A \in SUBSET Node : IsFiniteSet(A) /\ Distinct(A)}

\* The fields of a node.
LEMMA NodeFields ==
    ASSUME NEW n \in Node
    PROVE  /\ n.nodeID \in NodeIDs /\ n.nodeKey \in NodeKeys /\ n.hostname \in Hosts
           /\ n.allowedIPs \in CIDRs /\ n.nodeID # 0
BY NetmapAssumption DEF Node

\* _UpsertPeer, if at most one entry has the ID or the key of x.
LEMMA UpsertListed ==
    ASSUME NEW A \in SUBSET Node, NEW l, Lists(l, A), NEW x \in Node, NEW M,
           M = {o \in A : o.nodeID = x.nodeID \/ o.nodeKey = x.nodeKey},
           \A o, p \in M : o = p
    PROVE  Lists(UpsertPeer(l, x), (A \ M) \cup {x})
<1> DEFINE at == {i \in DOMAIN l : (x.nodeID # 0 /\ l[i].nodeID = x.nodeID) \/ l[i].nodeKey = x.nodeKey}
           k == CHOOSE i \in at : \A j \in at : i <= j
<1>1. x.nodeID # 0
  BY NodeFields
<1>2. DOMAIN l = 1..Len(l) /\ l \in Seq(A) /\ Len(l) \in Nat
  BY DEF Lists
<1>3. \A i \in 1..Len(l) : l[i] \in A
  BY <1>2
<1>4. UpsertPeer(l, x) = IF at = {} THEN Append(l, x) ELSE [l EXCEPT ![k] = x]
  BY DEF UpsertPeer
<1>5. \A i \in 1..Len(l) : i \in at <=> l[i] \in M
  BY <1>1, <1>2, <1>3
<1>6. at \subseteq 1..Len(l)
  BY <1>2
<1> HIDE DEF at
<1>7. CASE at = {}
  <2>1. M = {}
    BY <1>5, <1>7 DEF Lists
  <2>2. x \notin A
    BY <2>1
  <2>3. A \ M = A
    BY <2>1
  <2> QED BY <1>4, <1>7, <2>2, <2>3, EntryAdded
<1>8. CASE at # {}
  <2>1. PICK i0 \in at : TRUE
    BY <1>8
  <2>2. \A j \in at : j = i0
    <3>1. SUFFICES ASSUME NEW j \in at PROVE j = i0
      OBVIOUS
    <3>2. j \in 1..Len(l) /\ i0 \in 1..Len(l) /\ l[j] \in M /\ l[i0] \in M
      BY <1>5, <1>6
    <3>3. l[j] = l[i0]
      BY <3>2
    <3> QED BY <3>2, <3>3 DEF Lists
  <2>3. \A j \in at : i0 <= j
    BY <1>6, <2>2
  <2>4. k \in at
    BY <2>1, <2>3
  <2> HIDE DEF k
  <2>5. k \in 1..Len(l) /\ l[k] \in M
    BY <1>5, <1>6, <2>4
  <2>6. M = {l[k]}
    BY <2>5
  <2>7. x \notin A \ {l[k]}
    BY <2>6
  <2>8. Lists([l EXCEPT ![k] = x], (A \ {l[k]}) \cup {x})
    BY <2>5, <2>7, EntryReplaced
  <2> QED BY <1>4, <1>8, <2>6, <2>8
<1> QED BY <1>7, <1>8

\* A set of natural numbers has a least one.
LEMMA LeastOf ==
    ASSUME NEW S, S \subseteq Nat, S # {}
    PROVE  \E i \in S : \A j \in S : i <= j
<1> DEFINE P == {n \in Nat : \A m \in Nat : m <= n => m \notin S}
<1>1. SUFFICES ASSUME \A i \in S : \E j \in S : ~ (i <= j) PROVE FALSE
  OBVIOUS
<1>2. 0 \in P
  <2>1. \A j \in S : 0 <= j
    OBVIOUS
  <2>2. 0 \notin S
    BY <1>1, <2>1
  <2> QED BY <2>2
<1>3. ASSUME NEW n \in Nat, n \in P PROVE n + 1 \in P
  <2>1. \A j \in S : n + 1 <= j
    <3>1. SUFFICES ASSUME NEW j \in S, ~ (n + 1 <= j) PROVE FALSE
      OBVIOUS
    <3>2. j \in Nat /\ j <= n
      BY <3>1
    <3> QED BY <1>3, <3>2
  <2>2. n + 1 \notin S
    BY <1>1, <2>1
  <2>3. \A m \in Nat : m <= n + 1 => m <= n \/ m = n + 1
    OBVIOUS
  <2> QED BY <1>3, <2>2, <2>3
<1>4. Nat \subseteq P
  <2> HIDE DEF P
  <2> QED BY <1>2, <1>3, NatSetInduction
<1>5. S = {}
  BY <1>4
<1> QED BY <1>5

\* The search for an ID finds the one entry that has it.
LEMMA FirstListed ==
    ASSUME NEW A \in SUBSET Node, NEW l, Lists(l, A), NEW id
    PROVE  LET k == FirstWithID(l, id)
           IN  \/ k = 0 /\ \A o \in A : o.nodeID # id
               \/ k \in 1..Len(l) /\ l[k] \in A /\ l[k].nodeID = id
<1> DEFINE at == {i \in DOMAIN l : l[i].nodeID = id}
           k == CHOOSE i \in at : \A j \in at : i <= j
<1>1. DOMAIN l = 1..Len(l) /\ l \in Seq(A) /\ Len(l) \in Nat
  BY DEF Lists
<1>2. \A i \in 1..Len(l) : l[i] \in A
  BY <1>1
<1>3. FirstWithID(l, id) = IF at = {} THEN 0 ELSE k
  BY DEF FirstWithID
<1>4. at \subseteq 1..Len(l) /\ at \subseteq Nat
  BY <1>1
<1>5. CASE at = {}
  <2>1. \A o \in A : o.nodeID # id
    BY <1>1, <1>5 DEF Lists
  <2> QED BY <1>3, <1>5, <2>1
<1>6. CASE at # {}
  <2>1. \E i \in at : \A j \in at : i <= j
    <3> HIDE DEF at
    <3> QED BY <1>4, <1>6, LeastOf
  <2>2. k \in at
    BY <2>1
  <2> HIDE DEF k
  <2>3. k \in 1..Len(l) /\ l[k].nodeID = id /\ l[k] \in A
    BY <1>2, <1>4, <2>2
  <2> QED BY <1>3, <1>6, <2>3
<1> QED BY <1>5, <1>6

\* The search for the ID of a node that is there finds that node.
LEMMA FirstOf ==
    ASSUME NEW A \in SUBSET Node, Distinct(A), NEW l, Lists(l, A), NEW o \in A
    PROVE  FirstWithID(l, o.nodeID) \in 1..Len(l) /\ l[FirstWithID(l, o.nodeID)] = o
<1> DEFINE id == o.nodeID
           k == FirstWithID(l, id)
<1>1. \/ k = 0 /\ \A p \in A : p.nodeID # id
      \/ k \in 1..Len(l) /\ l[k] \in A /\ l[k].nodeID = id
  <2> HIDE DEF id
  <2> QED BY FirstListed
<1> HIDE DEF k
<1>2. k \in 1..Len(l) /\ l[k] \in A /\ l[k].nodeID = o.nodeID
  BY <1>1
<1>3. l[k] = o
  BY <1>2 DEF Distinct
<1> QED BY <1>2, <1>3 DEF k

\* "PeersChangedPatch" with a node whose key is all that changed.
LEMMA PatchListed ==
    ASSUME NEW A \in SUBSET Node, Distinct(A), NEW l, Lists(l, A), NEW o \in A, NEW x,
           x = [o EXCEPT !.nodeKey = x.nodeKey], x \notin A \ {o}
    PROVE  Lists(PatchPeer(l, x), (A \ {o}) \cup {x})
<1> DEFINE k == FirstWithID(l, x.nodeID)
<1>1. o \in Node
  OBVIOUS
<1>2. x.nodeID = o.nodeID
  BY <1>1 DEF Node
<1>3. k \in 1..Len(l) /\ l[k] = o
  BY <1>2, FirstOf
<1> HIDE DEF k
<1>4. l[k] = o
  BY <1>3
<1>5. k # 0
  BY <1>3
<1>6. PatchPeer(l, x) = [l EXCEPT ![k].nodeKey = x.nodeKey]
  BY <1>5 DEF PatchPeer, k
<1>7. [l EXCEPT ![k].nodeKey = x.nodeKey] = [l EXCEPT ![k] = [l[k] EXCEPT !.nodeKey = x.nodeKey]]
  OBVIOUS
<1>8. [l[k] EXCEPT !.nodeKey = x.nodeKey] = x
  BY <1>4
<1>9. Lists([l EXCEPT ![k] = x], (A \ {o}) \cup {x})
  BY <1>3, <1>4, EntryReplaced
<1> QED BY <1>6, <1>7, <1>8, <1>9

\* "PeersRemoved".
LEMMA RemoveListed ==
    ASSUME NEW A \in SUBSET Node, Distinct(A), NEW l, Lists(l, A), NEW id
    PROVE  Lists(RemovePeer(l, id), {n \in A : n.nodeID # id})
<1> DEFINE k == FirstWithID(l, id)
<1>1. \/ k = 0 /\ \A o \in A : o.nodeID # id
      \/ k \in 1..Len(l) /\ l[k] \in A /\ l[k].nodeID = id
  BY FirstListed
<1>2. RemovePeer(l, id) = IF k = 0 THEN l ELSE RemoveAt(l, k)
  BY DEF RemovePeer
<1> HIDE DEF k
<1>3. CASE k = 0 /\ \A o \in A : o.nodeID # id
  <2>1. {n \in A : n.nodeID # id} = A
    BY <1>3
  <2> QED BY <1>2, <1>3, <2>1
<1>4. CASE k \in 1..Len(l) /\ l[k] \in A /\ l[k].nodeID = id
  <2>1. {n \in A : n.nodeID # id} = A \ {l[k]}
    BY <1>4 DEF Distinct
  <2>2. k # 0
    BY <1>4
  <2>3. Lists(RemoveAt(l, k), A \ {l[k]})
    BY <1>4, EntryRemoved
  <2> QED BY <1>2, <2>1, <2>2, <2>3
<1> QED BY <1>1, <1>3, <1>4

\* A section of one entry is one call, an empty one none.
LEMMA SectionsUnfold ==
    ASSUME NEW l, NEW s, Len(s) \in {0, 1}
    PROVE  /\ UpsertPeers(l, s) = IF Len(s) = 0 THEN l ELSE UpsertPeer(l, s[1])
           /\ PatchPeers(l, s) = IF Len(s) = 0 THEN l ELSE PatchPeer(l, s[1])
           /\ RemovePeers(l, s) = IF Len(s) = 0 THEN l ELSE RemovePeer(l, s[1])
<1> DEFINE n == Len(s)
<1>1. n = 0 \/ n = 1
  OBVIOUS
<1>2. UpsertPeers(l, s) = IF n = 0 THEN l ELSE UpsertPeer(l, s[1])
  <2> DEFINE Eq(f) == f = [i \in 0..n |-> IF i = 0 THEN l ELSE UpsertPeer(f[i - 1], s[i])]
             g == [i \in 0..n |-> IF i = 0 THEN l ELSE UpsertPeer(l, s[1])]
             h == CHOOSE f : Eq(f)
  <2>1. UpsertPeers(l, s) = h[n]
    BY DEF UpsertPeers
  <2>2. g = [i \in 0..n |-> IF i = 0 THEN l ELSE UpsertPeer(g[i - 1], s[i])]
    <3>1. \A i \in 0..n : i = 0 \/ i = 1
      BY <1>1
    <3>2. g[0] = l
      BY <1>1
    <3>3. 1 - 1 = 0
      OBVIOUS
    <3> HIDE DEF n
    <3>4. g = [i \in 0..n |-> IF i = 0 THEN l ELSE UpsertPeer(l, s[1])]
      OBVIOUS
    <3> HIDE DEF g
    <3>5. \A i \in 0..n : (IF i = 0 THEN l ELSE UpsertPeer(l, s[1]))
                            = (IF i = 0 THEN l ELSE UpsertPeer(g[i - 1], s[i]))
      BY <3>1, <3>2, <3>3
    <3> QED BY <3>4, <3>5
  <2>3. Eq(h)
    <3> HIDE DEF g
    <3>1. Eq(g)
      BY <2>2
    <3> HIDE DEF Eq
    <3> QED BY <3>1
  <2> HIDE DEF h
  <2>4. h = [i \in 0..n |-> IF i = 0 THEN l ELSE UpsertPeer(h[i - 1], s[i])]
    BY <2>3
  <2>5. CASE n = 0
    <3>1. h[0] = l
      BY <2>4, <2>5
    <3> QED BY <2>1, <2>5, <3>1
  <2>6. CASE n = 1
    <3>1. h[0] = l /\ h[1] = UpsertPeer(h[1 - 1], s[1])
      BY <2>4, <2>6
    <3> QED BY <2>1, <2>6, <3>1
  <2> QED BY <1>1, <2>5, <2>6
<1>3. PatchPeers(l, s) = IF n = 0 THEN l ELSE PatchPeer(l, s[1])
  <2> DEFINE Eq(f) == f = [i \in 0..n |-> IF i = 0 THEN l ELSE PatchPeer(f[i - 1], s[i])]
             g == [i \in 0..n |-> IF i = 0 THEN l ELSE PatchPeer(l, s[1])]
             h == CHOOSE f : Eq(f)
  <2>1. PatchPeers(l, s) = h[n]
    BY DEF PatchPeers
  <2>2. g = [i \in 0..n |-> IF i = 0 THEN l ELSE PatchPeer(g[i - 1], s[i])]
    <3>1. \A i \in 0..n : i = 0 \/ i = 1
      BY <1>1
    <3>2. g[0] = l
      BY <1>1
    <3>3. 1 - 1 = 0
      OBVIOUS
    <3> HIDE DEF n
    <3>4. g = [i \in 0..n |-> IF i = 0 THEN l ELSE PatchPeer(l, s[1])]
      OBVIOUS
    <3> HIDE DEF g
    <3>5. \A i \in 0..n : (IF i = 0 THEN l ELSE PatchPeer(l, s[1]))
                            = (IF i = 0 THEN l ELSE PatchPeer(g[i - 1], s[i]))
      BY <3>1, <3>2, <3>3
    <3> QED BY <3>4, <3>5
  <2>3. Eq(h)
    <3> HIDE DEF g
    <3>1. Eq(g)
      BY <2>2
    <3> HIDE DEF Eq
    <3> QED BY <3>1
  <2> HIDE DEF h
  <2>4. h = [i \in 0..n |-> IF i = 0 THEN l ELSE PatchPeer(h[i - 1], s[i])]
    BY <2>3
  <2>5. CASE n = 0
    <3>1. h[0] = l
      BY <2>4, <2>5
    <3> QED BY <2>1, <2>5, <3>1
  <2>6. CASE n = 1
    <3>1. h[0] = l /\ h[1] = PatchPeer(h[1 - 1], s[1])
      BY <2>4, <2>6
    <3> QED BY <2>1, <2>6, <3>1
  <2> QED BY <1>1, <2>5, <2>6
<1>4. RemovePeers(l, s) = IF n = 0 THEN l ELSE RemovePeer(l, s[1])
  <2> DEFINE Eq(f) == f = [i \in 0..n |-> IF i = 0 THEN l ELSE RemovePeer(f[i - 1], s[i])]
             g == [i \in 0..n |-> IF i = 0 THEN l ELSE RemovePeer(l, s[1])]
             h == CHOOSE f : Eq(f)
  <2>1. RemovePeers(l, s) = h[n]
    BY DEF RemovePeers
  <2>2. g = [i \in 0..n |-> IF i = 0 THEN l ELSE RemovePeer(g[i - 1], s[i])]
    <3>1. \A i \in 0..n : i = 0 \/ i = 1
      BY <1>1
    <3>2. g[0] = l
      BY <1>1
    <3>3. 1 - 1 = 0
      OBVIOUS
    <3> HIDE DEF n
    <3>4. g = [i \in 0..n |-> IF i = 0 THEN l ELSE RemovePeer(l, s[1])]
      OBVIOUS
    <3> HIDE DEF g
    <3>5. \A i \in 0..n : (IF i = 0 THEN l ELSE RemovePeer(l, s[1]))
                            = (IF i = 0 THEN l ELSE RemovePeer(g[i - 1], s[i]))
      BY <3>1, <3>2, <3>3
    <3> QED BY <3>4, <3>5
  <2>3. Eq(h)
    <3> HIDE DEF g
    <3>1. Eq(g)
      BY <2>2
    <3> HIDE DEF Eq
    <3> QED BY <3>1
  <2> HIDE DEF h
  <2>4. h = [i \in 0..n |-> IF i = 0 THEN l ELSE RemovePeer(h[i - 1], s[i])]
    BY <2>3
  <2>5. CASE n = 0
    <3>1. h[0] = l
      BY <2>4, <2>5
    <3> QED BY <2>1, <2>5, <3>1
  <2>6. CASE n = 1
    <3>1. h[0] = l /\ h[1] = RemovePeer(h[1 - 1], s[1])
      BY <2>4, <2>6
    <3> QED BY <2>1, <2>6, <3>1
  <2> QED BY <1>1, <2>5, <2>6
<1> QED BY <1>2, <1>3, <1>4

\* What a set of nodes of control's is.
LEMMA NodeSetIs ==
    ASSUME NEW A \in NodeSets
    PROVE  A \in SUBSET Node /\ IsFiniteSet(A) /\ Distinct(A)
BY DEF NodeSets

\* The lists a message carries, of nothing or of one.
LEMMA SectionOf ==
    /\ Len(SetToSeq({})) = 0
    /\ \A x : Len(SetToSeq({x})) = 1 /\ SetToSeq({x})[1] = x
<1>1. Lists(SetToSeq({}), {})
  BY FS_EmptySet, SetListed
<1>2. SetToSeq({}) = <<>>
  BY <1>1, EmptyListed
<1>3. ASSUME NEW x PROVE Len(SetToSeq({x})) = 1 /\ SetToSeq({x})[1] = x
  <2>1. IsFiniteSet({x})
    BY FS_Singleton
  <2>2. Lists(SetToSeq({x}), {x})
    <3> DEFINE A == {x}
    <3>1. IsFiniteSet(A)
      BY <2>1
    <3> HIDE DEF A
    <3>2. Lists(SetToSeq(A), A)
      BY <3>1, SetListed
    <3> QED BY <3>2 DEF A
  <2> QED BY <2>2, OneListed
<1> QED BY <1>2, <1>3

AtMostOne(S) == \A i, j \in S : i = j
Without(A, R) == {n \in A : n.nodeID \notin R}
GoneIDs(old, new) == IDs(old) \ IDs(new)

\* The last section, with at most one ID.
LEMMA SectionRemoves ==
    ASSUME NEW Q \in SUBSET Node, Distinct(Q), NEW l, Lists(l, Q), NEW R,
           AtMostOne(R)
    PROVE  Lists(RemovePeers(l, SetToSeq(R)), Without(Q, R))
<1>1. CASE R = {}
  <2>1. Without(Q, R) = Q
    BY <1>1 DEF Without
  <2>2. RemovePeers(l, SetToSeq({})) = l
    BY SectionOf, SectionsUnfold
  <2> QED BY <1>1, <2>1, <2>2
<1>2. CASE R # {}
  <2>1. PICK id \in R : TRUE
    BY <1>2
  <2>2. R = {id}
    BY <2>1 DEF AtMostOne
  <2>3. RemovePeers(l, SetToSeq({id})) = RemovePeer(l, id)
    <3> DEFINE s == SetToSeq({id})
    <3>1. Len(s) = 1 /\ s[1] = id
      BY SectionOf, Zenon
    <3> HIDE DEF s
    <3>2. RemovePeers(l, s) = RemovePeer(l, id)
      BY <3>1, SectionsUnfold
    <3> QED BY <3>2 DEF s
  <2>4. Without(Q, R) = {n \in Q : n.nodeID # id}
    BY <2>2 DEF Without
  <2>5. Lists(RemovePeer(l, id), {n \in Q : n.nodeID # id})
    BY RemoveListed
  <2> QED BY <2>2, <2>3, <2>4, <2>5
<1> QED BY <1>1, <1>2

\* A node of a set with distinct IDs is no patch of it.
LEMMA NoPatch ==
    ASSUME NEW A \in NodeSets, NEW n \in A
    PROVE  ~ Patchable(A, n)
<1>1. SUFFICES ASSUME NEW o \in A, n # o, [o EXCEPT !.nodeKey = n.nodeKey] = n PROVE FALSE
  BY DEF Patchable
<1>2. o \in Node /\ Distinct(A)
  BY NodeSetIs
<1>3. [o EXCEPT !.nodeKey = n.nodeKey].nodeID = o.nodeID
  BY <1>2 DEF Node
<1>4. n.nodeID = o.nodeID
  BY <1>1, <1>3
<1> QED BY <1>1, <1>2, <1>4 DEF Distinct

\* What a node x takes the place of.
SameNode(A, x) == {o \in A : o.nodeID = x.nodeID \/ o.nodeKey = x.nodeKey}

\* A change: the nodes of A but those of G, and, with a node x, x.
Left(A, G) == A \ G
Joined(A, G, x) == {n \in A \ G : n.nodeID # x.nodeID} \cup {x}

\* The set with x in the place of what it takes it of.
Replaced(A, x) == (A \ SameNode(A, x)) \cup {x}

\* What a change's first two sections make of a list.
ChangedAndPatched(l, old, new, patched) ==
    PatchPeers(UpsertPeers(l, SetToSeq(new \ (old \cup patched))), SetToSeq(patched))

\* At most one node has the ID or the key of x.
LEMMA OneSameNode ==
    ASSUME NEW old \in NodeSets, NEW G, NEW x \in Node,
           Rotates(old, Joined(old, G, x))
    PROVE  AtMostOne(SameNode(old, x))
<1>1. Distinct(old)
  BY NodeSetIs
<1>2. x \in Joined(old, G, x)
  BY DEF Joined
<1>3. \A o \in old : x.nodeID = o.nodeID => x.nodeKey = o.nodeKey \/ x.nodeKey \notin Keys(old)
  BY <1>2 DEF Rotates
<1>4. \A p \in old : p.nodeKey \in Keys(old)
  BY DEF Keys
<1> QED BY <1>1, <1>3, <1>4 DEF Distinct, SameNode, AtMostOne

\* Once x is in the place of the node it is, the IDs to be removed are all
\* that is left of the change.
LEMMA JoinedAtLast ==
    ASSUME NEW old \in NodeSets, NEW G, AtMostOne(G), NEW x \in Node,
           NEW new \in NodeSets, new = Joined(old, G, x), Rotates(old, new)
    PROVE  /\ Replaced(old, x) \in SUBSET Node /\ Distinct(Replaced(old, x))
           /\ AtMostOne(GoneIDs(old, new))
           /\ Without(Replaced(old, x), GoneIDs(old, new)) = new
<1> DEFINE M == SameNode(old, x)
           Q == (old \ M) \cup {x}
           R == IDs(old) \ IDs(new)
<1>1. Distinct(old) /\ Distinct(new) /\ old \in SUBSET Node
  BY NodeSetIs
<1>2. Q \in SUBSET Node
  BY <1>1
<1>3. \A n \in old : n \in M <=> n.nodeID = x.nodeID \/ n.nodeKey = x.nodeKey
  BY DEF SameNode
<1>4. \A n : n \in new <=> n = x \/ (n \in old /\ n \notin G /\ n.nodeID # x.nodeID)
  BY DEF Joined
<1>5. \A n \in new : n.nodeID \in IDs(new)
  BY DEF IDs
<1>6. \A n \in old : n.nodeID \in IDs(old)
  BY DEF IDs
<1>7. \A i \in R : \E o \in old : i = o.nodeID /\ \A n \in new : n.nodeID # i
  BY DEF IDs
<1>8. \A i \in IDs(new) : \E n \in new : i = n.nodeID
  BY DEF IDs
<1>9. \A n \in Q : n.nodeID \in R <=> n.nodeID \in IDs(old) /\ n.nodeID \notin IDs(new)
  OBVIOUS
<1>10. \A n : n \in Q <=> n = x \/ (n \in old /\ n \notin M)
  OBVIOUS
<1> HIDE DEF M, Q, R
<1>11. Distinct(Q)
  <2>1. SUFFICES ASSUME NEW a \in Q, NEW b \in Q, a.nodeID = b.nodeID \/ a.nodeKey = b.nodeKey
                 PROVE  a = b
    BY DEF Distinct
  <2>2. CASE a = x /\ b = x
    BY <2>2
  <2>3. CASE a = x /\ b # x
    BY <1>3, <1>10, <2>1, <2>3
  <2>4. CASE a # x /\ b = x
    BY <1>3, <1>10, <2>1, <2>4
  <2>5. CASE a # x /\ b # x
    BY <1>1, <1>10, <2>1, <2>5 DEF Distinct
  <2> QED BY <2>2, <2>3, <2>4, <2>5
<1>12. \A i \in R : \E o \in G : i = o.nodeID
  BY <1>4, <1>7
<1>13. AtMostOne(R)
  BY <1>12 DEF AtMostOne
<1>14. ASSUME NEW n PROVE (n \in Q /\ n.nodeID \notin R) <=> n \in new
  <2>1. CASE n = x
    BY <1>4, <1>5, <1>9, <1>10, <2>1
  <2>2. CASE n # x /\ n \in new
    <3>1. n \in old /\ n.nodeID # x.nodeID /\ n.nodeKey # x.nodeKey
      BY <1>1, <1>4, <2>2 DEF Distinct
    <3>2. n \in Q
      BY <1>3, <1>10, <3>1
    <3> QED BY <1>5, <1>9, <2>2, <3>2
  <2>3. CASE n # x /\ n \notin new
    <3>1. SUFFICES ASSUME n \in Q, n.nodeID \notin R PROVE FALSE
      BY <2>3
    <3>2. n \in old /\ n \notin M
      BY <1>10, <2>3, <3>1
    <3>3. n.nodeID \in IDs(new)
      BY <1>6, <1>9, <3>1, <3>2
    <3>4. PICK p \in new : p.nodeID = n.nodeID
      BY <1>8, <3>3
    <3>5. p # x
      BY <1>3, <3>2, <3>4
    <3>6. p = n
      BY <1>1, <1>4, <3>2, <3>4, <3>5 DEF Distinct
    <3> QED BY <2>3, <3>6
  <2> QED BY <2>1, <2>2, <2>3
<1>15. Without(Q, R) = new
  BY <1>14 DEF Without
<1>16. Q = Replaced(old, x) /\ R = GoneIDs(old, new)
  BY DEF Q, R, M, Replaced, GoneIDs
<1> QED BY <1>2, <1>11, <1>13, <1>15, <1>16

\* What a message's first two sections do, if they are about x.
LEMMA SectionsJoin ==
    ASSUME NEW old \in NodeSets, NEW G, NEW x \in Node,
           NEW new, new = Joined(old, G, x), Rotates(old, new),
           NEW patched, patched \subseteq {n \in new : Patchable(old, n)},
           NEW l, Lists(l, old)
    PROVE  Lists(ChangedAndPatched(l, old, new, patched), Replaced(old, x))
<1> DEFINE C == new \ (old \cup patched)
           M == SameNode(old, x)
<1>1. Distinct(old) /\ old \in SUBSET Node
  BY NodeSetIs
<1>2. \A n : n \in new <=> n = x \/ (n \in old /\ n \notin G /\ n.nodeID # x.nodeID)
  BY DEF Joined
<1>3. \A n \in old : n \notin patched
  BY NoPatch
<1>4. \A n \in patched : n = x
  BY <1>2, <1>3
<1>5. \A n \in C : n = x
  BY <1>2
<1>6. \A o, p \in M : o = p
  BY OneSameNode DEF AtMostOne
<1>7. \A k : UpsertPeers(k, SetToSeq({})) = k /\ PatchPeers(k, SetToSeq({})) = k
  <2> DEFINE s == SetToSeq({})
  <2>1. Len(s) = 0
    BY SectionOf
  <2> HIDE DEF s
  <2>2. \A k : UpsertPeers(k, s) = k /\ PatchPeers(k, s) = k
    BY <2>1, SectionsUnfold
  <2> QED BY <2>2 DEF s
<1>8. \A k : /\ UpsertPeers(k, SetToSeq({x})) = UpsertPeer(k, x)
             /\ PatchPeers(k, SetToSeq({x})) = PatchPeer(k, x)
  <2> DEFINE s == SetToSeq({x})
  <2>1. Len(s) = 1 /\ s[1] = x
    BY SectionOf, Zenon
  <2> HIDE DEF s
  <2>2. \A k : UpsertPeers(k, s) = UpsertPeer(k, x) /\ PatchPeers(k, s) = PatchPeer(k, x)
    BY <2>1, SectionsUnfold
  <2> QED BY <2>2 DEF s
<1>9. CASE x \in old
  <2>1. C = {} /\ patched = {}
    BY <1>3, <1>4, <1>5, <1>9
  <2>2. M = {x}
    BY <1>6, <1>9 DEF SameNode
  <2>3. (old \ M) \cup {x} = old
    BY <1>9, <2>2
  <2>4. PatchPeers(UpsertPeers(l, SetToSeq(C)), SetToSeq(patched)) = l
    <3> HIDE DEF C
    <3> QED BY <1>7, <2>1
  <2> QED BY <2>3, <2>4 DEF Replaced, ChangedAndPatched
<1>10. CASE x \notin old /\ x \in patched
  <2>1. C = {} /\ patched = {x}
    BY <1>4, <1>5, <1>10
  <2>2. PICK o \in old : x # o /\ [o EXCEPT !.nodeKey = x.nodeKey] = x
    BY <1>10 DEF Patchable
  <2>3. o \in Node
    BY <1>1
  <2>4. [o EXCEPT !.nodeKey = x.nodeKey].nodeID = o.nodeID
    BY <2>3 DEF Node
  <2>5. o \in M
    BY <2>2, <2>4 DEF SameNode
  <2>6. M = {o}
    BY <1>6, <2>5
  <2>7. x \notin old \ {o}
    BY <1>10
  <2>8. x = [o EXCEPT !.nodeKey = x.nodeKey]
    BY <2>2
  <2> HIDE DEF M, C
  <2>9. Lists(PatchPeer(l, x), (old \ {o}) \cup {x})
    BY <1>1, <2>7, <2>8, PatchListed
  <2>10. PatchPeers(UpsertPeers(l, SetToSeq(C)), SetToSeq(patched)) = PatchPeer(l, x)
    BY <1>7, <1>8, <2>1
  <2> QED BY <2>6, <2>9, <2>10 DEF M, C, Replaced, ChangedAndPatched
<1>11. CASE x \notin old /\ x \notin patched
  <2>1. patched = {}
    BY <1>4, <1>11
  <2>2. x \in C
    BY <1>2, <1>11
  <2>3. C = {x}
    BY <1>5, <2>2
  <2>4. M = {o \in old : o.nodeID = x.nodeID \/ o.nodeKey = x.nodeKey}
    BY DEF SameNode
  <2> HIDE DEF M, C
  <2>5. Lists(UpsertPeer(l, x), (old \ M) \cup {x})
    BY <1>1, <1>6, <2>4, UpsertListed
  <2>6. PatchPeers(UpsertPeers(l, SetToSeq(C)), SetToSeq(patched)) = UpsertPeer(l, x)
    BY <1>7, <1>8, <2>1, <2>3
  <2> QED BY <2>5, <2>6 DEF M, C, Replaced, ChangedAndPatched
<1> QED BY <1>9, <1>10, <1>11

\* A message that carries no node is about the nodes of G only.
LEMMA SectionsLeave ==
    ASSUME NEW old \in NodeSets, NEW G, AtMostOne(G),
           NEW new, new = Left(old, G),
           NEW patched, patched \subseteq {n \in new : Patchable(old, n)},
           NEW l, Lists(l, old)
    PROVE  /\ ChangedAndPatched(l, old, new, patched) = l
           /\ AtMostOne(GoneIDs(old, new))
           /\ Without(old, GoneIDs(old, new)) = new
<1> new = old \ G
  BY DEF Left
<1>1. Distinct(old) /\ old \in SUBSET Node
  BY NodeSetIs
<1>2. patched = {}
  BY NoPatch
<1>3. new \ (old \cup patched) = {}
  OBVIOUS
<1>4. \A k : UpsertPeers(k, SetToSeq({})) = k /\ PatchPeers(k, SetToSeq({})) = k
  <2> DEFINE s == SetToSeq({})
  <2>1. Len(s) = 0
    BY SectionOf
  <2> HIDE DEF s
  <2>2. \A k : UpsertPeers(k, s) = k /\ PatchPeers(k, s) = k
    BY <2>1, SectionsUnfold
  <2> QED BY <2>2 DEF s
<1>5. ChangedAndPatched(l, old, new, patched) = l
  <2> DEFINE C == new \ (old \cup patched)
  <2>1. C = {}
    BY <1>3
  <2> HIDE DEF C
  <2>2. PatchPeers(UpsertPeers(l, SetToSeq(C)), SetToSeq(patched)) = l
    BY <1>2, <1>4, <2>1
  <2> QED BY <2>2 DEF C, ChangedAndPatched
<1> DEFINE R == IDs(old) \ IDs(new)
<1>6. \A i \in R : \E o \in old : i = o.nodeID /\ \A n \in new : n.nodeID # i
  BY DEF IDs
<1>7. \A n \in old : n.nodeID \in R <=> \A p \in new : p.nodeID # n.nodeID
  BY DEF IDs
<1> HIDE DEF R
<1>8. \A i \in R : \E o \in G : i = o.nodeID
  BY <1>6
<1>9. AtMostOne(R)
  BY <1>8 DEF AtMostOne
<1>10. Without(old, R) = new
  BY <1>1, <1>7 DEF Distinct, Without
<1> QED BY <1>5, <1>9, <1>10 DEF R, GoneIDs

-----------------------------------------------------------------------------
(***************************************************************************)
(* The stream as a run: each message leads from one set of nodes to the    *)
(* next, and reading it does the same to the list of them.                 *)
(***************************************************************************)
MapMessage ==
    {Snapshot(A) : A \in NodeSets}
    \cup {ChangeMessage(A, B, P) : A \in NodeSets, B \in NodeSets, P \in SUBSET Node}

ChangesBy(old, m, new) ==
    /\ Rotates(old, new)
    /\ \E G \in {{}} \cup {{n} : n \in old} :
          new = Left(old, G) \/ \E x \in Node : new = Joined(old, G, x)
    /\ \E patched \in SUBSET {n \in new : Patchable(old, n)} : m = ChangeMessage(old, new, patched)

MapSteps == {s \in NodeSets \X MapMessage \X NodeSets :
                s[2] = Snapshot(s[3]) \/ ChangesBy(s[1], s[2], s[3])}

\* What a step along the stream is.
LEMMA MapStepIs ==
    ASSUME NEW old, NEW m, NEW new
    PROVE  <<old, m, new>> \in MapSteps <=>
              /\ old \in NodeSets /\ m \in MapMessage /\ new \in NodeSets
              /\ m = Snapshot(new) \/ ChangesBy(old, m, new)
BY DEF MapSteps

\* Reading a snapshot.
LEMMA ParseSnapshot ==
    ASSUME NEW new \in NodeSets, NEW l
    PROVE  Lists(Parse(l, Snapshot(new)), new)
<1> DEFINE m == Snapshot(new)
<1>1. /\ m.peers = TRUE /\ m.snapshot = SetToSeq(new)
      /\ m.changed = <<>> /\ m.patch = <<>> /\ m.removed = <<>>
  BY DEF Snapshot, NoMessage
<1> HIDE DEF m
<1>2. \A k : UpsertPeers(k, <<>>) = k /\ PatchPeers(k, <<>>) = k /\ RemovePeers(k, <<>>) = k
  <2>1. Len(<<>>) = 0
    OBVIOUS
  <2> QED BY <2>1, SectionsUnfold
<1>3. Parse(l, m) = SetToSeq(new)
  BY <1>1, <1>2 DEF Parse
<1>4. Lists(SetToSeq(new), new)
  BY NodeSetIs, SetListed
<1> QED BY <1>3, <1>4 DEF m

\* Reading a change.
LEMMA ParseChange ==
    ASSUME NEW old \in NodeSets, NEW new \in NodeSets, NEW m, ChangesBy(old, m, new),
           NEW l, Lists(l, old)
    PROVE  Lists(Parse(l, m), new)
<1>1. PICK patched \in SUBSET {n \in new : Patchable(old, n)} : m = ChangeMessage(old, new, patched)
  BY DEF ChangesBy
<1>2. PICK G \in {{}} \cup {{n} : n \in old} :
          new = Left(old, G) \/ \E x \in Node : new = Joined(old, G, x)
  BY DEF ChangesBy
<1>3. AtMostOne(G)
  BY DEF AtMostOne
<1>4. Rotates(old, new) /\ patched \subseteq {n \in new : Patchable(old, n)}
  BY DEF ChangesBy
<1> DEFINE p == ChangedAndPatched(l, old, new, patched)
           R == GoneIDs(old, new)
<1>5. Parse(l, m) = RemovePeers(p, SetToSeq(R))
  <2> DEFINE C == SetToSeq(new \ (old \cup patched))
             P == SetToSeq(patched)
  <2>1. m.peers = FALSE /\ m.changed = C /\ m.patch = P /\ m.removed = SetToSeq(R)
    BY <1>1 DEF ChangeMessage, NoMessage, GoneIDs
  <2>2. p = PatchPeers(UpsertPeers(l, C), P)
    BY DEF ChangedAndPatched
  <2> HIDE DEF C, P, R, p
  <2> QED BY <2>1, <2>2 DEF Parse
<1>6. CASE new = Left(old, G)
  <2>1. p = l /\ AtMostOne(R) /\ Without(old, R) = new
    BY <1>3, <1>4, <1>6, SectionsLeave
  <2>2. Distinct(old) /\ old \in SUBSET Node
    BY NodeSetIs
  <2> HIDE DEF p, R
  <2>3. Lists(RemovePeers(l, SetToSeq(R)), Without(old, R))
    BY <2>1, <2>2, SectionRemoves
  <2> QED BY <1>5, <2>1, <2>3
<1>7. CASE \E x \in Node : new = Joined(old, G, x)
  <2>1. PICK x \in Node : new = Joined(old, G, x)
    BY <1>7
  <2> DEFINE Q == Replaced(old, x)
  <2>2. Lists(p, Q)
    BY <1>4, <2>1, SectionsJoin
  <2>3. Q \in SUBSET Node /\ Distinct(Q) /\ AtMostOne(R) /\ Without(Q, R) = new
    BY <1>3, <1>4, <2>1, JoinedAtLast
  <2> HIDE DEF p, R, Q
  <2>4. Lists(RemovePeers(p, SetToSeq(R)), Without(Q, R))
    BY <2>2, <2>3, SectionRemoves
  <2> QED BY <1>5, <2>3, <2>4
<1> QED BY <1>2, <1>6, <1>7

\* Parse takes a list of the nodes before a message to one of the nodes after it.
LEMMA ParseFollows ==
    ASSUME NEW old, NEW m, NEW new, <<old, m, new>> \in MapSteps, NEW l, Lists(l, old)
    PROVE  Lists(Parse(l, m), new)
<1>1. old \in NodeSets /\ new \in NodeSets /\ (m = Snapshot(new) \/ ChangesBy(old, m, new))
  BY MapStepIs
<1> QED BY <1>1, ParseSnapshot, ParseChange

-----------------------------------------------------------------------------
(***************************************************************************)
(* The inductive invariant: what is still under way leads from the nodes   *)
(* the map lists to control's.                                             *)
(***************************************************************************)
ControlKnown(known) ==
    Lists(fPeers, known) /\ Run(MapSteps, NodeSets, stream, known, tailnet)

MapInv ==
    /\ tailnet \in NodeSets /\ stream \in Seq(MapMessage)
    /\ \E known \in NodeSets : ControlKnown(known)

\* A snapshot leads from whatever the client knows to control's nodes.
LEMMA SnapshotRun ==
    ASSUME NEW known \in NodeSets, NEW A \in NodeSets
    PROVE  <<Snapshot(A)>> \in Seq(MapMessage) /\ Run(MapSteps, NodeSets, <<Snapshot(A)>>, known, A)
<1>1. Snapshot(A) \in MapMessage
  BY DEF MapMessage
<1>2. <<known, Snapshot(A), A>> \in MapSteps
  BY <1>1, MapStepIs
<1> DEFINE c == Snapshot(A)
<1> HIDE DEF c
<1>3. c \in MapMessage /\ <<known, c, A>> \in MapSteps
  BY <1>1, <1>2 DEF c
<1>4. <<c>> \in Seq(MapMessage) /\ Run(MapSteps, NodeSets, <<c>>, known, A)
  BY <1>3, RunOne
<1> QED BY <1>4 DEF c

\* Before anything is read the map lists nothing, and nothing is all there is.
LEMMA MapStart == NetmapInit => MapInv
<1> SUFFICES ASSUME NetmapInit PROVE MapInv
  OBVIOUS
<1>1. {} \in NodeSets
  BY FS_EmptySet DEF NodeSets, Distinct
<1>2. Lists(<<>>, {})
  BY EmptyListed
<1>3. ControlKnown({})
  BY <1>1, <1>2, SnapshotRun DEF ControlKnown, NetmapInit
<1> QED BY <1>1, <1>3, SnapshotRun DEF MapInv, NetmapInit

\* One more message of control's.
LEMMA MessageSent ==
    ASSUME MapInv, TailnetChanges
    PROVE  MapInv'
<1>1. PICK gone \in {{}} \cup {{n} : n \in tailnet}, x \in Node \cup {[nodeID |-> 0]} :
        LET kept  == {n \in tailnet \ gone : n.nodeID # x.nodeID}
            nodes == IF x.nodeID = 0 THEN kept ELSE kept \cup {x}
        IN  /\ nodes # tailnet
            /\ Distinct(nodes) /\ Rotates(tailnet, nodes)
            /\ tailnet' = nodes
            /\ \E patched \in SUBSET {n \in nodes : Patchable(tailnet, n)} :
                stream' = Append(stream, ChangeMessage(tailnet, nodes, patched))
  BY DEF TailnetChanges
<1> DEFINE new == tailnet'
<1>2. Distinct(new) /\ Rotates(tailnet, new)
  BY <1>1
<1>3. PICK patched \in SUBSET {n \in new : Patchable(tailnet, n)} :
          stream' = Append(stream, ChangeMessage(tailnet, new, patched))
  BY <1>1
<1>4. tailnet \in NodeSets /\ tailnet \in SUBSET Node /\ IsFiniteSet(tailnet)
  BY NodeSetIs DEF MapInv
<1>5. new = Left(tailnet, gone) \/ (x \in Node /\ new = Joined(tailnet, gone, x))
  <2>1. CASE x \in Node
    <3>1. x.nodeID # 0
      BY <2>1, NodeFields
    <3> QED BY <1>1, <2>1, <3>1 DEF Joined
  <2>2. CASE x = [nodeID |-> 0]
    <3>1. x.nodeID = 0
      BY <2>2
    <3>2. new = {n \in tailnet \ gone : n.nodeID # 0}
      BY <1>1, <3>1
    <3>3. \A n \in tailnet : n.nodeID # 0
      BY <1>4, NodeFields
    <3> QED BY <3>2, <3>3 DEF Left
  <2> QED BY <2>1, <2>2
<1>6. new \in NodeSets
  <2>1. new \in SUBSET Node
    BY <1>4, <1>5 DEF Joined, Left
  <2>2. IsFiniteSet(new)
    <3>1. IsFiniteSet(tailnet \cup {x})
      BY <1>4, FS_AddElement
    <3>2. new \subseteq tailnet \cup {x}
      BY <1>5 DEF Joined, Left
    <3> QED BY <3>1, <3>2, FS_Subset
  <2> QED BY <1>2, <2>1, <2>2 DEF NodeSets
<1> DEFINE m == ChangeMessage(tailnet, new, patched)
<1>7. ChangesBy(tailnet, m, new)
  <2>1. new = Left(tailnet, gone) \/ \E y \in Node : new = Joined(tailnet, gone, y)
    BY <1>5
  <2> QED BY <1>2, <2>1 DEF ChangesBy
<1>8. m \in MapMessage
  <2>1. patched \in SUBSET Node
    BY <1>6, NodeSetIs
  <2> QED BY <1>4, <1>6, <2>1 DEF MapMessage
<1>9. <<tailnet, m, new>> \in MapSteps
  BY <1>4, <1>6, <1>7, <1>8, MapStepIs
<1> HIDE DEF m, new
<1>10. stream \in Seq(MapMessage)
  BY DEF MapInv
<1>11. stream' = stream \o <<m>> /\ <<m>> \in Seq(MapMessage)
  BY <1>3, <1>8, <1>10 DEF m
<1>12. PICK known \in NodeSets : Lists(fPeers, known) /\ Run(MapSteps, NodeSets, stream, known, tailnet)
  BY DEF MapInv, ControlKnown
<1>13. Run(MapSteps, NodeSets, <<m>>, tailnet, new)
  BY <1>4, <1>6, <1>9, RunOne
<1>14. Run(MapSteps, NodeSets, stream \o <<m>>, known, new)
  BY <1>10, <1>11, <1>12, <1>13, RunCat
<1>15. stream' \in Seq(MapMessage)
  BY <1>8, <1>10, <1>11
<1>16. fPeers' = fPeers
  BY DEF TailnetChanges
<1>17. Run(MapSteps, NodeSets, stream', known, tailnet')
  BY <1>11, <1>14 DEF new
<1>18. ControlKnown(known)'
  BY <1>12, <1>16, <1>17 DEF ControlKnown
<1>19. tailnet' \in NodeSets
  BY <1>6 DEF new
<1> QED BY <1>15, <1>18, <1>19 DEF MapInv

\* The next message read.
LEMMA MessageApplied ==
    ASSUME MapInv, ApplyMapResponse
    PROVE  MapInv'
<1> DEFINE m == Head(stream)
           rest == Tail(stream)
<1>1. stream \in Seq(MapMessage) /\ stream # <<>>
  BY DEF MapInv, ApplyMapResponse
<1>2. m \in MapMessage /\ rest \in Seq(MapMessage) /\ stream = <<m>> \o rest
  BY <1>1
<1>3. fPeers' = Parse(fPeers, m) /\ stream' = rest /\ tailnet' = tailnet
  BY DEF ApplyMapResponse
<1> HIDE DEF m, rest
<1>4. PICK known \in NodeSets : Lists(fPeers, known) /\ Run(MapSteps, NodeSets, stream, known, tailnet)
  BY DEF MapInv, ControlKnown
<1>5. <<m>> \in Seq(MapMessage) /\ Run(MapSteps, NodeSets, <<m>> \o rest, known, tailnet)
  BY <1>2, <1>4
<1>6. PICK next \in NodeSets :
          Run(MapSteps, NodeSets, <<m>>, known, next) /\ Run(MapSteps, NodeSets, rest, next, tailnet)
  BY <1>2, <1>5, RunParts
<1>7. <<known, m, next>> \in MapSteps
  BY <1>6, RunOne
<1>8. Lists(Parse(fPeers, m), next)
  BY <1>4, <1>7, ParseFollows
<1>9. ControlKnown(next)'
  BY <1>3, <1>6, <1>8 DEF ControlKnown
<1>10. tailnet' \in NodeSets /\ stream' \in Seq(MapMessage)
  BY <1>2, <1>3 DEF MapInv
<1> QED BY <1>9, <1>10 DEF MapInv

\* Every step keeps the map on control's way.
LEMMA MapStep == MapInv /\ [NetmapNext]_mapVars => MapInv'
<1> SUFFICES ASSUME MapInv, [NetmapNext]_mapVars PROVE MapInv'
  OBVIOUS
<1>1. ASSUME UNCHANGED <<tailnet, stream, fPeers>> PROVE MapInv'
  BY <1>1 DEF MapInv, ControlKnown
<1>2. CASE SessionUp
  BY <1>1, <1>2 DEF SessionUp
<1>3. CASE TailnetChanges
  BY <1>3, MessageSent
<1>4. CASE StreamReopened
  <2>1. PICK known \in NodeSets : Lists(fPeers, known)
    BY DEF MapInv, ControlKnown
  <2>2. tailnet \in NodeSets
    BY DEF MapInv
  <2>3. stream' = <<Snapshot(tailnet)>> /\ tailnet' = tailnet /\ fPeers' = fPeers
    BY <1>4 DEF StreamReopened
  <2>4. stream' \in Seq(MapMessage) /\ Run(MapSteps, NodeSets, stream', known, tailnet')
    BY <2>2, <2>3, SnapshotRun
  <2>5. ControlKnown(known)'
    BY <2>1, <2>3, <2>4 DEF ControlKnown
  <2> QED BY <2>2, <2>3, <2>4, <2>5 DEF MapInv
<1>5. CASE ApplyMapResponse
  BY <1>5, MessageApplied
<1>6. CASE UNCHANGED mapVars
  BY <1>1, <1>6 DEF mapVars
<1> QED BY <1>2, <1>3, <1>4, <1>5, <1>6 DEF NetmapNext

\* With nothing under way the map is control's.
LEMMA MapInvFollows == MapInv => MapFollowsControl
<1> SUFFICES ASSUME MapInv, stream = <<>>
             PROVE  ToSet(fPeers) = tailnet /\ Len(fPeers) = Cardinality(tailnet)
  BY DEF MapFollowsControl
<1>1. PICK known \in NodeSets : Lists(fPeers, known) /\ Run(MapSteps, NodeSets, <<>>, known, tailnet)
  BY DEF MapInv, ControlKnown
<1>2. known = tailnet
  BY <1>1, RunEmpty
<1> QED BY <1>1, <1>2, ListedSet

NetmapSpec == NetmapInit /\ [][NetmapNext]_mapVars

\* Once the stream is read to its end, TSNetmap's list holds each of control's
\* nodes, once, and nothing else: for every number of messages under way, every
\* point at which the connection breaks, every tailnet (Parse).
THEOREM MapAlwaysFollowsControl == NetmapSpec => []MapFollowsControl
BY MapStart, MapStep, MapInvFollows, PTL DEF NetmapSpec

-----------------------------------------------------------------------------
(***************************************************************************)
(* What is derived from the map.                                           *)
(***************************************************************************)
\* A loop of n steps has a value after each of them.
LoopOf(g, n, V, a, F) ==
    g \in [0..n -> V] /\ g[0] = a /\ \A i \in 1..n : g[i] = F[i][g[i - 1]]

\* There is such a loop for every first value and every step.
LEMMA LoopExists ==
    ASSUME NEW n \in Nat, NEW V, NEW a \in V, NEW F \in [1..n -> [V -> V]]
    PROVE  \E g : LoopOf(g, n, V, a, F)
<1> DEFINE Good(g, k) == g \in [0..k -> V] /\ g[0] = a /\ \A i \in 1..k : g[i] = F[i][g[i - 1]]
           S == {k \in 0..n : \E g : Good(g, k)}
<1>1. 0 \in S
  <2>1. Good([i \in 0..0 |-> a], 0)
    OBVIOUS
  <2>2. 0 \in 0..n
    OBVIOUS
  <2> HIDE DEF Good
  <2> QED BY <2>1, <2>2
<1>2. ASSUME NEW k \in 0..(n - 1), k \in S PROVE k + 1 \in S
  <2>1. PICK g : Good(g, k)
    BY <1>2
  <2> DEFINE h == [i \in 0..(k + 1) |-> IF i = k + 1 THEN F[k + 1][g[k]] ELSE g[i]]
  <2>2. k \in Nat /\ k + 1 \in 1..n /\ k + 1 \in 0..n
    BY <1>2
  <2>3. F[k + 1] \in [V -> V] /\ g[k] \in V
    BY <2>1, <2>2
  <2>4. F[k + 1][g[k]] \in V
    BY <2>3
  <2>5. h \in [0..(k + 1) -> V]
    BY <2>1, <2>2, <2>4
  <2>6. h[0] = a
    BY <2>1, <2>2
  <2>7. ASSUME NEW i \in 1..(k + 1) PROVE h[i] = F[i][h[i - 1]]
    <3>1. CASE i = k + 1
      <4>1. h[i] = F[k + 1][g[k]] /\ h[i - 1] = g[k]
        BY <2>2, <3>1
      <4> QED BY <3>1, <4>1
    <3>2. CASE i # k + 1
      <4>1. i \in 1..k
        BY <2>2, <3>2
      <4>2. h[i] = g[i] /\ h[i - 1] = g[i - 1]
        BY <2>2, <3>2, <4>1
      <4> HIDE DEF h
      <4> QED BY <2>1, <4>1, <4>2
    <3> QED BY <3>1, <3>2
  <2> HIDE DEF h
  <2>8. Good(h, k + 1)
    BY <2>5, <2>6, <2>7
  <2> HIDE DEF Good
  <2> QED BY <2>2, <2>8
<1>3. 0..n \subseteq S
  <2> HIDE DEF S
  <2> QED BY <1>1, <1>2, UpTo
<1>4. n \in S
  BY <1>3
<1> QED BY <1>4 DEF LoopOf

\* WithKeys, as a loop.
LEMMA WithKeysLoop ==
    ASSUME NEW T, NEW s \in Seq(T), NEW K
    PROVE  \E h \in [0..Len(s) -> Seq(T)] :
              /\ WithKeys(s, K) = h[Len(s)]
              /\ h[0] = <<>>
              /\ \A i \in 1..Len(s) :
                    h[i] = IF s[i].nodeKey \in K THEN Append(h[i - 1], s[i]) ELSE h[i - 1]
<1> DEFINE n == Len(s)
           V == Seq(T)
           St(f, i) == IF s[i].nodeKey \in K THEN Append(f[i - 1], s[i]) ELSE f[i - 1]
           Eq(f) == f = [i \in 0..n |-> IF i = 0 THEN <<>> ELSE St(f, i)]
           F == [i \in 1..n |-> [v \in V |-> IF s[i].nodeKey \in K THEN Append(v, s[i]) ELSE v]]
           h == CHOOSE f : Eq(f)
<1>1. n \in Nat /\ <<>> \in V /\ \A i \in 1..n : s[i] \in T
  OBVIOUS
<1>2. \A i \in 1..n : \A v \in V : (IF s[i].nodeKey \in K THEN Append(v, s[i]) ELSE v) \in V
  BY <1>1
<1>3. WithKeys(s, K) = h[n]
  BY DEF WithKeys
<1> HIDE DEF n, V
<1>4. F \in [1..n -> [V -> V]]
  BY <1>2
<1>5. \A i \in 1..n : \A v \in V : F[i][v] = IF s[i].nodeKey \in K THEN Append(v, s[i]) ELSE v
  OBVIOUS
<1> HIDE DEF F
<1>6. PICK g \in [0..n -> V] : g[0] = <<>> /\ \A i \in 1..n : g[i] = F[i][g[i - 1]]
  <2> DEFINE a == <<>>
  <2>1. a \in V /\ n \in Nat
    BY <1>1
  <2> HIDE DEF a
  <2>2. \E g : LoopOf(g, n, V, a, F)
    BY <1>4, <2>1, LoopExists
  <2> QED BY <2>2 DEF a, LoopOf
<1>7. ASSUME NEW i \in 1..n PROVE g[i] = St(g, i)
  <2>1. i - 1 \in 0..n
    BY <1>1
  <2>2. g[i - 1] \in V
    BY <1>6, <2>1
  <2> QED BY <1>5, <1>6, <2>2
<1>8. Eq(g)
  <2>1. \A i \in 0..n : g[i] = IF i = 0 THEN <<>> ELSE St(g, i)
    <3>1. \A i \in 0..n : i = 0 \/ i \in 1..n
      BY <1>1
    <3>2. 0 \notin 1..n
      BY <1>1
    <3> HIDE DEF St
    <3> QED BY <1>6, <1>7, <3>1, <3>2
  <2>2. g = [i \in 0..n |-> g[i]]
    BY <1>6
  <2> HIDE DEF St
  <2> QED BY <2>1, <2>2
<1>9. Eq(h)
  <2> HIDE DEF Eq
  <2> QED BY <1>8
<1> HIDE DEF h
<1>10. \A i \in 0..n : h[i] = IF i = 0 THEN <<>> ELSE St(h, i)
  <2> HIDE DEF St
  <2> QED BY <1>9
<1>11. h = [i \in 0..n |-> h[i]]
  <2> HIDE DEF St
  <2> QED BY <1>9
<1>12. h[0] = <<>>
  BY <1>1, <1>10
<1>13. \A i \in 1..n : h[i] = St(h, i)
  <2>1. \A i \in 1..n : i \in 0..n /\ i # 0
    BY <1>1
  <2> HIDE DEF St
  <2> QED BY <1>10, <2>1
<1>14. \A i \in 0..n : h[i] \in V
  <2> DEFINE S == {i \in 0..n : h[i] \in V}
  <2>1. 0 \in S
    BY <1>1, <1>12
  <2>2. ASSUME NEW i \in 0..(n - 1), i \in S PROVE i + 1 \in S
    <3>1. i + 1 \in 1..n /\ i + 1 \in 0..n /\ (i + 1) - 1 = i
      BY <1>1
    <3>2. h[i + 1] = IF s[i + 1].nodeKey \in K THEN Append(h[i], s[i + 1]) ELSE h[i]
      BY <1>13, <3>1
    <3>3. h[i] \in V
      BY <2>2
    <3>4. h[i + 1] \in V
      BY <1>2, <3>1, <3>2, <3>3
    <3> QED BY <3>1, <3>4
  <2>3. 0..n \subseteq S
    <3> HIDE DEF S
    <3> QED BY <1>1, <2>1, <2>2, UpTo
  <2> QED BY <2>3
<1>15. h \in [0..n -> V]
  BY <1>11, <1>14
<1> QED BY <1>3, <1>12, <1>13, <1>15 DEF n, V

\* WithKeys keeps the entries with a key of K, each once.
LEMMA WithKeysKeeps ==
    ASSUME NEW T, NEW s \in Seq(T), NEW K,
           \A i, j \in 1..Len(s) : s[i].nodeKey = s[j].nodeKey => i = j
    PROVE  LET w == WithKeys(s, K)
           IN  /\ w \in Seq(T)
               /\ \A j \in 1..Len(w) : \E i \in 1..Len(s) : w[j] = s[i] /\ s[i].nodeKey \in K
               /\ \A i \in 1..Len(s) : s[i].nodeKey \in K => \E j \in 1..Len(w) : w[j] = s[i]
               /\ \A i, j \in 1..Len(w) : w[i].nodeKey = w[j].nodeKey => i = j
<1> DEFINE n == Len(s)
           From(w, k) == \A j \in 1..Len(w) : \E i \in 1..k : w[j] = s[i] /\ s[i].nodeKey \in K
           Has(w, k) == \A i \in 1..k : s[i].nodeKey \in K => \E j \in 1..Len(w) : w[j] = s[i]
           Once(w) == \A i, j \in 1..Len(w) : w[i].nodeKey = w[j].nodeKey => i = j
<1>1. PICK h \in [0..n -> Seq(T)] :
          /\ WithKeys(s, K) = h[n]
          /\ h[0] = <<>>
          /\ \A i \in 1..n : h[i] = IF s[i].nodeKey \in K THEN Append(h[i - 1], s[i]) ELSE h[i - 1]
  BY WithKeysLoop
<1>2. n \in Nat /\ \A i \in 1..n : s[i] \in T
  OBVIOUS
<1>3. \A i, j \in 1..n : s[i].nodeKey = s[j].nodeKey => i = j
  OBVIOUS
<1> HIDE DEF n
<1> DEFINE S == {k \in 0..n : From(h[k], k) /\ Has(h[k], k) /\ Once(h[k])}
<1>4. 0 \in S
  <2>1. Len(h[0]) = 0 /\ 0 \in 0..n
    BY <1>1, <1>2
  <2> QED BY <2>1
<1>5. ASSUME NEW k \in 0..(n - 1), k \in S PROVE k + 1 \in S
  <2> DEFINE w == h[k]
             v == h[k + 1]
             e == s[k + 1]
             m == Len(w)
  <2>1. k \in 0..n /\ k + 1 \in 0..n /\ k + 1 \in 1..n /\ (k + 1) - 1 = k /\ k \in Nat
    BY <1>2
  <2>2. v = IF e.nodeKey \in K THEN Append(w, e) ELSE w
    BY <1>1, <2>1
  <2>3. w \in Seq(T) /\ m \in Nat /\ e \in T
    BY <1>1, <1>2, <2>1
  <2>4. From(w, k) /\ Has(w, k) /\ Once(w)
    BY <1>5
  <2>5. \A i \in 1..(k + 1) : i \in 1..k \/ i = k + 1
    BY <2>1
  <2>6. \A i \in 1..k : i \in 1..(k + 1) /\ i \in 1..n /\ i # k + 1
    BY <1>2, <2>1
  <2>7. k + 1 \in 1..(k + 1)
    BY <2>1
  <2> HIDE DEF w, v, e, m
  <2>8. CASE e.nodeKey \notin K
    <3>1. v = w
      BY <2>2, <2>8
    <3>2. From(v, k + 1)
      BY <2>4, <2>6, <3>1
    <3>3. Has(v, k + 1)
      BY <2>4, <2>5, <2>8, <3>1 DEF e
    <3> QED BY <2>1, <2>4, <3>1, <3>2, <3>3 DEF v
  <2>9. CASE e.nodeKey \in K
    <3>1. v = Append(w, e)
      BY <2>2, <2>9
    <3>2. Len(v) = m + 1 /\ v[m + 1] = e
      BY <2>3, <3>1 DEF m
    <3>3. \A j \in 1..m : v[j] = w[j]
      BY <2>3, <3>1 DEF m
    <3>4. \A j \in 1..(m + 1) : j \in 1..m \/ j = m + 1
      BY <2>3
    <3>5. \A j \in 1..m : j \in 1..(m + 1)
      BY <2>3
    <3>6. m + 1 \in 1..(m + 1)
      BY <2>3
    <3>7. From(v, k + 1)
      <4>1. SUFFICES ASSUME NEW j \in 1..(m + 1)
                     PROVE  \E i \in 1..(k + 1) : v[j] = s[i] /\ s[i].nodeKey \in K
        BY <3>2
      <4>2. CASE j \in 1..m
        <5>1. PICK i \in 1..k : w[j] = s[i] /\ s[i].nodeKey \in K
          BY <2>4, <4>2 DEF m
        <5> QED BY <2>6, <3>3, <4>2, <5>1
      <4>3. CASE j = m + 1
        BY <2>7, <2>9, <3>2, <4>3 DEF e
      <4> QED BY <3>4, <4>2, <4>3
    <3>8. Has(v, k + 1)
      <4>1. SUFFICES ASSUME NEW i \in 1..(k + 1), s[i].nodeKey \in K
                     PROVE  \E j \in 1..(m + 1) : v[j] = s[i]
        BY <3>2
      <4>2. CASE i \in 1..k
        <5>1. PICK j \in 1..m : w[j] = s[i]
          BY <2>4, <4>1, <4>2 DEF m
        <5> QED BY <3>3, <3>5, <5>1
      <4>3. CASE i = k + 1
        BY <3>2, <3>6, <4>3 DEF e
      <4> QED BY <2>5, <4>2, <4>3
    <3>9. \A j \in 1..m : w[j].nodeKey # e.nodeKey
      <4>1. SUFFICES ASSUME NEW j \in 1..m, w[j].nodeKey = e.nodeKey PROVE FALSE
        OBVIOUS
      <4>2. PICK i \in 1..k : w[j] = s[i]
        BY <2>4 DEF m
      <4> QED BY <1>3, <2>1, <2>6, <4>1, <4>2 DEF e
    <3>10. Once(v)
      <4>1. SUFFICES ASSUME NEW i \in 1..(m + 1), NEW j \in 1..(m + 1),
                            v[i].nodeKey = v[j].nodeKey
                     PROVE  i = j
        BY <3>2
      <4>2. CASE i \in 1..m /\ j \in 1..m
        BY <2>4, <3>3, <4>1, <4>2 DEF m
      <4>3. CASE i = m + 1 /\ j \in 1..m
        BY <3>2, <3>3, <3>9, <4>1, <4>3
      <4>4. CASE i \in 1..m /\ j = m + 1
        BY <3>2, <3>3, <3>9, <4>1, <4>4
      <4>5. CASE i = m + 1 /\ j = m + 1
        BY <4>5
      <4> QED BY <3>4, <4>2, <4>3, <4>4, <4>5
    <3> HIDE DEF From, Has, Once
    <3> QED BY <2>1, <3>7, <3>8, <3>10 DEF v
  <2> QED BY <2>8, <2>9
<1>6. 0..n \subseteq S
  <2> HIDE DEF S
  <2> QED BY <1>2, <1>4, <1>5, UpTo
<1>7. n \in S /\ h[n] \in Seq(T)
  <2>1. n \in 0..n
    BY <1>2
  <2> HIDE DEF S
  <2> QED BY <1>1, <1>6, <2>1
<1>8. From(h[n], n) /\ Has(h[n], n) /\ Once(h[n])
  BY <1>7
<1> QED BY <1>1, <1>7, <1>8 DEF n

\* TSPeerSet's entries, and what they have to do with the map's.
Managed == [nodeKey : NodeKeys, allowedIPs : CIDRs, hasKeys : BOOLEAN]
OnceKeyed(s) == \A i, j \in 1..Len(s) : s[i].nodeKey = s[j].nodeKey => i = j
SameRoute(p, n) == p.nodeKey = n.nodeKey /\ p.allowedIPs = n.allowedIPs
Mirrors(m, l) ==
    /\ m \in Seq(Managed) /\ OnceKeyed(m)
    /\ \A j \in 1..Len(m) : \E i \in 1..Len(l) : SameRoute(m[j], l[i])
    /\ \A i \in 1..Len(l) : \E j \in 1..Len(m) : SameRoute(m[j], l[i])

\* The keys of a list are those of its entries.
LEMMA KeysOf ==
    ASSUME NEW T, NEW s \in Seq(T), NEW k
    PROVE  k \in Keys(ToSet(s)) <=> \E i \in 1..Len(s) : s[i].nodeKey = k
BY DEF Keys, ToSet

\* The peers there were: their sessions stay, their routes are the map's.
LEMMA RefreshedPeers ==
    ASSUME NEW old \in Seq(Managed), OnceKeyed(old), NEW l \in Seq(Node), OnceKeyed(l)
    PROVE  LET A == Refreshed(old, l)
           IN  /\ A \in Seq(Managed) /\ OnceKeyed(A)
               /\ \A j \in 1..Len(A) : \E i \in 1..Len(l) : SameRoute(A[j], l[i])
               /\ \A j \in 1..Len(A) : \E i \in 1..Len(old) : A[j].nodeKey = old[i].nodeKey
               /\ \A i \in 1..Len(old) : old[i].nodeKey \in Keys(ToSet(l)) =>
                     \E j \in 1..Len(A) : A[j].nodeKey = old[i].nodeKey /\ A[j].hasKeys = old[i].hasKeys
<1> DEFINE K == Keys(ToSet(l))
           kept == WithKeys(old, K)
           n == Len(kept)
           E(j) == Entry(l, kept[j].nodeKey)
           A == Refreshed(old, l)
<1>1. /\ kept \in Seq(Managed)
      /\ \A j \in 1..n : \E i \in 1..Len(old) : kept[j] = old[i] /\ old[i].nodeKey \in K
      /\ \A i \in 1..Len(old) : old[i].nodeKey \in K => \E j \in 1..n : kept[j] = old[i]
      /\ \A i, j \in 1..n : kept[i].nodeKey = kept[j].nodeKey => i = j
  <2> HIDE DEF K
  <2> QED BY WithKeysKeeps DEF OnceKeyed
<1>2. A = [i \in DOMAIN kept |-> [kept[i] EXCEPT !.allowedIPs = E(i).allowedIPs]]
  BY DEF Refreshed
<1>3. \A k \in K : \E i \in 1..Len(l) : l[i].nodeKey = k
  BY KeysOf
<1> HIDE DEF kept, K, n
<1>4. n \in Nat /\ DOMAIN kept = 1..n /\ \A j \in 1..n : kept[j] \in Managed
  BY <1>1 DEF n
<1>5. \A j \in 1..n : kept[j].nodeKey \in K
  BY <1>1
<1>6. ASSUME NEW j \in 1..n
      PROVE  \E i \in 1..Len(l) : E(j) = l[i] /\ l[i].nodeKey = kept[j].nodeKey
  <2> DEFINE k == kept[j].nodeKey
             x == CHOOSE i \in DOMAIN l : l[i].nodeKey = k
  <2>1. DOMAIN l = 1..Len(l)
    OBVIOUS
  <2>2. E(j) = l[x]
    BY DEF Entry
  <2>3. \E i \in DOMAIN l : l[i].nodeKey = k
    BY <1>3, <1>5, <2>1
  <2> HIDE DEF k
  <2>4. x \in DOMAIN l /\ l[x].nodeKey = k
    BY <2>3
  <2> HIDE DEF x
  <2> QED BY <2>1, <2>2, <2>4 DEF k
<1> HIDE DEF E
<1>7. ASSUME NEW j \in 1..n PROVE E(j).allowedIPs \in CIDRs
  <2>1. PICK i \in 1..Len(l) : E(j) = l[i]
    BY <1>6
  <2>2. l[i] \in Node
    OBVIOUS
  <2> QED BY <2>1, <2>2, NodeFields
<1>8. DOMAIN A = 1..n /\ A = [i \in 1..n |-> A[i]]
  BY <1>2, <1>4
<1>9. ASSUME NEW j \in 1..n
      PROVE  /\ A[j] \in Managed /\ A[j].nodeKey = kept[j].nodeKey
             /\ A[j].hasKeys = kept[j].hasKeys /\ A[j].allowedIPs = E(j).allowedIPs
  <2> DEFINE c == E(j).allowedIPs
             p == kept[j]
  <2>1. c \in CIDRs /\ p \in Managed
    BY <1>4, <1>7
  <2>2. A[j] = [p EXCEPT !.allowedIPs = c]
    BY <1>2, <1>4
  <2> HIDE DEF c, p, A
  <2>3. [p EXCEPT !.allowedIPs = c] \in Managed
    BY <2>1 DEF Managed
  <2>4. /\ [p EXCEPT !.allowedIPs = c].nodeKey = p.nodeKey
        /\ [p EXCEPT !.allowedIPs = c].hasKeys = p.hasKeys
        /\ [p EXCEPT !.allowedIPs = c].allowedIPs = c
    BY <2>1 DEF Managed
  <2> QED BY <2>2, <2>3, <2>4 DEF c, p
<1> HIDE DEF A
<1>10. A \in Seq(Managed) /\ Len(A) = n
  <2>1. A \in [1..n -> Managed]
    BY <1>8, <1>9
  <2> QED BY <1>4, <2>1
<1>11. OnceKeyed(A)
  BY <1>1, <1>9, <1>10 DEF OnceKeyed
<1>12. ASSUME NEW j \in 1..n PROVE \E i \in 1..Len(l) : SameRoute(A[j], l[i])
  <2>1. PICK i \in 1..Len(l) : E(j) = l[i] /\ l[i].nodeKey = kept[j].nodeKey
    BY <1>6
  <2>2. SameRoute(A[j], l[i])
    BY <1>9, <2>1 DEF SameRoute
  <2> QED BY <2>2
<1>13. ASSUME NEW j \in 1..n PROVE \E i \in 1..Len(old) : A[j].nodeKey = old[i].nodeKey
  BY <1>1, <1>9
<1>14. ASSUME NEW i \in 1..Len(old), old[i].nodeKey \in K
       PROVE  \E j \in 1..n : A[j].nodeKey = old[i].nodeKey /\ A[j].hasKeys = old[i].hasKeys
  <2>1. PICK j \in 1..n : kept[j] = old[i]
    BY <1>1, <1>14
  <2> QED BY <1>9, <2>1
<1> QED BY <1>10, <1>11, <1>12, <1>13, <1>14 DEF A, K

\* ... and the others: what TSPeerSet::Update makes of a map's entry.
FreshPeers(old, l) ==
    LET new == NewPeers(old, l)
    IN [i \in DOMAIN new |-> [nodeKey |-> new[i].nodeKey, allowedIPs |-> new[i].allowedIPs,
                              hasKeys |-> FALSE]]

\* They are the map's, and none of them was there before.
LEMMA FreshPeersAre ==
    ASSUME NEW old \in Seq(Managed), OnceKeyed(old), NEW l \in Seq(Node), OnceKeyed(l)
    PROVE  LET B == FreshPeers(old, l)
           IN  /\ B \in Seq(Managed) /\ OnceKeyed(B)
               /\ \A j \in 1..Len(B) : \E i \in 1..Len(l) : SameRoute(B[j], l[i])
               /\ \A j \in 1..Len(B) : \A i \in 1..Len(old) : B[j].nodeKey # old[i].nodeKey
               /\ \A i \in 1..Len(l) : \/ \E j \in 1..Len(B) : SameRoute(B[j], l[i])
                                       \/ \E j \in 1..Len(old) : l[i].nodeKey = old[j].nodeKey
<1> DEFINE K == Keys(ToSet(l)) \ Keys(ToSet(old))
           new == WithKeys(l, K)
           n == Len(new)
           B == FreshPeers(old, l)
<1>1. /\ new \in Seq(Node)
      /\ \A j \in 1..n : \E i \in 1..Len(l) : new[j] = l[i] /\ l[i].nodeKey \in K
      /\ \A i \in 1..Len(l) : l[i].nodeKey \in K => \E j \in 1..n : new[j] = l[i]
      /\ \A i, j \in 1..n : new[i].nodeKey = new[j].nodeKey => i = j
  <2> HIDE DEF K
  <2> QED BY WithKeysKeeps DEF OnceKeyed
<1>2. B = [i \in DOMAIN new |-> [nodeKey |-> new[i].nodeKey, allowedIPs |-> new[i].allowedIPs,
                                 hasKeys |-> FALSE]]
  BY DEF FreshPeers, NewPeers
<1>3. \A k : k \in K <=> /\ \E i \in 1..Len(l) : l[i].nodeKey = k
                         /\ ~ \E i \in 1..Len(old) : old[i].nodeKey = k
  <2>1. \A k : k \in K <=> k \in Keys(ToSet(l)) /\ k \notin Keys(ToSet(old))
    OBVIOUS
  <2>2. \A k : k \in Keys(ToSet(l)) <=> \E i \in 1..Len(l) : l[i].nodeKey = k
    BY KeysOf
  <2>3. \A k : k \in Keys(ToSet(old)) <=> \E i \in 1..Len(old) : old[i].nodeKey = k
    BY KeysOf
  <2> HIDE DEF K
  <2> QED BY <2>1, <2>2, <2>3
<1> HIDE DEF new, K, n
<1>4. n \in Nat /\ DOMAIN new = 1..n /\ \A j \in 1..n : new[j] \in Node
  BY <1>1 DEF n
<1>5. DOMAIN B = 1..n /\ B = [i \in 1..n |-> B[i]]
  BY <1>2, <1>4
<1>6. ASSUME NEW j \in 1..n
      PROVE  B[j] \in Managed /\ B[j].nodeKey = new[j].nodeKey /\ SameRoute(B[j], new[j])
  <2> DEFINE k == new[j].nodeKey
             c == new[j].allowedIPs
  <2>1. k \in NodeKeys /\ c \in CIDRs
    BY <1>4, NodeFields
  <2>2. B[j] = [nodeKey |-> k, allowedIPs |-> c, hasKeys |-> FALSE]
    BY <1>2, <1>4
  <2> HIDE DEF B, k, c
  <2>3. B[j] \in Managed /\ B[j].nodeKey = k /\ B[j].allowedIPs = c
    BY <2>1, <2>2 DEF Managed
  <2> QED BY <2>3 DEF k, c, SameRoute
<1> HIDE DEF B
<1>7. B \in Seq(Managed) /\ Len(B) = n
  <2>1. B \in [1..n -> Managed]
    BY <1>5, <1>6
  <2> QED BY <1>4, <2>1
<1>8. OnceKeyed(B)
  BY <1>1, <1>6, <1>7 DEF OnceKeyed
<1>9. ASSUME NEW j \in 1..n PROVE \E i \in 1..Len(l) : SameRoute(B[j], l[i])
  BY <1>1, <1>6
<1>10. ASSUME NEW j \in 1..n, NEW i \in 1..Len(old) PROVE B[j].nodeKey # old[i].nodeKey
  <2>1. new[j].nodeKey \in K
    BY <1>1
  <2> QED BY <1>3, <1>6, <2>1
<1>11. ASSUME NEW i \in 1..Len(l)
       PROVE  \/ \E j \in 1..n : SameRoute(B[j], l[i])
              \/ \E j \in 1..Len(old) : l[i].nodeKey = old[j].nodeKey
  <2>1. CASE l[i].nodeKey \in K
    <3>1. PICK j \in 1..n : new[j] = l[i]
      BY <1>1, <2>1
    <3> QED BY <1>6, <3>1
  <2>2. CASE l[i].nodeKey \notin K
    BY <1>3, <2>2
  <2> QED BY <2>1, <2>2
<1> QED BY <1>7, <1>8, <1>9, <1>10, <1>11 DEF B

\* TSPeerSet::Update: the map's peers with the map's routes, each once, and the
\* sessions of those there were.
LEMMA UpdateMirrors ==
    ASSUME NEW old \in Seq(Managed), OnceKeyed(old), NEW l \in Seq(Node), OnceKeyed(l)
    PROVE  /\ Mirrors(Update(old, l), l)
           /\ \A i \in 1..Len(old) : old[i].nodeKey \in Keys(ToSet(l)) =>
                 \E j \in 1..Len(Update(old, l)) :
                     /\ Update(old, l)[j].nodeKey = old[i].nodeKey
                     /\ Update(old, l)[j].hasKeys = old[i].hasKeys
<1> DEFINE A == Refreshed(old, l)
           B == FreshPeers(old, l)
           U == A \o B
           K == Keys(ToSet(l))
<1>1. Update(old, l) = U
  BY DEF Update, FreshPeers
<1>2. /\ A \in Seq(Managed) /\ OnceKeyed(A)
      /\ \A j \in 1..Len(A) : \E i \in 1..Len(l) : SameRoute(A[j], l[i])
      /\ \A j \in 1..Len(A) : \E i \in 1..Len(old) : A[j].nodeKey = old[i].nodeKey
      /\ \A i \in 1..Len(old) : old[i].nodeKey \in K =>
            \E j \in 1..Len(A) : A[j].nodeKey = old[i].nodeKey /\ A[j].hasKeys = old[i].hasKeys
  BY RefreshedPeers
<1>3. /\ B \in Seq(Managed) /\ OnceKeyed(B)
      /\ \A j \in 1..Len(B) : \E i \in 1..Len(l) : SameRoute(B[j], l[i])
      /\ \A j \in 1..Len(B) : \A i \in 1..Len(old) : B[j].nodeKey # old[i].nodeKey
      /\ \A i \in 1..Len(l) : \/ \E j \in 1..Len(B) : SameRoute(B[j], l[i])
                              \/ \E j \in 1..Len(old) : l[i].nodeKey = old[j].nodeKey
  BY FreshPeersAre
<1>4. \A i \in 1..Len(l) : l[i].nodeKey \in K
  BY KeysOf
<1> HIDE DEF A, B, K
<1> DEFINE a == Len(A)
           b == Len(B)
<1>5. a \in Nat /\ b \in Nat
  BY <1>2, <1>3
<1>6. /\ U \in Seq(Managed) /\ Len(U) = a + b
      /\ \A i \in 1..a : U[i] = A[i]
      /\ \A i \in 1..b : U[a + i] = B[i]
  <2>1. A \in Seq(Managed) /\ B \in Seq(Managed)
    BY <1>2, <1>3
  <2> QED BY <2>1, Concatenated
<1> HIDE DEF U, a, b
<1>7. \A i \in 1..(a + b) : i \in 1..a \/ \E j \in 1..b : i = a + j
  <2>1. SUFFICES ASSUME NEW i \in 1..(a + b), i \notin 1..a PROVE i - a \in 1..b /\ i = a + (i - a)
    OBVIOUS
  <2> QED BY <1>5, <2>1
<1>8. \A i \in 1..a : i \in 1..(a + b)
  BY <1>5
<1>9. \A j \in 1..b : a + j \in 1..(a + b)
  BY <1>5
<1>10. \A j \in 1..(a + b) : \E i \in 1..Len(l) : SameRoute(U[j], l[i])
  <2>1. SUFFICES ASSUME NEW j \in 1..(a + b) PROVE \E i \in 1..Len(l) : SameRoute(U[j], l[i])
    OBVIOUS
  <2>2. CASE j \in 1..a
    <3>1. \E i \in 1..Len(l) : SameRoute(A[j], l[i])
      BY <1>2, <2>2 DEF a
    <3> QED BY <1>6, <2>2, <3>1
  <2>3. CASE \E k \in 1..b : j = a + k
    <3>1. PICK k \in 1..b : j = a + k
      BY <2>3
    <3>2. \E i \in 1..Len(l) : SameRoute(B[k], l[i])
      BY <1>3, <3>1 DEF b
    <3> QED BY <1>6, <3>1, <3>2
  <2> QED BY <1>7, <2>2, <2>3
<1>11. \A i \in 1..Len(old) : old[i].nodeKey \in K =>
          \E j \in 1..(a + b) : U[j].nodeKey = old[i].nodeKey /\ U[j].hasKeys = old[i].hasKeys
  <2>1. SUFFICES ASSUME NEW i \in 1..Len(old), old[i].nodeKey \in K
                 PROVE  \E j \in 1..(a + b) : U[j].nodeKey = old[i].nodeKey /\ U[j].hasKeys = old[i].hasKeys
    OBVIOUS
  <2>2. PICK j \in 1..a : A[j].nodeKey = old[i].nodeKey /\ A[j].hasKeys = old[i].hasKeys
    BY <1>2, <2>1 DEF a
  <2> QED BY <1>6, <1>8, <2>2
<1>12. \A i \in 1..Len(l) : \E j \in 1..(a + b) : SameRoute(U[j], l[i])
  <2>1. SUFFICES ASSUME NEW i \in 1..Len(l) PROVE \E j \in 1..(a + b) : SameRoute(U[j], l[i])
    OBVIOUS
  <2>2. CASE \E j \in 1..b : SameRoute(B[j], l[i])
    BY <1>6, <1>9, <2>2
  <2>3. CASE \E j \in 1..Len(old) : l[i].nodeKey = old[j].nodeKey
    <3>1. PICK k \in 1..Len(old) : l[i].nodeKey = old[k].nodeKey
      BY <2>3
    <3>2. old[k].nodeKey \in K
      BY <1>4, <3>1
    <3>3. PICK j \in 1..(a + b) : U[j].nodeKey = l[i].nodeKey
      BY <1>11, <3>1, <3>2
    <3>4. PICK x \in 1..Len(l) : SameRoute(U[j], l[x])
      BY <1>10
    <3>5. x = i
      BY <3>3, <3>4 DEF SameRoute, OnceKeyed
    <3> QED BY <3>4, <3>5
  <2> QED BY <1>3, <2>2, <2>3 DEF b
<1>13. OnceKeyed(U)
  <2>1. \A i \in 1..a : \A j \in 1..b : A[i].nodeKey # B[j].nodeKey
    BY <1>2, <1>3 DEF a, b
  <2>2. SUFFICES ASSUME NEW i \in 1..(a + b), NEW j \in 1..(a + b), U[i].nodeKey = U[j].nodeKey
                 PROVE  i = j
    BY <1>6 DEF OnceKeyed
  <2>3. CASE i \in 1..a /\ j \in 1..a
    BY <1>2, <1>6, <2>2, <2>3 DEF OnceKeyed, a
  <2>4. CASE i \in 1..a /\ j \notin 1..a
    <3>1. PICK k \in 1..b : j = a + k
      BY <1>7, <2>4
    <3> QED BY <1>6, <2>1, <2>2, <2>4, <3>1
  <2>5. CASE i \notin 1..a /\ j \in 1..a
    <3>1. PICK k \in 1..b : i = a + k
      BY <1>7, <2>5
    <3> QED BY <1>6, <2>1, <2>2, <2>5, <3>1
  <2>6. CASE i \notin 1..a /\ j \notin 1..a
    <3>1. PICK k \in 1..b : i = a + k
      BY <1>7, <2>6
    <3>2. PICK m \in 1..b : j = a + m
      BY <1>7, <2>6
    <3>3. k = m
      BY <1>3, <1>6, <2>2, <3>1, <3>2 DEF OnceKeyed, b
    <3> QED BY <3>1, <3>2, <3>3
  <2> QED BY <2>3, <2>4, <2>5, <2>6
<1>14. Mirrors(U, l)
  BY <1>6, <1>10, <1>12, <1>13 DEF Mirrors
<1> QED BY <1>1, <1>6, <1>11, <1>14 DEF K

\* Two lists of the same keys, each once, are of the same length.
LEMMA MirrorLength ==
    ASSUME NEW l \in Seq(Node), OnceKeyed(l), NEW m, Mirrors(m, l)
    PROVE  Len(m) = Len(l)
<1> DEFINE K == {l[i].nodeKey : i \in 1..Len(l)}
           a == Len(m)
           b == Len(l)
           f == [i \in 1..a |-> m[i].nodeKey]
           g == [i \in 1..b |-> l[i].nodeKey]
<1>1. a \in Nat /\ b \in Nat
  BY DEF Mirrors
<1>2. \A k : k \in K <=> \E i \in 1..b : l[i].nodeKey = k
  OBVIOUS
<1>3. \A i \in 1..a : m[i].nodeKey \in K
  BY DEF Mirrors, SameRoute
<1>4. \A k \in K : \E i \in 1..a : m[i].nodeKey = k
  <2>1. \A i \in 1..b : \E j \in 1..a : m[j].nodeKey = l[i].nodeKey
    BY DEF Mirrors, SameRoute
  <2> HIDE DEF K, a, b
  <2> QED BY <1>2, <2>1
<1>5. \A i, j \in 1..a : m[i].nodeKey = m[j].nodeKey => i = j
  BY DEF Mirrors, OnceKeyed
<1>6. \A i, j \in 1..b : l[i].nodeKey = l[j].nodeKey => i = j
  BY DEF OnceKeyed
<1> HIDE DEF K, a, b
<1>7. Lists(f, K) /\ Len(f) = a
  <2>1. f \in [1..a -> K] /\ \A i \in 1..a : f[i] = m[i].nodeKey
    BY <1>3
  <2> HIDE DEF f
  <2>2. f \in Seq(K) /\ Len(f) = a
    BY <1>1, <2>1
  <2> QED BY <1>4, <1>5, <2>1, <2>2 DEF Lists
<1>8. Lists(g, K) /\ Len(g) = b
  <2>1. \A i \in 1..b : l[i].nodeKey \in K
    BY <1>2
  <2>2. g \in [1..b -> K] /\ \A i \in 1..b : g[i] = l[i].nodeKey
    BY <2>1
  <2> HIDE DEF g
  <2>3. g \in Seq(K) /\ Len(g) = b
    BY <1>1, <2>2
  <2>4. \A k \in K : \E i \in 1..b : g[i] = k
    BY <1>2, <2>2
  <2> QED BY <1>6, <2>2, <2>3, <2>4 DEF Lists
<1> HIDE DEF f, g
<1>9. Cardinality(K) = a /\ Cardinality(K) = b
  BY <1>7, <1>8, ListedSet
<1> QED BY <1>9 DEF a, b

-----------------------------------------------------------------------------
(***************************************************************************)
(* Looking things up.                                                      *)
(***************************************************************************)
Prefix == [prefix : Int, key : SUBSET NodeKeys]
NoPrefix == [prefix |-> -1, key |-> {}]

\* The fields of an entry of the peer set.
LEMMA ManagedFields ==
    ASSUME NEW p \in Managed
    PROVE  p.nodeKey \in NodeKeys /\ p.allowedIPs \in CIDRs /\ p.allowedIPs[2] \in Nat
<1>1. p.nodeKey \in NodeKeys /\ p.allowedIPs \in CIDRs
  BY DEF Managed
<1>2. \A c \in CIDRs : c[2] \in Nat
  BY NetmapAssumption
<1> QED BY <1>1, <1>2

\* FindByAllowedIP, as a loop.
LEMMA FindLoop ==
    ASSUME NEW s \in Seq(Managed), NEW addr
    PROVE  \E h \in [0..Len(s) -> Prefix] :
              /\ FindByAllowedIP(s, addr) = h[Len(s)].key
              /\ h[0] = NoPrefix
              /\ \A i \in 1..Len(s) : h[i] = Better(h[i - 1], s[i], addr)
<1> DEFINE n == Len(s)
           Eq(f) == f = [i \in 0..n |-> IF i = 0 THEN NoPrefix ELSE Better(f[i - 1], s[i], addr)]
           F == [i \in 1..n |-> [v \in Prefix |-> Better(v, s[i], addr)]]
           h == CHOOSE f : Eq(f)
<1>1. n \in Nat /\ NoPrefix \in Prefix /\ \A i \in 1..n : s[i] \in Managed
  BY DEF NoPrefix, Prefix
<1>2. \A i \in 1..n : \A v \in Prefix : Better(v, s[i], addr) \in Prefix
  <2>1. SUFFICES ASSUME NEW i \in 1..n, NEW v \in Prefix PROVE Better(v, s[i], addr) \in Prefix
    OBVIOUS
  <2>2. s[i].nodeKey \in NodeKeys /\ s[i].allowedIPs[2] \in Nat
    BY <1>1, ManagedFields
  <2>3. [prefix |-> s[i].allowedIPs[2], key |-> {s[i].nodeKey}] \in Prefix
    BY <2>2 DEF Prefix
  <2> QED BY <2>3 DEF Better
<1>3. FindByAllowedIP(s, addr) = h[n].key
  BY DEF FindByAllowedIP, NoPrefix
<1> HIDE DEF n
<1>4. F \in [1..n -> [Prefix -> Prefix]]
  BY <1>2
<1>5. \A i \in 1..n : \A v \in Prefix : F[i][v] = Better(v, s[i], addr)
  OBVIOUS
<1> HIDE DEF F
<1>6. PICK g : LoopOf(g, n, Prefix, NoPrefix, F)
  <2>1. n \in Nat /\ NoPrefix \in Prefix
    BY <1>1
  <2> QED BY <1>4, <2>1, LoopExists
<1>7. g \in [0..n -> Prefix] /\ g[0] = NoPrefix /\ \A i \in 1..n : g[i] = F[i][g[i - 1]]
  BY <1>6 DEF LoopOf
<1>8. ASSUME NEW i \in 1..n PROVE g[i] = Better(g[i - 1], s[i], addr)
  <2>1. i - 1 \in 0..n
    BY <1>1
  <2>2. g[i - 1] \in Prefix
    BY <1>7, <2>1
  <2> QED BY <1>5, <1>7, <2>2
<1>9. Eq(g)
  <2>1. \A i \in 0..n : i = 0 \/ i \in 1..n
    BY <1>1
  <2>2. 0 \notin 1..n
    BY <1>1
  <2>3. \A i \in 0..n : g[i] = IF i = 0 THEN NoPrefix ELSE Better(g[i - 1], s[i], addr)
    BY <1>7, <1>8, <2>1, <2>2
  <2>4. g = [i \in 0..n |-> g[i]]
    BY <1>7
  <2> QED BY <2>3, <2>4
<1>10. Eq(h)
  <2> HIDE DEF Eq
  <2> QED BY <1>9
<1> HIDE DEF h
<1>11. \A i \in 0..n : h[i] = IF i = 0 THEN NoPrefix ELSE Better(h[i - 1], s[i], addr)
  BY <1>10
<1>12. h = [i \in 0..n |-> h[i]]
  BY <1>10
<1>13. h[0] = NoPrefix
  BY <1>1, <1>11
<1>14. \A i \in 1..n : h[i] = Better(h[i - 1], s[i], addr)
  <2>1. \A i \in 1..n : i \in 0..n /\ i # 0
    BY <1>1
  <2> QED BY <1>11, <2>1
<1>15. \A i \in 0..n : h[i] \in Prefix
  <2> DEFINE S == {i \in 0..n : h[i] \in Prefix}
  <2>1. 0 \in S
    BY <1>1, <1>13
  <2>2. ASSUME NEW i \in 0..(n - 1), i \in S PROVE i + 1 \in S
    <3>1. i + 1 \in 1..n /\ i + 1 \in 0..n /\ (i + 1) - 1 = i
      BY <1>1
    <3>2. h[i + 1] = Better(h[i], s[i + 1], addr)
      BY <1>14, <3>1
    <3>3. h[i] \in Prefix
      BY <2>2
    <3>4. h[i + 1] \in Prefix
      BY <1>2, <3>1, <3>2, <3>3
    <3> QED BY <3>1, <3>4
  <2>3. 0..n \subseteq S
    <3> HIDE DEF S
    <3> QED BY <1>1, <2>1, <2>2, UpTo
  <2> QED BY <2>3
<1>16. h \in [0..n -> Prefix]
  BY <1>12, <1>15
<1> QED BY <1>3, <1>13, <1>14, <1>16 DEF n

\* FindByAllowedIP finds a peer whose route for the address is the longest, and
\* none only if there is none.
Found(s, k, b, addr) ==
    \/ b = NoPrefix /\ \A j \in 1..k : ~ Matches(s[j].allowedIPs, addr)
    \/ \E j \in 1..k : /\ Matches(s[j].allowedIPs, addr)
                       /\ b = [prefix |-> s[j].allowedIPs[2], key |-> {s[j].nodeKey}]
                       /\ \A i \in 1..k : Matches(s[i].allowedIPs, addr) =>
                             s[i].allowedIPs[2] <= s[j].allowedIPs[2]

\* One more entry looked at.
LEMMA FoundStep ==
    ASSUME NEW s \in Seq(Managed), NEW addr, NEW k \in Nat, k + 1 \in 1..Len(s), NEW b, Found(s, k, b, addr)
    PROVE  Found(s, k + 1, Better(b, s[k + 1], addr), addr)
<1> DEFINE e == s[k + 1]
           v == Better(b, e, addr)
<1>1. \A i \in 1..(k + 1) : s[i] \in Managed
  OBVIOUS
<1>2. \A i \in 1..(k + 1) : s[i].allowedIPs[2] \in Nat
  BY <1>1, ManagedFields
<1>3. \A i \in 1..(k + 1) : i \in 1..k \/ i = k + 1
  OBVIOUS
<1>4. k + 1 \in 1..(k + 1) /\ \A i \in 1..k : i \in 1..(k + 1)
  OBVIOUS
<1>5. v = IF Matches(e.allowedIPs, addr) /\ e.allowedIPs[2] > b.prefix
          THEN [prefix |-> e.allowedIPs[2], key |-> {e.nodeKey}] ELSE b
  BY DEF Better
<1>6. e.allowedIPs[2] \in Nat
  BY <1>2, <1>4
<1> HIDE DEF v
<1>7. CASE ~ Matches(e.allowedIPs, addr)
  <2>1. v = b
    BY <1>5, <1>7
  <2>2. CASE b = NoPrefix /\ \A j \in 1..k : ~ Matches(s[j].allowedIPs, addr)
    BY <1>3, <1>7, <2>1, <2>2 DEF Found, v
  <2>3. CASE \E j \in 1..k : /\ Matches(s[j].allowedIPs, addr)
                             /\ b = [prefix |-> s[j].allowedIPs[2], key |-> {s[j].nodeKey}]
                             /\ \A i \in 1..k : Matches(s[i].allowedIPs, addr) =>
                                   s[i].allowedIPs[2] <= s[j].allowedIPs[2]
    BY <1>3, <1>4, <1>7, <2>1, <2>3 DEF Found, v
  <2> QED BY <2>2, <2>3 DEF Found
<1>8. CASE Matches(e.allowedIPs, addr)
  <2>1. CASE b = NoPrefix /\ \A j \in 1..k : ~ Matches(s[j].allowedIPs, addr)
    <3>1. e.allowedIPs[2] > b.prefix
      BY <1>6, <2>1 DEF NoPrefix
    <3>2. v = [prefix |-> e.allowedIPs[2], key |-> {e.nodeKey}]
      BY <1>5, <1>8, <3>1
    <3>3. \A i \in 1..(k + 1) : Matches(s[i].allowedIPs, addr) =>
              s[i].allowedIPs[2] <= e.allowedIPs[2]
      BY <1>3, <1>6, <2>1
    <3> QED BY <1>4, <1>8, <3>2, <3>3 DEF Found, v
  <2>2. CASE \E j \in 1..k : /\ Matches(s[j].allowedIPs, addr)
                             /\ b = [prefix |-> s[j].allowedIPs[2], key |-> {s[j].nodeKey}]
                             /\ \A i \in 1..k : Matches(s[i].allowedIPs, addr) =>
                                   s[i].allowedIPs[2] <= s[j].allowedIPs[2]
    <3>1. PICK j \in 1..k : /\ Matches(s[j].allowedIPs, addr)
                            /\ b = [prefix |-> s[j].allowedIPs[2], key |-> {s[j].nodeKey}]
                            /\ \A i \in 1..k : Matches(s[i].allowedIPs, addr) =>
                                  s[i].allowedIPs[2] <= s[j].allowedIPs[2]
      BY <2>2
    <3> DEFINE x == e.allowedIPs[2]
               y == s[j].allowedIPs[2]
    <3>2. x \in Nat /\ y \in Nat /\ b.prefix = y
      BY <1>2, <1>4, <1>6, <3>1
    <3>3. CASE x > y
      <4>1. v = [prefix |-> e.allowedIPs[2], key |-> {e.nodeKey}]
        BY <1>5, <1>8, <3>2, <3>3
      <4>2. \A i \in 1..(k + 1) : Matches(s[i].allowedIPs, addr) => s[i].allowedIPs[2] <= x
        <5>1. SUFFICES ASSUME NEW i \in 1..(k + 1), Matches(s[i].allowedIPs, addr)
                       PROVE  s[i].allowedIPs[2] <= x
          OBVIOUS
        <5>2. CASE i = k + 1
          BY <3>2, <5>2
        <5>3. CASE i \in 1..k
          <6>1. s[i].allowedIPs[2] <= y /\ s[i].allowedIPs[2] \in Nat
            BY <1>2, <3>1, <5>1, <5>3
          <6> HIDE DEF x, y
          <6> QED BY <3>2, <3>3, <6>1
        <5> QED BY <1>3, <5>2, <5>3
      <4> QED BY <1>4, <1>8, <4>1, <4>2 DEF Found, v
    <3>4. CASE ~ (x > y)
      <4>1. v = b
        BY <1>5, <3>2, <3>4
      <4>2. x <= y
        <5> HIDE DEF x, y
        <5> QED BY <3>2, <3>4
      <4>3. \A i \in 1..(k + 1) : Matches(s[i].allowedIPs, addr) => s[i].allowedIPs[2] <= y
        BY <1>3, <3>1, <4>2
      <4>4. j \in 1..(k + 1)
        BY <1>4
      <4> QED BY <3>1, <4>1, <4>3, <4>4 DEF Found, v
    <3> QED BY <3>3, <3>4
  <2> QED BY <2>1, <2>2 DEF Found
<1> QED BY <1>7, <1>8 DEF v

\* After all of them.
LEMMA LongestFound ==
    ASSUME NEW s \in Seq(Managed), NEW addr
    PROVE  \E b : FindByAllowedIP(s, addr) = b.key /\ Found(s, Len(s), b, addr)
<1> DEFINE n == Len(s)
<1>1. PICK h \in [0..n -> Prefix] :
          /\ FindByAllowedIP(s, addr) = h[n].key
          /\ h[0] = NoPrefix
          /\ \A i \in 1..n : h[i] = Better(h[i - 1], s[i], addr)
  BY FindLoop
<1>2. n \in Nat
  OBVIOUS
<1> DEFINE S == {k \in 0..n : Found(s, k, h[k], addr)}
<1>3. 0 \in S
  <2>1. Found(s, 0, NoPrefix, addr)
    BY DEF Found
  <2> QED BY <1>1, <1>2, <2>1
<1>4. ASSUME NEW k \in 0..(n - 1), k \in S PROVE k + 1 \in S
  <2>1. k \in Nat /\ k + 1 \in 1..n /\ k + 1 \in 0..n /\ (k + 1) - 1 = k
    BY <1>2
  <2>2. h[k + 1] = Better(h[k], s[k + 1], addr)
    BY <1>1, <2>1
  <2>3. Found(s, k, h[k], addr)
    BY <1>4
  <2>4. Found(s, k + 1, Better(h[k], s[k + 1], addr), addr)
    BY <2>1, <2>3, FoundStep
  <2> QED BY <2>1, <2>2, <2>4
<1> HIDE DEF n
<1>5. 0..n \subseteq S
  <2> HIDE DEF S
  <2> QED BY <1>2, <1>3, <1>4, UpTo
<1>6. n \in 0..n
  BY <1>2
<1>7. Found(s, n, h[n], addr)
  BY <1>5, <1>6
<1> QED BY <1>1, <1>7 DEF n

-----------------------------------------------------------------------------
(***************************************************************************)
(* The peer set and the resolver's table are the map's.                    *)
(***************************************************************************)
PeersInv == MapInv /\ Mirrors(managed, fPeers) /\ fHosts = LoadHosts(fPeers)

\* The map has each key once.
LEMMA MapKeyed == MapInv => fPeers \in Seq(Node) /\ OnceKeyed(fPeers)
<1> SUFFICES ASSUME MapInv PROVE fPeers \in Seq(Node) /\ OnceKeyed(fPeers)
  OBVIOUS
<1>1. PICK known \in NodeSets : Lists(fPeers, known)
  BY DEF MapInv, ControlKnown
<1>2. Distinct(known) /\ known \in SUBSET Node
  BY NodeSetIs
<1>3. fPeers \in Seq(known) /\ \A i, j \in 1..Len(fPeers) : fPeers[i] = fPeers[j] => i = j
  BY <1>1 DEF Lists
<1>4. \A i \in 1..Len(fPeers) : fPeers[i] \in known
  BY <1>3
<1>5. fPeers \in Seq(Node)
  BY <1>2, <1>3
<1>6. OnceKeyed(fPeers)
  BY <1>2, <1>3, <1>4 DEF OnceKeyed, Distinct
<1> QED BY <1>5, <1>6

\* Both start empty.
LEMMA PeersStart == NetmapInit => PeersInv
<1> SUFFICES ASSUME NetmapInit PROVE PeersInv
  OBVIOUS
<1>1. fPeers = <<>> /\ managed = <<>> /\ fHosts = <<>>
  BY DEF NetmapInit
<1>2. Mirrors(<<>>, <<>>)
  BY DEF Mirrors, OnceKeyed
<1>3. LoadHosts(<<>>) = <<>>
  BY DEF LoadHosts
<1> QED BY <1>1, <1>2, <1>3, MapStart DEF PeersInv

\* A session coming up changes nothing else of a peer.
LEMMA SessionUpKeeps ==
    ASSUME NEW m, NEW l, Mirrors(m, l), NEW i \in DOMAIN m, NEW w,
           w = [m EXCEPT ![i].hasKeys = TRUE]
    PROVE  /\ Mirrors(w, l) /\ Len(w) = Len(m)
           /\ \A j \in 1..Len(m) : w[j].nodeKey = m[j].nodeKey /\ (m[j].hasKeys => w[j].hasKeys)
<1> DEFINE n == Len(m)
<1>1. m \in Seq(Managed) /\ n \in Nat /\ DOMAIN m = 1..n /\ \A j \in 1..n : m[j] \in Managed
  BY DEF Mirrors
<1>2. DOMAIN w = 1..n /\ w = [j \in 1..n |-> w[j]]
  BY <1>1
<1>3. \A j \in 1..n : w[j] = IF j = i THEN [m[i] EXCEPT !.hasKeys = TRUE] ELSE m[j]
  BY <1>1
<1> HIDE DEF n
<1>4. ASSUME NEW p \in Managed
      PROVE  LET q == [p EXCEPT !.hasKeys = TRUE]
             IN  q \in Managed /\ q.nodeKey = p.nodeKey /\ q.allowedIPs = p.allowedIPs /\ q.hasKeys = TRUE
  BY DEF Managed
<1>5. ASSUME NEW j \in 1..n
      PROVE  /\ w[j] \in Managed /\ w[j].nodeKey = m[j].nodeKey
             /\ w[j].allowedIPs = m[j].allowedIPs /\ (m[j].hasKeys => w[j].hasKeys)
  <2>1. CASE j = i
    <3>1. w[j] = [m[j] EXCEPT !.hasKeys = TRUE] /\ m[j] \in Managed
      BY <1>1, <1>3, <2>1
    <3> QED BY <1>4, <3>1
  <2>2. CASE j # i
    BY <1>1, <1>3, <2>2
  <2> QED BY <2>1, <2>2
<1>6. w \in Seq(Managed) /\ Len(w) = n
  <2>1. w \in [1..n -> Managed]
    BY <1>2, <1>5
  <2> QED BY <1>1, <2>1
<1>7. OnceKeyed(w)
  <2>1. \A x, y \in 1..n : m[x].nodeKey = m[y].nodeKey => x = y
    BY DEF Mirrors, OnceKeyed, n
  <2>2. \A x \in 1..n : w[x].nodeKey = m[x].nodeKey
    BY <1>5
  <2>3. \A x, y \in 1..n : w[x].nodeKey = w[y].nodeKey => x = y
    BY <2>1, <2>2
  <2> QED BY <1>6, <2>3 DEF OnceKeyed
<1>8. \A j \in 1..n : \A x \in 1..Len(l) : SameRoute(w[j], l[x]) <=> SameRoute(m[j], l[x])
  BY <1>5 DEF SameRoute
<1>9. Mirrors(w, l)
  BY <1>6, <1>7, <1>8 DEF Mirrors, n
<1> QED BY <1>5, <1>6, <1>9 DEF n

\* Every message derives them anew from the map it leaves.
LEMMA PeersStep == PeersInv /\ [NetmapNext]_mapVars => PeersInv'
<1> SUFFICES ASSUME PeersInv, [NetmapNext]_mapVars PROVE PeersInv'
  OBVIOUS
<1>1. MapInv'
  BY MapStep DEF PeersInv
<1>2. Mirrors(managed, fPeers) /\ fHosts = LoadHosts(fPeers)
  BY DEF PeersInv
<1>3. ASSUME UNCHANGED <<fPeers, managed, fHosts>> PROVE PeersInv'
  BY <1>1, <1>2, <1>3 DEF PeersInv
<1>4. CASE SessionUp
  <2>1. PICK i \in DOMAIN managed : managed' = [managed EXCEPT ![i].hasKeys = TRUE]
    BY <1>4 DEF SessionUp
  <2>2. Mirrors(managed', fPeers)
    BY <1>2, <2>1, SessionUpKeeps
  <2>3. fPeers' = fPeers /\ fHosts' = fHosts
    BY <1>4 DEF SessionUp
  <2> QED BY <1>1, <1>2, <2>2, <2>3 DEF PeersInv
<1>5. CASE TailnetChanges
  BY <1>3, <1>5 DEF TailnetChanges
<1>6. CASE StreamReopened
  BY <1>3, <1>6 DEF StreamReopened
<1>7. CASE ApplyMapResponse
  <2>1. managed' = Update(managed, fPeers') /\ fHosts' = LoadHosts(fPeers')
    BY <1>7 DEF ApplyMapResponse
  <2>2. (fPeers \in Seq(Node) /\ OnceKeyed(fPeers))'
    BY <1>1, MapKeyed, PTL
  <2>3. managed \in Seq(Managed) /\ OnceKeyed(managed)
    BY <1>2 DEF Mirrors
  <2>4. fPeers' \in Seq(Node) /\ OnceKeyed(fPeers')
    BY <2>2
  <2>5. Mirrors(Update(managed, fPeers'), fPeers')
    BY <2>3, <2>4, UpdateMirrors
  <2> QED BY <1>1, <2>1, <2>5 DEF PeersInv
<1>8. CASE UNCHANGED mapVars
  BY <1>3, <1>8 DEF mapVars
<1> QED BY <1>4, <1>5, <1>6, <1>7, <1>8 DEF NetmapNext

\* The peer set has the map's keys, and finds what the map's routes say.
LEMMA PeerSetFollows ==
    ASSUME NEW l \in Seq(Node), OnceKeyed(l), NEW m, Mirrors(m, l)
    PROVE  /\ {p.nodeKey : p \in ToSet(m)} = Keys(ToSet(l))
           /\ Len(m) = Len(l)
           /\ \A a \in 0..(2^AddressBits - 1) :
                LET hits == {n \in ToSet(l) : Matches(n.allowedIPs, a)}
                    best == {n \in hits : \A o \in hits : o.allowedIPs[2] <= n.allowedIPs[2]}
                IN IF best = {} THEN FindByAllowedIP(m, a) = {}
                   ELSE \E n \in best : FindByAllowedIP(m, a) = {n.nodeKey}
<1>1. m \in Seq(Managed) /\ Len(m) = Len(l)
  BY MirrorLength DEF Mirrors
<1>2. /\ \A j \in 1..Len(m) : \E i \in 1..Len(l) : m[j].nodeKey = l[i].nodeKey /\ m[j].allowedIPs = l[i].allowedIPs
      /\ \A i \in 1..Len(l) : \E j \in 1..Len(m) : m[j].nodeKey = l[i].nodeKey /\ m[j].allowedIPs = l[i].allowedIPs
  BY DEF Mirrors, SameRoute
<1>3. /\ \A x : x \in ToSet(l) <=> \E i \in 1..Len(l) : x = l[i]
      /\ \A x : x \in ToSet(m) <=> \E i \in 1..Len(m) : x = m[i]
  BY <1>1 DEF ToSet
<1>4. {p.nodeKey : p \in ToSet(m)} = Keys(ToSet(l))
  <2>1. \A k : k \in Keys(ToSet(l)) <=> \E i \in 1..Len(l) : l[i].nodeKey = k
    BY KeysOf
  <2>2. \A k : k \in Keys(ToSet(m)) <=> \E i \in 1..Len(m) : m[i].nodeKey = k
    BY <1>1, KeysOf
  <2>3. \A k : k \in Keys(ToSet(l)) <=> k \in Keys(ToSet(m))
    BY <1>2, <2>1, <2>2
  <2>4. Keys(ToSet(l)) = Keys(ToSet(m))
    BY <2>3
  <2> QED BY <2>4 DEF Keys
<1>5. ASSUME NEW a
      PROVE  LET hits == {n \in ToSet(l) : Matches(n.allowedIPs, a)}
                 best == {n \in hits : \A o \in hits : o.allowedIPs[2] <= n.allowedIPs[2]}
             IN IF best = {} THEN FindByAllowedIP(m, a) = {}
                ELSE \E n \in best : FindByAllowedIP(m, a) = {n.nodeKey}
  <2> DEFINE hits == {n \in ToSet(l) : Matches(n.allowedIPs, a)}
             best == {n \in hits : \A o \in hits : o.allowedIPs[2] <= n.allowedIPs[2]}
  <2>1. PICK b : FindByAllowedIP(m, a) = b.key /\ Found(m, Len(m), b, a)
    BY <1>1, LongestFound
  <2>2. \A x : x \in hits <=> \E i \in 1..Len(l) : x = l[i] /\ Matches(l[i].allowedIPs, a)
    BY <1>3
  <2>3. \A x : x \in best <=> x \in hits /\ \A o \in hits : o.allowedIPs[2] <= x.allowedIPs[2]
    OBVIOUS
  <2> HIDE DEF hits, best
  <2>4. CASE b = NoPrefix /\ \A j \in 1..Len(m) : ~ Matches(m[j].allowedIPs, a)
    <3>1. hits = {}
      BY <1>2, <2>2, <2>4
    <3>2. best = {}
      BY <2>3, <3>1
    <3>3. b.key = {}
      BY <2>4 DEF NoPrefix
    <3> QED BY <2>1, <3>2, <3>3 DEF hits, best
  <2>5. CASE \E j \in 1..Len(m) :
                 /\ Matches(m[j].allowedIPs, a)
                 /\ b = [prefix |-> m[j].allowedIPs[2], key |-> {m[j].nodeKey}]
                 /\ \A i \in 1..Len(m) : Matches(m[i].allowedIPs, a) =>
                       m[i].allowedIPs[2] <= m[j].allowedIPs[2]
    <3>1. PICK j \in 1..Len(m) :
              /\ Matches(m[j].allowedIPs, a)
              /\ b = [prefix |-> m[j].allowedIPs[2], key |-> {m[j].nodeKey}]
              /\ \A i \in 1..Len(m) : Matches(m[i].allowedIPs, a) =>
                    m[i].allowedIPs[2] <= m[j].allowedIPs[2]
      BY <2>5
    <3>2. PICK i \in 1..Len(l) : m[j].nodeKey = l[i].nodeKey /\ m[j].allowedIPs = l[i].allowedIPs
      BY <1>2
    <3>3. l[i] \in hits
      BY <2>2, <3>1, <3>2
    <3>4. ASSUME NEW o \in hits PROVE o.allowedIPs[2] <= l[i].allowedIPs[2]
      <4>1. PICK x \in 1..Len(l) : o = l[x] /\ Matches(l[x].allowedIPs, a)
        BY <2>2
      <4>2. PICK y \in 1..Len(m) : m[y].allowedIPs = l[x].allowedIPs
        BY <1>2
      <4>3. m[y].allowedIPs[2] <= m[j].allowedIPs[2]
        BY <3>1, <4>1, <4>2
      <4> QED BY <3>2, <4>1, <4>2, <4>3
    <3>5. l[i] \in best
      BY <2>3, <3>3, <3>4
    <3>6. b.key = {l[i].nodeKey}
      BY <3>1, <3>2
    <3>7. best # {} /\ \E n \in best : FindByAllowedIP(m, a) = {n.nodeKey}
      BY <2>1, <3>5, <3>6
    <3> QED BY <3>7 DEF hits, best
  <2> QED BY <2>1, <2>4, <2>5 DEF Found
<1> QED BY <1>1, <1>4, <1>5

\* A table made of the map answers with the map's nodes.
LEMMA ResolverFollows ==
    ASSUME fPeers \in Seq(Node), fHosts = LoadHosts(fPeers)
    PROVE  ResolverFollowsMap
<1> SUFFICES ASSUME NEW h \in Hosts
             PROVE  LET named == {n \in ToSet(fPeers) : n.hostname = h} IN
                    IF named = {} THEN Resolve(h) = {}
                    ELSE \E n \in named : Resolve(h) = {n.nodeKey}
  BY DEF ResolverFollowsMap
<1> DEFINE named == {n \in ToSet(fPeers) : n.hostname = h}
           at == {i \in DOMAIN fHosts : fHosts[i][1] = h}
           k == CHOOSE i \in at : \A j \in at : i <= j
           N == Len(fPeers)
<1>1. N \in Nat /\ DOMAIN fHosts = 1..N
  BY DEF LoadHosts
<1>2. \A i \in 1..N : fHosts[i][1] = fPeers[i].hostname /\ fHosts[i][2] = fPeers[i].nodeKey
  BY DEF LoadHosts
<1>3. Resolve(h) = IF at = {} THEN {} ELSE {fHosts[k][2]}
  BY DEF Resolve
<1>4. \A x : x \in named <=> \E i \in 1..N : x = fPeers[i] /\ fPeers[i].hostname = h
  BY DEF ToSet
<1>5. \A i : i \in at <=> i \in 1..N /\ fPeers[i].hostname = h
  BY <1>1, <1>2
<1> HIDE DEF at, named, N
<1>6. CASE at = {}
  <2>1. named = {}
    BY <1>4, <1>5, <1>6
  <2> QED BY <1>3, <1>6, <2>1 DEF named
<1>7. CASE at # {}
  <2>1. at \subseteq Nat
    BY <1>1, <1>5
  <2>2. \E i \in at : \A j \in at : i <= j
    BY <1>7, <2>1, LeastOf
  <2>3. k \in at
    BY <2>2
  <2> HIDE DEF k
  <2>4. k \in 1..N /\ fPeers[k] \in named /\ fHosts[k][2] = fPeers[k].nodeKey
    BY <1>2, <1>4, <1>5, <2>3
  <2>5. Resolve(h) = {fPeers[k].nodeKey}
    BY <1>3, <1>7, <2>4
  <2>6. named # {} /\ \E n \in named : Resolve(h) = {n.nodeKey}
    BY <2>4, <2>5
  <2> QED BY <2>6 DEF named
<1> QED BY <1>6, <1>7

\* That is what DerivedFollowMap says.
LEMMA PeersInvFollows == PeersInv => DerivedFollowMap
<1> SUFFICES ASSUME PeersInv PROVE DerivedFollowMap
  OBVIOUS
<1>1. fPeers \in Seq(Node) /\ OnceKeyed(fPeers) /\ Mirrors(managed, fPeers) /\ fHosts = LoadHosts(fPeers)
  BY MapKeyed DEF PeersInv
<1>2. PeerSetFollowsMap
  BY <1>1, PeerSetFollows DEF PeerSetFollowsMap
<1>3. ResolverFollowsMap
  BY <1>1, ResolverFollows
<1> QED BY <1>2, <1>3 DEF DerivedFollowMap

\* After every message the peer set has exactly the map's keys, each once, a
\* packet goes to a peer whose route for it is the most specific of the map, and
\* the resolver answers with the map's nodes (TSPeerSet::Update,
\* FindByAllowedIP, MagicDns::LoadFromNetmap).
THEOREM DerivedAlwaysFollowMap == NetmapSpec => []DerivedFollowMap
BY PeersStart, PeersStep, PeersInvFollows, PTL DEF NetmapSpec

\* What a step does to the sessions of the peers that stay.
SessionsKept ==
    \A p \in ToSet(managed) : Listed(fPeers', p.nodeKey) =>
        \E q \in ToSet(managed') : q.nodeKey = p.nodeKey /\ (p.hasKeys => q.hasKeys)

\* No step takes the session from a peer that stays.
LEMMA SessionsStep == PeersInv /\ [NetmapNext]_mapVars => [SessionsKept]_mapVars
<1> SUFFICES ASSUME PeersInv, NetmapNext PROVE SessionsKept
  OBVIOUS
<1>1. Mirrors(managed, fPeers) /\ managed \in Seq(Managed) /\ OnceKeyed(managed)
  BY DEF PeersInv, Mirrors
<1>2. PeersInv'
  BY PeersStep
<1>3. managed' \in Seq(Managed)
  BY <1>2 DEF PeersInv, Mirrors
<1>4. SUFFICES ASSUME NEW i \in 1..Len(managed), Listed(fPeers', managed[i].nodeKey)
               PROVE  \E j \in 1..Len(managed') :
                          /\ managed'[j].nodeKey = managed[i].nodeKey
                          /\ managed[i].hasKeys => managed'[j].hasKeys
  <2>1. /\ \A p \in ToSet(managed) : \E i \in 1..Len(managed) : p = managed[i]
        /\ \A j \in 1..Len(managed') : managed'[j] \in ToSet(managed')
    BY <1>1, <1>3 DEF ToSet
  <2> QED BY <1>4, <2>1 DEF SessionsKept
<1>5. CASE managed' = managed
  BY <1>5
<1>6. CASE SessionUp
  <2>1. PICK x \in DOMAIN managed : managed' = [managed EXCEPT ![x].hasKeys = TRUE]
    BY <1>6 DEF SessionUp
  <2>2. /\ Len(managed') = Len(managed)
        /\ \A j \in 1..Len(managed) : /\ managed'[j].nodeKey = managed[j].nodeKey
                                      /\ managed[j].hasKeys => managed'[j].hasKeys
    BY <1>1, <2>1, SessionUpKeeps
  <2> QED BY <2>2
<1>7. CASE ApplyMapResponse
  <2>1. (fPeers \in Seq(Node) /\ OnceKeyed(fPeers))'
    <3>1. MapInv'
      BY <1>2 DEF PeersInv
    <3> QED BY <3>1, MapKeyed, PTL
  <2>2. fPeers' \in Seq(Node) /\ OnceKeyed(fPeers')
    BY <2>1
  <2>3. managed' = Update(managed, fPeers')
    BY <1>7 DEF ApplyMapResponse
  <2>4. managed[i].nodeKey \in Keys(ToSet(fPeers'))
    <3>1. \E x \in 1..Len(fPeers') : fPeers'[x].nodeKey = managed[i].nodeKey
      BY <1>4, <2>2 DEF Listed
    <3> QED BY <2>2, <3>1, KeysOf
  <2>5. \E j \in 1..Len(Update(managed, fPeers')) :
            /\ Update(managed, fPeers')[j].nodeKey = managed[i].nodeKey
            /\ Update(managed, fPeers')[j].hasKeys = managed[i].hasKeys
    BY <1>1, <2>2, <2>4, UpdateMirrors
  <2> QED BY <2>3, <2>5
<1> QED BY <1>5, <1>6, <1>7 DEF NetmapNext, TailnetChanges, StreamReopened

\* A peer that stays listed keeps its WGPeer through every message, so a session
\* that is up stays up, whatever else the message changes (TSPeerSet::Update).
THEOREM SessionsAlwaysSurvive == NetmapSpec => SessionsSurviveMaps
<1>1. NetmapSpec => []PeersInv
  BY PeersStart, PeersStep, PTL DEF NetmapSpec
<1>2. NetmapSpec => [][SessionsKept]_mapVars
  BY <1>1, SessionsStep, PTL DEF NetmapSpec
<1> QED BY <1>2 DEF SessionsSurviveMaps, SessionsKept

=============================================================================
