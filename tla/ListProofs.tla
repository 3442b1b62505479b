----------------------------- MODULE ListProofs -----------------------------
(***************************************************************************)
(* The slot list of a signal, whoever uses it: types, what can be reached, *)
(* and what connecting and unlinking do to a list whose nodes were all     *)
(* connected at the back.                                                  *)
(***************************************************************************)
EXTENDS SlotChain, TLAPS, WellFoundedInduction

USE DisconnectedAssumption, SlotListAssumption

-----------------------------------------------------------------------------
(* Types                                                                   *)

\* Only nodes are alive, so locking a weak_ptr yields a node or null.
LEMMA LockedLink ==
  ASSUME NEW weak, NEW held
  PROVE  /\ Locked(weak, held) \in Link
         /\ Locked(weak, held) # Null => Locked(weak, held) \in Node
BY DEF Locked, Alive, Reach, Link, Null, Node

\* A search in group_storage yields a node or end().
LEMMA SearchLink ==
  ASSUME ListTypeOK, NEW g
  PROVE  /\ LowerBound(g) \in Link
         /\ UpperBound(g) \in Link
         /\ Successor(g) \in Link
         /\ Last({m \in storage : group[m] <= g}) \in Link
<1>1. \A S \in SUBSET Node : First(S) \in Link /\ Last(S) \in Link
  BY DEF First, Last, Link
<1> QED BY <1>1 DEF ListTypeOK, LinkTypeOK, LowerBound, UpperBound, Successor

\* Making a node keeps the types of what describes it.
LEMMA MakeNodeTyped ==
  ASSUME NodeTypeOK, NEW n, NEW k \in Kinds, NEW g \in Groups \cup {0}, NEW x \in BOOLEAN,
         MakeNode(n, k, g, x)
  PROVE  NodeTypeOK'
<1>1. n \in Node /\ n \in Nat /\ n <= MaxNodes
  BY DEF MakeNode, Node
<1>2. fresh' \in 1..(MaxNodes + 1)
  BY <1>1 DEF MakeNode, Node
<1>3. kind' \in [Node -> Kinds] /\ group' \in [Node -> Groups \cup {0}]
  BY <1>1 DEF MakeNode, NodeTypeOK
<1>4. extended' \subseteq Node
  BY <1>1 DEF MakeNode, NodeTypeOK
<1>5. unusable' \in [Node -> Int]
  BY <1>1 DEF MakeNode, NodeTypeOK
<1> QED BY <1>2, <1>3, <1>4, <1>5 DEF NodeTypeOK

\* Linking a node keeps the types of the links.
LEMMA PushBackTyped ==
  ASSUME LinkTypeOK, NEW n \in Node, PushBackImpl(n)
  PROVE  LinkTypeOK'
BY DEF LinkTypeOK, PushBackImpl, Link, Null

\* The same for a node at the front,
LEMMA PushFrontTyped ==
  ASSUME LinkTypeOK, NEW n \in Node, PushFrontImpl(n)
  PROVE  LinkTypeOK'
BY DEF LinkTypeOK, PushFrontImpl, Link, Null

\* ... and for one in a group.
LEMMA InsertTyped ==
  ASSUME ListTypeOK, NEW n \in Node, NEW g, NEW held, InsertImpl(n, g, held)
  PROVE  LinkTypeOK'
<1>1. CASE InsertBehindGrouped(n, g, held)
  <2> DEFINE p == Locked(Last({m \in storage : group[m] <= g}), held)
  <2>1. p \in Link /\ (p # Null => p \in Node)
    BY LockedLink
  <2> QED BY <1>1, <2>1 DEF InsertBehindGrouped, HookBehind, ListTypeOK, LinkTypeOK, Link, Null, Faults
<1>2. CASE InsertFirstGrouped(n, g)
  BY <1>2 DEF InsertFirstGrouped, HookBehind, ListTypeOK, LinkTypeOK, Link, Null
<1> QED BY <1>1, <1>2 DEF InsertImpl

\* Unlinking a node keeps them as well, provided there is one to unlink.
LEMMA UnlinkFrontTyped ==
  ASSUME LinkTypeOK, head # Null, UnlinkFront
  PROVE  LinkTypeOK'
BY DEF LinkTypeOK, UnlinkFront, UnlinkOnly, StorageWithout, Grouped, Link, Null

\* ... from the back,
LEMMA UnlinkBackTyped ==
  ASSUME LinkTypeOK, NEW held, UnlinkBack(held)
  PROVE  LinkTypeOK'
<1> DEFINE p == Locked(prev[tail], held)
<1>1. p \in Link /\ (p # Null => p \in Node)
  BY LockedLink
<1> QED BY <1>1 DEF LinkTypeOK, UnlinkBack, UnlinkOnly, StorageWithout, Grouped, Link, Null

\* ... from between,
LEMMA UnlinkMiddleTyped ==
  ASSUME LinkTypeOK, NEW n \in Node, NEW held, UnlinkMiddle(n, held)
  PROVE  LinkTypeOK'
<1> DEFINE p == Locked(prev[n], held)
<1>1. p \in Link /\ (p # Null => p \in Node)
  BY LockedLink
<1> QED BY <1>1 DEF LinkTypeOK, UnlinkMiddle, StorageWithout, Grouped, Link, Null, Faults

\* ... from wherever it is,
LEMMA UnlinkNodeTyped ==
  ASSUME LinkTypeOK, NEW n \in Node, NEW held, UnlinkNode(n, held)
  PROVE  LinkTypeOK'
<1>1. CASE n = head /\ UnlinkFront
  BY <1>1, UnlinkFrontTyped DEF Null, Node
<1>2. CASE n # head /\ n = tail /\ UnlinkBack(held)
  BY <1>2, UnlinkBackTyped
<1>3. CASE n \notin {head, tail} /\ UnlinkMiddle(n, held)
  BY <1>3, UnlinkMiddleTyped
<1> QED BY <1>1, <1>2, <1>3 DEF UnlinkNode

\* ... or all of them.
LEMMA UnlinkAllTyped ==
  ASSUME LinkTypeOK, UnlinkAll
  PROVE  LinkTypeOK'
BY DEF LinkTypeOK, UnlinkAll, UnlinkOnly, Link

-----------------------------------------------------------------------------
(* Chains                                                                  *)

\* Nodes are positive numbers, null is not.
LEMMA NodeNumbers ==
  /\ Node \subseteq Nat
  /\ \A n \in Node : n # Null /\ n > 0
  /\ Null \in Nat /\ Null \notin Node
  /\ \A n \in Link : n # Null => n \in Node
BY DEF Node, Null, Link

\* A set of numbers that is not empty has a least one.
LEMMA LeastNumber ==
  ASSUME NEW T \in SUBSET Nat, T # {}
  PROVE  \E x \in T : \A y \in T : x <= y
<1> DEFINE R == OpToRel(<, Nat)
<1>1. \A x, y \in Nat : x < y => <<x, y>> \in R
  BY DEF OpToRel
<1>2. IsWellFoundedOn(R, Nat)
  BY NatLessThanWellFounded
<1> HIDE DEF R
<1>3. PICK x \in T : \A y \in T : <<y, x>> \notin R
  BY <1>2, WFMin
<1>4. ASSUME NEW y \in T PROVE x <= y
  <2>1. ~(y < x) BY <1>1, <1>3
  <2> QED BY <2>1
<1> QED BY <1>4

\* Along is the function its definition describes: there is one, and only one,
\* on every interval 0..k.
LEMMA AlongSteps ==
  ASSUME next \in [Node -> Link], NEW n \in Link
  PROVE  /\ Along(n)[0] = n
         /\ \A k \in Nat :
              Along(n)[k + 1] = IF Along(n)[k] = Null THEN Null ELSE next[Along(n)[k]]
<1> DEFINE Onwards(m) == IF m = Null THEN Null ELSE next[m]
           Walks(k) == {f \in [0..k -> Link] :
                          f[0] = n /\ \A i \in 0..k : i # 0 => f[i] = Onwards(f[i - 1])}
<1>1. \A m \in Link : Onwards(m) \in Link
  BY DEF Link
<1> HIDE DEF Onwards
<1>2. \A k \in Nat : Walks(k) # {}
  <2> DEFINE T == {k \in Nat : Walks(k) = {}}
  <2> SUFFICES ASSUME T # {} PROVE FALSE
    OBVIOUS
  <2>0. T \in SUBSET Nat
    OBVIOUS
  <2>1. PICK k \in T : \A l \in T : k <= l
    BY <2>0, LeastNumber
  <2>2. CASE k = 0
    <3>1. [i \in 0..0 |-> n] \in Walks(0)
      OBVIOUS
    <3> QED BY <2>1, <2>2, <3>1
  <2>3. CASE k # 0
    <3>1. k - 1 \in Nat /\ k - 1 \notin T
      <4> HIDE DEF T
      <4> QED BY <2>0, <2>1, <2>3
    <3>2. PICK f : f \in Walks(k - 1)
      BY <3>1
    <3> DEFINE g == [i \in 0..k |-> IF i = k THEN Onwards(f[k - 1]) ELSE f[i]]
    <3>3. f[k - 1] \in Link /\ \A i \in 0..(k - 1) : f[i] \in Link /\ g[i] = f[i]
      BY <3>1, <3>2
    <3>4. g \in [0..k -> Link]
      <4>1. ASSUME NEW i \in 0..k PROVE g[i] \in Link
        <5>1. i \in 0..(k - 1) \/ i = k
          BY <2>1
        <5> QED BY <1>1, <3>3, <5>1
      <4> QED BY <4>1
    <3>5. g[0] = n
      BY <2>1, <2>3, <3>2, <3>3
    <3>6. ASSUME NEW i \in 0..k, i # 0 PROVE g[i] = Onwards(g[i - 1])
      <4>1. CASE i = k
        BY <3>3, <4>1, <2>1, <2>3
      <4>2. CASE i # k
        <5>1. i \in 0..(k - 1) /\ i - 1 \in 0..(k - 1)
          BY <2>1, <3>6, <4>2
        <5> QED BY <3>2, <3>3, <3>6, <5>1
      <4> QED BY <4>1, <4>2
    <3>7. g \in Walks(k)
      <4> HIDE DEF g
      <4> QED BY <3>4, <3>5, <3>6
    <3> QED BY <2>1, <3>7
  <2> QED BY <2>2, <2>3
<1>3. ASSUME NEW k \in Nat, NEW l \in Nat, k <= l, NEW f \in Walks(k), NEW g \in Walks(l)
      PROVE  \A i \in 0..k : f[i] = g[i]
  <2> DEFINE T == {i \in 0..k : f[i] # g[i]}
  <2> SUFFICES ASSUME T # {} PROVE FALSE
    OBVIOUS
  <2>0. T \in SUBSET Nat
    OBVIOUS
  <2>1. PICK i \in T : \A j \in T : i <= j
    BY <2>0, LeastNumber
  <2>2. i # 0
    BY <2>1
  <2>3. i - 1 \in 0..k /\ i - 1 \in 0..l /\ i \in 0..l /\ i - 1 \notin T
    BY <1>3, <2>1, <2>2
  <2> QED BY <2>1, <2>2, <2>3
<1> DEFINE walk == [k \in Nat |-> (CHOOSE f \in Walks(k) : TRUE)[k]]
<1>4. ASSUME NEW k \in Nat
      PROVE  \E f \in Walks(k) : walk[k] = f[k]
  BY <1>2
<1>5. walk[0] = n
  BY <1>4
<1>6. ASSUME NEW k \in Nat, k # 0
      PROVE  walk[k] = Onwards(walk[k - 1])
  <2>1. k - 1 \in Nat /\ k - 1 <= k /\ k - 1 \in 0..(k - 1) /\ k \in 0..k
    BY <1>6
  <2>2. PICK f \in Walks(k) : walk[k] = f[k]
    BY <1>4
  <2>3. PICK g \in Walks(k - 1) : walk[k - 1] = g[k - 1]
    BY <1>4, <2>1
  <2>4. g[k - 1] = f[k - 1]
    BY <1>3, <2>1
  <2>5. f[k] = Onwards(f[k - 1])
    BY <1>6, <2>1
  <2> QED BY <2>2, <2>3, <2>4, <2>5
<1> HIDE DEF Walks
<1>7. walk = [k \in Nat |-> IF k = 0 THEN n
                           ELSE IF walk[k - 1] = Null THEN Null ELSE next[walk[k - 1]]]
  <2>1. ASSUME NEW k \in Nat
        PROVE  walk[k] = IF k = 0 THEN n ELSE Onwards(walk[k - 1])
    <3> HIDE DEF walk
    <3>1. CASE k = 0
      BY <1>5, <3>1
    <3>2. CASE k # 0
      BY <1>6, <3>2
    <3> QED BY <3>1, <3>2
  <2>2. walk = [k \in Nat |-> walk[k]]
    OBVIOUS
  <2> HIDE DEF walk
  <2>3. \A k \in Nat : walk[k] = IF k = 0 THEN n
                                ELSE IF walk[k - 1] = Null THEN Null ELSE next[walk[k - 1]]
    BY <2>1 DEF Onwards
  <2> QED BY <2>2, <2>3
<1> HIDE DEF walk
<1>8. Along(n) = [k \in Nat |-> IF k = 0 THEN n
                               ELSE IF Along(n)[k - 1] = Null THEN Null ELSE next[Along(n)[k - 1]]]
  BY <1>7 DEF Along
<1>9. PICK a : a = Along(n)
  OBVIOUS
<1>10. a = [k \in Nat |-> IF k = 0 THEN n ELSE IF a[k - 1] = Null THEN Null ELSE next[a[k - 1]]]
  BY <1>8, <1>9
<1>11. a[0] = n /\ \A k \in Nat : a[k + 1] = IF a[k] = Null THEN Null ELSE next[a[k]]
  BY <1>10
<1> QED BY <1>9, <1>11

\* A walk stays in every closed set that it starts in.
LEMMA AlongClosed ==
  ASSUME next \in [Node -> Link], NEW S \in SUBSET Node, Closed(S), NEW n \in S \cup {Null}
  PROVE  \A k \in Nat : Along(n)[k] \in S \cup {Null}
<1> DEFINE T == {k \in Nat : Along(n)[k] \notin S \cup {Null}}
<1> SUFFICES ASSUME T # {} PROVE FALSE
  OBVIOUS
<1>1. PICK k \in T : \A l \in T : k <= l
  BY LeastNumber
<1>2. n \in Link
  BY DEF Link
<1>3. k # 0
  BY <1>1, <1>2, AlongSteps
<1>4. k - 1 \in Nat /\ k - 1 \notin T /\ k = (k - 1) + 1
  BY <1>1, <1>3
<1>5. Along(n)[k] = IF Along(n)[k - 1] = Null THEN Null ELSE next[Along(n)[k - 1]]
  BY <1>2, <1>4, AlongSteps
<1> QED BY <1>1, <1>4, <1>5 DEF Closed

\* What a closed set that holds the roots contains, and what Reach contains.
LEMMA ReachLeast ==
  ASSUME NEW R, NEW S \in SUBSET Node, R \ {Null} \subseteq S, Closed(S)
  PROVE  Reach(R) \subseteq S
BY DEF Reach

\* The roots are reached,
LEMMA ReachRoots ==
  ASSUME NEW R, NEW n \in R, n \in Node
  PROVE  n \in Reach(R)
BY DEF Reach, Null, Node

\* ... and from what is reached nothing else is.
LEMMA ReachClosed ==
  ASSUME next \in [Node -> Link], NEW R
  PROVE  Closed(Reach(R)) /\ Reach(R) \subseteq Node
BY DEF Reach, Closed, Link

\* The neighbours of a node on the chain, and that nothing is between.
LEMMA ChainNext ==
  ASSUME NEW L \in SUBSET Node, Chain(L), NextPasses(L), NEW n \in L, n # tail
  PROVE  /\ next[n] \in L /\ next[n] # Null /\ n < next[n]
         /\ \A m \in L : m <= n \/ next[n] <= m
<1>1. next[n] \in L
  BY DEF Chain
<1> QED BY <1>1, NodeNumbers DEF NextPasses

\* The same backwards,
LEMMA ChainPrev ==
  ASSUME NEW L \in SUBSET Node, Chain(L), NextPasses(L), NEW n \in L, n # head
  PROVE  /\ prev[n] \in L /\ prev[n] # Null /\ prev[n] < n
         /\ next[prev[n]] = n
         /\ \A m \in L : m <= prev[n] \/ n <= m
<1>1. prev[n] \in L /\ next[prev[n]] = n
  BY DEF Chain
<1>2. prev[n] \in Node /\ n # Null
  BY <1>1, NodeNumbers
<1> QED BY <1>1, <1>2, NodeNumbers DEF NextPasses

\* ... and its ends.
LEMMA ChainEnds ==
  ASSUME NEW L \in SUBSET Node, Chain(L)
  PROVE  /\ L = {} <=> head = Null
         /\ L = {} <=> tail = Null
         /\ L # {} => head \in L /\ tail \in L /\ next[tail] = Null
         /\ \A n \in L : head <= n /\ n <= tail
BY NodeNumbers DEF Chain

\* Who follows next from head meets the whole chain: a least node that is
\* missed would follow one that is met.
LEMMA ChainInClosed ==
  ASSUME NEW L \in SUBSET Node, Chain(L), NextPasses(L),
         NEW S, Closed(S), L # {} => head \in S
  PROVE  L \subseteq S
<1> SUFFICES ASSUME L \ S # {} PROVE FALSE
  OBVIOUS
<1>1. L \ S \in SUBSET Nat
  BY NodeNumbers
<1>2. PICK x \in L \ S : \A y \in L \ S : x <= y
  BY <1>1, LeastNumber
<1>3. x # head
  BY <1>2
<1>4. /\ prev[x] \in L /\ prev[x] < x /\ next[prev[x]] = x
  BY <1>2, <1>3, ChainPrev
<1>5. prev[x] \in S
  <2>1. x \in Nat /\ prev[x] \in Nat
    BY <1>2, <1>4, NodeNumbers
  <2>2. ~(x <= prev[x])
    BY <2>1, <1>4
  <2> QED BY <1>2, <1>4, <2>2
<1>6. x \in S
  BY <1>2, <1>4, <1>5, NodeNumbers DEF Closed
<1> QED BY <1>2, <1>6

\* So the chain is what is listed.
LEMMA ChainIsListed ==
  ASSUME NEW L \in SUBSET Node, Chain(L), NextPasses(L), LinkTypeOK
  PROVE  Listed = L
<1>1. Closed(L)
  BY DEF Chain, Closed
<1>2. {head} \ {Null} \subseteq L
  BY DEF Chain
<1>3. Listed \subseteq L
  BY <1>1, <1>2, ReachLeast DEF Listed
<1>4. L # {} => head \in Listed
  BY ReachRoots DEF Listed, Chain
<1>5. Closed(Listed)
  BY ReachClosed DEF Listed, LinkTypeOK
<1>6. L \subseteq Listed
  BY <1>4, <1>5, ChainInClosed
<1> QED BY <1>3, <1>6

\* Its nodes are alive, so that a weak_ptr to one can be locked.
LEMMA ChainLocked ==
  ASSUME NEW L \in SUBSET Node, Chain(L), NextPasses(L), LinkTypeOK,
         NEW held, NEW n \in L
  PROVE  Locked(n, held) = n
<1> DEFINE R == {head, tail, groupHead} \cup held \cup {m \in Node : next[m] = m}
<1>1. head \in L
  BY DEF Chain
<1>2. head \in Reach(R)
  BY <1>1, ReachRoots
<1>3. Closed(Reach(R))
  BY ReachClosed DEF LinkTypeOK
<1>4. L \subseteq Reach(R)
  BY <1>2, <1>3, ChainInClosed
<1> QED BY <1>4 DEF Locked, Alive

\* A walk along the chain comes to greater and greater nodes, and to all.
LEMMA ChainWalk ==
  ASSUME LinkTypeOK, NEW L \in SUBSET Node, Chain(L), NextPasses(L)
  PROVE  /\ \A k \in Nat : Along(head)[k] \in L \cup {Null}
         /\ \A i, j \in Nat : i < j /\ Along(head)[j] # Null =>
              Along(head)[i] # Null /\ Along(head)[i] < Along(head)[j]
         /\ \A n \in L : \E k \in 0..(MaxNodes - 1) : Along(head)[k] = n
<1> USE NodeNumbers
<1>1. head \in L \cup {Null} /\ head \in Link /\ next \in [Node -> Link]
  BY ChainEnds DEF LinkTypeOK
<1>2. Closed(L)
  BY DEF Chain, Closed
<1>3. PICK w : w = Along(head)
  OBVIOUS
<1>4. /\ w[0] = head
      /\ \A k \in Nat : w[k + 1] = IF w[k] = Null THEN Null ELSE next[w[k]]
  BY <1>1, <1>3, AlongSteps
<1>5. \A k \in Nat : w[k] \in L \cup {Null}
  BY <1>1, <1>2, <1>3, AlongClosed
<1>6. ASSUME NEW k \in Nat, w[k + 1] # Null
      PROVE  w[k] # Null /\ w[k] < w[k + 1] /\ w[k] \in Nat /\ w[k + 1] \in Nat
  <2>1. w[k] \in L /\ w[k + 1] = next[w[k]] /\ w[k + 1] \in L
    BY <1>4, <1>5, <1>6
  <2>2. w[k] \in Node /\ w[k + 1] \in Node
    BY <2>1
  <2> QED BY <1>6, <2>1, <2>2 DEF NextPasses
<1>7. ASSUME NEW i \in Nat, NEW j \in Nat, i < j, w[j] # Null
      PROVE  w[i] # Null /\ w[i] < w[j]
  <2> DEFINE T == {k \in Nat : i < k /\ w[k] # Null /\ ~(w[i] # Null /\ w[i] < w[k])}
  <2> SUFFICES ASSUME T # {} PROVE FALSE
    BY <1>7
  <2>1. T \in SUBSET Nat
    OBVIOUS
  <2>2. PICK k \in T : \A l \in T : k <= l
    BY <2>1, LeastNumber
  <2>3. PICK l \in Nat : k = l + 1
    <3>1. k \in Nat /\ 0 < k
      BY <2>2
    <3>2. k - 1 \in Nat /\ k = (k - 1) + 1
      BY <3>1
    <3> QED BY <3>2
  <2>4. w[l] # Null /\ w[l] < w[k] /\ w[l] \in Nat /\ w[k] \in Nat
    BY <1>6, <2>2, <2>3
  <2>5. l \notin T
    BY <2>2, <2>3
  <2>6. i # l
    BY <2>2, <2>4
  <2>7. i < l
    BY <2>2, <2>3, <2>6
  <2>8. w[i] # Null /\ w[i] < w[l]
    BY <2>4, <2>5, <2>7
  <2>9. w[i] \in Nat
    BY <1>5
  <2> QED BY <2>2, <2>4, <2>8, <2>9
<1>8. ASSUME NEW k \in Nat, w[k] # Null
      PROVE  k \in 0..(MaxNodes - 1)
  <2> DEFINE T == {l \in Nat : w[l] # Null /\ ~(l + 1 <= w[l])}
  <2>1. T = {}
    <3> SUFFICES ASSUME T # {} PROVE FALSE
      OBVIOUS
    <3>1. T \in SUBSET Nat
      OBVIOUS
    <3>2. PICK l \in T : \A m \in T : l <= m
      BY <3>1, LeastNumber
    <3>3. l # 0
      <4>1. w[0] # Null => w[0] \in Nat /\ 0 < w[0]
        BY <1>5
      <4> QED BY <3>2, <4>1
    <3>4. PICK m \in Nat : l = m + 1
      <4>1. l - 1 \in Nat /\ l = (l - 1) + 1
        BY <3>2, <3>3
      <4> QED BY <4>1
    <3>5. w[m] # Null /\ w[m] < w[l] /\ w[m] \in Nat /\ w[l] \in Nat
      BY <1>6, <3>2, <3>4
    <3>6. m \notin T
      BY <3>2, <3>4
    <3>7. m + 1 <= w[m]
      BY <3>5, <3>6
    <3> QED BY <3>2, <3>4, <3>5, <3>7
  <2>2. k + 1 <= w[k]
    BY <1>8, <2>1
  <2>3. w[k] \in 1..MaxNodes
    BY <1>5, <1>8 DEF Node
  <2> QED BY <2>2, <2>3, SlotListAssumption
<1>9. ASSUME NEW n \in L
      PROVE  \E k \in 0..(MaxNodes - 1) : w[k] = n
  <2> DEFINE S == {m \in L : \E k \in Nat : w[k] = m}
  <2>1. L # {} => head \in S
    BY <1>4, ChainEnds
  <2>2. ASSUME NEW m \in S, next[m] # Null
        PROVE  next[m] \in S
    <3>1. PICK k \in Nat : w[k] = m
      BY <2>2
    <3>2. w[k + 1] = next[m] /\ k + 1 \in Nat
      BY <1>4, <3>1
    <3> QED BY <1>5, <2>2, <3>2
  <2>3. Closed(S)
    BY <2>2 DEF Closed
  <2> HIDE DEF S
  <2>4. n \in S
    BY <2>1, <2>3, ChainInClosed
  <2>5. PICK k \in Nat : w[k] = n
    BY <2>4 DEF S
  <2> QED BY <1>8, <2>5
<1> QED BY <1>3, <1>5, <1>7, <1>9

\* So a mapping that walks a chain can be said with numbers: V is what is
\* connected on it.
LEMMA ChainMeets ==
  ASSUME LinkTypeOK, NEW L \in SUBSET Node, Chain(L), NextPasses(L),
         NEW V, V = {n \in L : Connected(unusable[n])}
  PROVE  Met = V /\ MetBefore = {p \in V \X V : p[1] < p[2]}
<1> USE NodeNumbers
<1>1. PICK I : I = {p \in V \X V : p[1] < p[2]}
  OBVIOUS
<1>2. PICK w : w = Along(head)
  OBVIOUS
<1>3. /\ \A k \in Nat : w[k] \in L \cup {Null}
      /\ \A i, j \in Nat : i < j /\ w[j] # Null => w[i] # Null /\ w[i] < w[j]
      /\ \A n \in L : \E k \in 0..(MaxNodes - 1) : w[k] = n
  BY <1>2, ChainWalk
<1>4. 0..(MaxNodes - 1) \subseteq Nat /\ 1..(MaxNodes - 1) \subseteq Nat
  BY SlotListAssumption
<1>5. Met = V
  <2>1. Met = {n \in {w[k] : k \in 0..(MaxNodes - 1)} : n # Null /\ Connected(unusable[n])}
    BY <1>2 DEF Met
  <2>2. ASSUME NEW n \in Met PROVE n \in V
    <3>1. PICK k \in 0..(MaxNodes - 1) : n = w[k]
      BY <2>1, <2>2
    <3>2. n # Null /\ Connected(unusable[n])
      BY <2>1, <2>2
    <3>3. n \in L
      BY <1>3, <1>4, <3>1, <3>2
    <3> QED BY <3>2, <3>3
  <2>3. ASSUME NEW n \in V PROVE n \in Met
    BY <1>3, <2>1, <2>3
  <2> QED BY <2>2, <2>3
<1>6. \A p : p \in MetBefore <=>
              /\ \E j \in 1..(MaxNodes - 1) : p \in {<<w[i], w[j]>> : i \in 0..(j - 1)}
              /\ p \in V \X V
  BY <1>2, <1>5 DEF MetBefore
<1>7. ASSUME NEW p \in MetBefore PROVE p \in I
  <2>1. PICK j \in 1..(MaxNodes - 1) : p \in {<<w[i], w[j]>> : i \in 0..(j - 1)}
    BY <1>6, <1>7
  <2>2. PICK i \in 0..(j - 1) : p = <<w[i], w[j]>>
    BY <2>1
  <2>3. i \in Nat /\ j \in Nat /\ i < j
    BY SlotListAssumption
  <2>4. p \in V \X V /\ w[i] \in V /\ w[j] \in V
    <3>1. <<w[i], w[j]>> \in V \X V
      BY <1>6, <1>7, <2>2
    <3> QED BY <2>2, <3>1
  <2>5. w[j] # Null
    BY <2>4
  <2> QED BY <1>1, <1>3, <2>2, <2>3, <2>4, <2>5
<1>8. ASSUME NEW p \in I PROVE p \in MetBefore
  <2>1. PICK m \in V, n \in V : p = <<m, n>> /\ m < n
    <3>1. p \in V \X V /\ p[1] < p[2]
      BY <1>1, <1>8
    <3>2. p = <<p[1], p[2]>> /\ p[1] \in V /\ p[2] \in V
      BY <3>1
    <3> QED BY <3>1, <3>2
  <2>2. m \in L /\ n \in L /\ m \in Nat /\ n \in Nat
    OBVIOUS
  <2>3. PICK i \in 0..(MaxNodes - 1) : w[i] = m
    BY <1>3, <2>2
  <2>4. PICK j \in 0..(MaxNodes - 1) : w[j] = n
    BY <1>3, <2>2
  <2>5. i \in Nat /\ j \in Nat
    BY <1>4
  <2>6. i < j
    <3>1. i # j
      BY <2>1, <2>2, <2>3, <2>4
    <3>2. ~(j < i)
      BY <1>3, <2>1, <2>2, <2>3, <2>4, <2>5
    <3> QED BY <2>5, <3>1, <3>2
  <2>7. j \in 1..(MaxNodes - 1) /\ i \in 0..(j - 1)
    BY <2>5, <2>6, SlotListAssumption
  <2>8. p \in {<<w[k], w[j]>> : k \in 0..(j - 1)}
    BY <2>1, <2>3, <2>4, <2>7
  <2> QED BY <1>6, <2>1, <2>7, <2>8
<1> QED BY <1>1, <1>5, <1>7, <1>8

-----------------------------------------------------------------------------
(* What the functions of the list do to a chain                            *)

\* The nodes that were made are those before fresh.
LEMMA KnownNumbers ==
  ASSUME NodeTypeOK
  PROVE  Known \subseteq Node /\ \A n \in Node : n \in Known <=> n < fresh
BY DEF NodeTypeOK, Known, Node

\* push_back_impl adds the greatest node to the chain, and whoever walks outside
\* may now meet it.
LEMMA PushBackChain ==
  ASSUME ListTypeOK, NEW L \in SUBSET Node, Chain(L), NextPasses(L),
         NEW n \in Node, n = fresh, fresh' = n + 1, PushBackImpl(n),
         NEW M \in SUBSET Node, M = L \cup {n}
  PROVE  /\ Chain(M)' /\ NextPasses(M)'
         /\ \A S \in SUBSET Node : Closed(S) => Closed(S \cup {n})'
         /\ \A k \in Node \ M : next'[k] = next[k]
<1> USE NodeNumbers
<1>1. /\ Known' = Known \cup {n}
      /\ n \notin Known /\ \A m \in Known : m < n /\ m \in Nat
  BY DEF Known, Node
<1>2. next[n] = Null
  BY <1>1 DEF NextPasses
<1>3. \A m \in L : m \in Known /\ m < n /\ m # n
  BY <1>1 DEF Chain
<1>4. next \in [Node -> Link] /\ prev \in [Node -> Link]
  BY DEF ListTypeOK, LinkTypeOK
<1>5. n \in Nat /\ M \in SUBSET Nat /\ \A m \in M : m = n \/ m \in L
  OBVIOUS
<1>6. CASE L = {}
  <2>1. tail = Null
    BY <1>6, ChainEnds
  <2>2. head' = n /\ tail' = n /\ UNCHANGED <<next, prev>>
    BY <2>1 DEF PushBackImpl
  <2>3. Chain(M)'
    BY <1>1, <1>2, <1>5, <1>6, <2>2 DEF Chain
  <2>4. NextPasses(M)'
    BY <1>1, <1>5, <1>6, <2>2 DEF NextPasses
  <2>5. \A S \in SUBSET Node : Closed(S) => Closed(S \cup {n})'
    BY <1>2, <2>2 DEF Closed
  <2> QED BY <2>2, <2>3, <2>4, <2>5
<1>7. CASE L # {}
  <2>1. /\ head \in L /\ tail \in L /\ next[tail] = Null
        /\ \A m \in L : head <= m /\ m <= tail
    BY <1>7, ChainEnds
  <2>2. tail' = n /\ head' = head
        /\ next' = [next EXCEPT ![tail] = n] /\ prev' = [prev EXCEPT ![n] = tail]
    BY <2>1 DEF PushBackImpl
  <2>3. /\ next'[n] = Null /\ next'[tail] = n /\ prev'[n] = tail
        /\ \A m \in Node : m # tail => next'[m] = next[m]
        /\ \A m \in Node : m # n => prev'[m] = prev[m]
    BY <1>2, <1>3, <1>4, <2>1, <2>2
  <2>4. \A m \in M : head <= m /\ m <= n
    BY <1>3, <1>5, <2>1
  <2>5. ASSUME NEW m \in M
        PROVE  /\ m # n => next'[m] \in M
               /\ m # head => prev'[m] \in M /\ next'[prev'[m]] = m
    <3>1. CASE m = n
      BY <1>3, <1>5, <2>1, <2>3, <3>1
    <3>2. CASE m # n
      <4>1. m \in L
        BY <3>2, <1>5
      <4>2. m # tail => next[m] \in L
        BY <4>1, ChainNext
      <4>3. m # head => prev[m] \in L /\ next[prev[m]] = m /\ prev[m] < m
        BY <4>1, ChainPrev
      <4>4. m # head => prev[m] # tail
        BY <2>1, <4>1, <4>3
      <4> QED BY <1>5, <2>3, <3>2, <4>1, <4>2, <4>3, <4>4
    <3> QED BY <3>1, <3>2
  <2>6. Chain(M)'
    <3>1. M \subseteq Known' /\ M # {} /\ head \in M /\ n \in M
      BY <1>1, <1>3, <1>5, <2>1
    <3> QED BY <3>1, <2>2, <2>3, <2>4, <2>5 DEF Chain
  <2>7. NextPasses(M)'
    <3> SUFFICES ASSUME NEW k \in Node, next'[k] # Null
                 PROVE  /\ k \in Known' /\ next'[k] \in Known' /\ k < next'[k]
                        /\ \A m \in M : m <= k \/ next'[k] <= m
      BY DEF NextPasses
    <3>1. CASE k = tail
      BY <3>1, <1>1, <1>3, <1>5, <2>1, <2>3, <2>4
    <3>2. CASE k # tail
      <4>1. next'[k] = next[k]
        BY <3>2, <2>3
      <4>2. k \in Known /\ next[k] \in Known /\ k < next[k] /\ next[k] < n
            /\ \A m \in L : m <= k \/ next[k] <= m
        BY <4>1, <1>1 DEF NextPasses
      <4>3. next[k] \in Nat
        BY <4>2, <1>1
      <4> HIDE NodeNumbers
      <4>5. next[k] <= n /\ next[k] # n
        BY <4>2, <4>3, <1>5
      <4>4. \A m \in M : m <= k \/ next[k] <= m
        BY <4>2, <4>5, <1>5
      <4> QED BY <4>1, <4>2, <4>4, <1>1
    <3> QED BY <3>1, <3>2
  <2>8. \A S \in SUBSET Node : Closed(S) => Closed(S \cup {n})'
    BY <2>1, <2>3 DEF Closed
  <2>9. \A k \in Node \ M : next'[k] = next[k]
    BY <1>5, <2>1, <2>3
  <2> QED BY <2>6, <2>7, <2>8, <2>9
<1> QED BY <1>6, <1>7

\* The three ways to unlink a node leave the rest of the chain, and whoever
\* stands outside goes on to where it went, or past the node.
LEMMA UnlinkFrontChain ==
  ASSUME ListTypeOK, NEW L \in SUBSET Node, Chain(L), NextPasses(L),
         NEW n \in L, n = head, UnlinkFront, UNCHANGED fresh,
         NEW M \in SUBSET Node, M = L \ {n}
  PROVE  /\ Chain(M)' /\ NextPasses(M)'
         /\ UNCHANGED <<next, fault>>
         /\ groupHead = Null => groupHead' = Null
<1> USE NodeNumbers
<1>1. Known' = Known
  BY DEF Known
<1>2. UNCHANGED <<next, prev, fault>> /\ (groupHead = Null => groupHead' = Null)
  BY DEF UnlinkFront, UnlinkOnly
<1>3. NextPasses(M)'
  BY <1>1, <1>2 DEF NextPasses
<1>4. \A m \in L : n <= m /\ m \in Nat /\ m <= tail
  BY ChainEnds
<1>5. CASE head = tail
  <2>1. M = {}
    BY <1>4, <1>5
  <2>2. head' = Null /\ tail' = Null
    BY <1>5 DEF UnlinkFront, UnlinkOnly
  <2>3. Chain(M)'
    BY <2>1, <2>2 DEF Chain
  <2> QED BY <1>2, <1>3, <2>3
<1>6. CASE head # tail
  <2> DEFINE h == next[n]
  <2>1. head' = h /\ tail' = tail
    BY <1>6 DEF UnlinkFront
  <2>2. /\ h \in L /\ n < h
        /\ \A m \in L : m <= n \/ h <= m
    BY <1>6, ChainNext
  <2>3. tail \in L /\ next[tail] = Null /\ tail # n
    BY <1>6, ChainEnds
  <2> HIDE DEF h
  <2>4. \A m \in M : m \in L /\ h <= m
    BY <1>4, <2>2
  <2>5. ASSUME NEW m \in M
        PROVE  /\ m # tail => next[m] \in M
               /\ m # h => prev[m] \in M /\ next[prev[m]] = m
    <3>1. m # tail => next[m] \in L /\ m < next[m]
      BY <2>4, ChainNext
    <3>2. m # tail => next[m] # n
      BY <3>1, <1>4, <2>4
    <3>3. m # n
      OBVIOUS
    <3>4. prev[m] \in L /\ next[prev[m]] = m
      BY <3>3, <2>4, ChainPrev
    <3>5. m # h => prev[m] # n
      BY <3>4 DEF h
    <3> QED BY <3>1, <3>2, <3>4, <3>5
  <2>6. Chain(M)'
    <3>1. M \subseteq Known' /\ h \in M /\ tail \in M
      BY <1>1, <1>4, <2>2, <2>3 DEF Chain
    <3> QED BY <3>1, <1>2, <1>4, <2>1, <2>3, <2>4, <2>5 DEF Chain
  <2> QED BY <1>2, <1>3, <2>6
<1> QED BY <1>5, <1>6

\* The last node is taken off.
LEMMA UnlinkBackChain ==
  ASSUME ListTypeOK, NEW L \in SUBSET Node, Chain(L), NextPasses(L),
         NEW n \in L, n = tail, n # head, NEW held, UnlinkBack(held), UNCHANGED fresh,
         NEW M \in SUBSET Node, M = L \ {n}
  PROVE  /\ Chain(M)' /\ NextPasses(M)'
         /\ prev[n] \in M /\ next[prev[n]] = n /\ next[n] = Null
         /\ next' = [next EXCEPT ![prev[n]] = Null]
         /\ UNCHANGED fault
         /\ groupHead = Null => groupHead' = Null
<1> USE NodeNumbers
<1>1. Known' = Known /\ L \subseteq Known
  BY DEF Known, Chain
<1> DEFINE p == prev[n]
<1>2. /\ p \in L /\ next[p] = n /\ p < n /\ p # Null /\ p # n
      /\ \A m \in L : m <= p \/ n <= m
  BY ChainPrev
<1>3. Locked(p, held) = p
  BY <1>2, ChainLocked DEF ListTypeOK
<1>4. /\ tail' = p /\ prev' = [prev EXCEPT ![n] = Null]
      /\ next' = [next EXCEPT ![p] = Null]
      /\ UNCHANGED <<head, fault>>
      /\ groupHead = Null => groupHead' = Null
  BY <1>2, <1>3 DEF UnlinkBack
<1>5. next[n] = Null /\ head \in L /\ \A m \in L : head <= m /\ m <= n
  BY ChainEnds
<1> HIDE DEF p
<1>6. \A m \in M : m \in L /\ m # n /\ m <= p
  BY <1>2, <1>5
<1>7. /\ next'[p] = Null
      /\ \A m \in Node : m # p => next'[m] = next[m]
      /\ \A m \in M : prev'[m] = prev[m]
  BY <1>2, <1>4 DEF ListTypeOK, LinkTypeOK
<1>8. ASSUME NEW m \in M
      PROVE  /\ m # p => next'[m] \in M
             /\ m # head => prev'[m] \in M /\ next'[prev'[m]] = m
  <2>1. next[m] \in L /\ m < next[m] /\ \A k \in L : k <= m \/ next[m] <= k
    BY <1>6, ChainNext
  <2>2. m # p => next[m] # n
    BY <1>2, <1>6, <2>1
  <2>3. m # head => prev[m] \in L /\ next[prev[m]] = m /\ prev[m] < m
    BY <1>6, ChainPrev
  <2>4. m # head => prev[m] # n /\ prev[m] # p
    BY <1>2, <1>6, <2>3
  <2> QED BY <1>7, <2>1, <2>2, <2>3, <2>4
<1>9. Chain(M)'
  <2>1. M \subseteq Known' /\ head \in M /\ p \in M
    BY <1>1, <1>2, <1>5
  <2> QED BY <2>1, <1>4, <1>5, <1>6, <1>7, <1>8 DEF Chain
<1>10. NextPasses(M)'
  BY <1>1, <1>7 DEF NextPasses
<1> QED BY <1>2, <1>4, <1>5, <1>9, <1>10 DEF p

\* A node that has neighbours on both sides is taken off.
LEMMA UnlinkMiddleChain ==
  ASSUME ListTypeOK, NEW L \in SUBSET Node, Chain(L), NextPasses(L),
         NEW n \in L, n # tail, n # head, NEW held, UnlinkMiddle(n, held), UNCHANGED fresh,
         NEW M \in SUBSET Node, M = L \ {n}
  PROVE  /\ Chain(M)' /\ NextPasses(M)'
         /\ prev[n] \in M /\ next[prev[n]] = n /\ next[n] \in M
         /\ next' = [next EXCEPT ![prev[n]] = next[n]]
         /\ UNCHANGED fault
         /\ groupHead = Null => groupHead' = Null
<1> USE NodeNumbers
<1>1. Known' = Known /\ L \subseteq Known
  BY DEF Known, Chain
<1> DEFINE p == prev[n]
           q == next[n]
<1>2. /\ p \in L /\ next[p] = n /\ p < n /\ p # Null /\ p # n
      /\ \A m \in L : m <= p \/ n <= m
  BY ChainPrev
<1>3. /\ q \in L /\ q # Null /\ n < q
      /\ \A m \in L : m <= n \/ q <= m
  BY ChainNext
<1>4. Locked(p, held) = p
  <2>1. p \in L /\ LinkTypeOK
    BY <1>2 DEF ListTypeOK
  <2> HIDE DEF p
  <2> QED BY <2>1, ChainLocked
<1>5. /\ prev' = [prev EXCEPT ![q] = p]
      /\ next' = [next EXCEPT ![p] = q]
      /\ UNCHANGED <<head, tail, fault>>
      /\ groupHead = Null => groupHead' = Null
  BY <1>2, <1>3, <1>4 DEF UnlinkMiddle
<1>6. /\ head \in L /\ tail \in L /\ next[tail] = Null
      /\ \A m \in L : head <= m /\ m <= tail
  BY ChainEnds
<1> HIDE DEF p, q
<1>7. \A m \in M : m \in L /\ m # n /\ (m <= p \/ q <= m)
  <2>1. \A m \in L : m <= n /\ n <= m => m = n
    OBVIOUS
  <2> QED BY <1>2, <1>3, <2>1
<1>8. /\ next'[p] = q /\ prev'[q] = p
      /\ \A m \in Node : m # p => next'[m] = next[m]
      /\ \A m \in Node : m # q => prev'[m] = prev[m]
  BY <1>2, <1>3, <1>5 DEF ListTypeOK, LinkTypeOK
<1>9. p \in M /\ q \in M /\ p < q
  BY <1>2, <1>3
<1>10. ASSUME NEW m \in M
       PROVE  /\ m # tail => next'[m] \in M
              /\ m # head => prev'[m] \in M /\ next'[prev'[m]] = m
  <2>1. m # tail => next[m] \in L /\ m < next[m] /\ \A k \in L : k <= m \/ next[m] <= k
    BY <1>7, ChainNext
  <2>2. m # tail /\ m # p => next[m] # n
    BY <1>2, <1>3, <1>7, <2>1
  <2>3. m # tail => next'[m] \in M
    BY <1>8, <1>9, <2>1, <2>2
  <2>4. m # head => prev[m] \in L /\ next[prev[m]] = m
    BY <1>7, ChainPrev
  <2>5. m # head /\ m # q => prev[m] # n /\ prev[m] # p
    BY <1>2, <1>7, <2>4 DEF q
  <2>6. m # head /\ m # q => prev'[m] \in M /\ next'[prev'[m]] = m
    <3>1. m # head /\ m # q => prev'[m] = prev[m] /\ prev[m] \in M /\ next'[prev[m]] = next[prev[m]]
      BY <1>8, <2>4, <2>5
    <3> QED BY <2>4, <3>1
  <2>7. prev'[q] \in M /\ next'[prev'[q]] = q
    BY <1>8, <1>9
  <2> QED BY <2>3, <2>6, <2>7
<1>11. Chain(M)'
  <2>1. M \subseteq Known' /\ head \in M /\ tail \in M
    BY <1>1, <1>6
  <2>2. next'[tail] = Null /\ \A m \in M : head <= m /\ m <= tail
    BY <1>2, <1>6, <1>8
  <2> QED BY <2>1, <2>2, <1>5, <1>10 DEF Chain
<1>12. NextPasses(M)'
  <2> SUFFICES ASSUME NEW k \in Node, next'[k] # Null
               PROVE  /\ k \in Known' /\ next'[k] \in Known' /\ k < next'[k]
                      /\ \A m \in M : m <= k \/ next'[k] <= m
    BY DEF NextPasses
  <2>1. CASE k = p
    BY <2>1, <1>1, <1>2, <1>3, <1>7, <1>8, <1>9
  <2>2. CASE k # p
    BY <2>2, <1>1, <1>8 DEF NextPasses
  <2> QED BY <2>1, <2>2
<1> QED BY <1>2, <1>5, <1>9, <1>11, <1>12 DEF p, q

\* What the rest of the proof needs of an unlinking: nobody's way gets longer,
\* and no way ends at a node outside where it did not end before.
LEMMA UnlinkChain ==
  ASSUME ListTypeOK, NEW L \in SUBSET Node, Chain(L), NextPasses(L),
         NEW n \in L, NEW held,
         UnlinkNode(n, held) \/ (n = head /\ UnlinkFront), UNCHANGED fresh,
         NEW M \in SUBSET Node, M = L \ {n}
  PROVE  /\ Chain(M)' /\ NextPasses(M)'
         /\ UNCHANGED fault
         /\ groupHead = Null => groupHead' = Null
         /\ \A S \in SUBSET Node : Closed(S) => Closed(S)'
         /\ \A k \in Node \ M : next'[k] = next[k]
         /\ next[n] = Null => n = tail
<1>1. next[n] = Null => n = tail
  BY ChainNext
<1>2. next \in [Node -> Link]
  BY DEF ListTypeOK, LinkTypeOK
<1>3. CASE n = head /\ UnlinkFront
  <2>1. Chain(M)' /\ NextPasses(M)' /\ UNCHANGED <<next, fault>>
        /\ (groupHead = Null => groupHead' = Null)
    BY <1>3, UnlinkFrontChain
  <2> QED BY <1>1, <2>1 DEF Closed
<1>4. CASE n # head /\ n = tail /\ UnlinkBack(held)
  <2>1. /\ Chain(M)' /\ NextPasses(M)' /\ UNCHANGED fault
        /\ groupHead = Null => groupHead' = Null
        /\ prev[n] \in M /\ next' = [next EXCEPT ![prev[n]] = Null]
    BY <1>4, UnlinkBackChain
  <2>2. \A S \in SUBSET Node : Closed(S) => Closed(S)'
    BY <1>2, <2>1 DEF Closed
  <2>3. \A k \in Node \ M : next'[k] = next[k]
    BY <1>2, <2>1
  <2> QED BY <1>1, <2>1, <2>2, <2>3
<1>5. CASE n \notin {head, tail} /\ UnlinkMiddle(n, held)
  <2>1. /\ Chain(M)' /\ NextPasses(M)' /\ UNCHANGED fault
        /\ groupHead = Null => groupHead' = Null
        /\ prev[n] \in M /\ next[prev[n]] = n /\ next[n] \in M
        /\ next' = [next EXCEPT ![prev[n]] = next[n]]
    BY <1>5, UnlinkMiddleChain
  <2>2. ASSUME NEW S \in SUBSET Node, Closed(S), NEW k \in S, next'[k] # Null
        PROVE  next'[k] \in S
    <3>1. n # Null /\ next[n] # Null
      BY <2>1, NodeNumbers
    <3> QED BY <1>2, <2>1, <2>2, <3>1 DEF Closed
  <2>3. \A S \in SUBSET Node : Closed(S) => Closed(S)'
    BY <2>2 DEF Closed
  <2>4. \A k \in Node \ M : next'[k] = next[k]
    BY <1>2, <2>1
  <2> QED BY <1>1, <2>1, <2>3, <2>4
<1> QED BY <1>3, <1>4, <1>5 DEF UnlinkNode

\* clear() leaves an empty chain and touches no next.
LEMMA UnlinkAllChain ==
  ASSUME UnlinkAll
  PROVE  Chain({})' /\ UNCHANGED <<next, fault>> /\ groupHead' = Null
BY DEF UnlinkAll, UnlinkOnly, Chain
=============================================================================
