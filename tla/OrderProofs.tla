----------------------------- MODULE OrderProofs -----------------------------
(***************************************************************************)
(* Emissions call slots in order and none twice, for every client that     *)
(* does not use erase(), also while they walk a list that the other        *)
(* defects of the code have damaged.  For clients whose calls need no prev *)
(* the list stays whole, because no link leads against that order.         *)
(***************************************************************************)
EXTENDS SignalOrder, SignalForward, SignalProofs, FiniteSetTheorems

USE DisconnectedAssumption, SlotListAssumption, SignalAssumption

-----------------------------------------------------------------------------
(* The order of the slots                                                  *)

\* Precedes is a strict order, and nothing but a front slot comes before one.
LEMMA PrecedesOrder ==
  ASSUME NodeTypeOK, NEW k \in Node, NEW m \in Node, NEW n \in Node
  PROVE  /\ ~Precedes(n, n)
         /\ Precedes(k, m) /\ Precedes(m, n) => Precedes(k, n)
         /\ Precedes(m, n) /\ kind[n] = "front" => kind[m] = "front"
<1>1. k \in Int /\ m \in Int /\ n \in Int
  BY DEF Node
<1>2. Groups \cup {0} \subseteq Int
  BY DEF SlotListAssumption
<1>3. group[k] \in Int /\ group[m] \in Int /\ group[n] \in Int
  BY <1>2 DEF NodeTypeOK
<1> QED BY <1>1, <1>3 DEF Precedes, Rank, Before

\* The same of pairs of nodes that a link may join.
LEMMA LeadsOrder ==
  ASSUME NodeTypeOK, NEW b, NEW k, NEW m, NEW n
  PROVE  /\ ~Leads(b, n, n)
         /\ Leads(b, k, m) /\ Leads(b, m, n) => Leads(b, k, n)
         /\ Leads(b, m, n) /\ kind[n] = "front" => kind[m] = "front"
BY KnownNumbers, PrecedesOrder DEF Leads

\* What is known of the nodes made before is not changed by making one.
NodesStand ==
  /\ fresh' = fresh \/ fresh' = fresh + 1
  /\ Known \subseteq Known'
  /\ \A n \in Known : kind'[n] = kind[n] /\ group'[n] = group[n]

\* Nodes that were made stay in their order.
LEMMA OrderStands ==
  ASSUME NodesStand, NEW m \in Known, NEW n \in Known
  PROVE  Precedes(m, n)' <=> Precedes(m, n)
BY DEF NodesStand, Precedes, Rank, Before

\* Making nodes does not move the ones made before to the other side of b.
LEMMA SinceStands ==
  ASSUME NodeTypeOK, NodesStand, NEW b \in 1..fresh, NEW n \in Known
  PROVE  n \in Since(b)' <=> n \in Since(b)
<1>1. fresh \in Int /\ b \in Int
  BY DEF NodeTypeOK
<1>2. n \in Int /\ n < fresh
  BY <1>1 DEF Known
<1>3. CASE fresh' = fresh
  BY <1>3 DEF Since
<1>4. CASE fresh' = fresh + 1
  BY <1>1, <1>2, <1>4 DEF Since
<1> QED BY <1>3, <1>4 DEF NodesStand

\* Links are in order after a step when those it stores are.
LEMMA LinksKept ==
  ASSUME ListTypeOK, ListTypeOK', NodesStand,
         NEW b \in 1..fresh, LinksInOrder(b),
         \A m, n \in Node : next'[m] = n /\ next[m] # n => Leads(b, m, n)',
         \A m, n \in Node : prev'[n] = m /\ prev[n] # m => Leads(b, m, n)'
  PROVE  LinksInOrder(b)'
<1>1. \A m, n \in Known : Leads(b, m, n) => Leads(b, m, n)'
  <2> SUFFICES ASSUME NEW m \in Known, NEW n \in Known, Leads(b, m, n) PROVE Leads(b, m, n)'
    OBVIOUS
  <2>1. Precedes(m, n)'
    BY OrderStands DEF Leads
  <2>2. m \in Known' /\ n \in Known'
    BY DEF NodesStand
  <2>3. m \in Since(b)' <=> n \in Since(b)'
    BY SinceStands DEF Leads, ListTypeOK
  <2> QED BY <2>1, <2>2, <2>3 DEF Leads
<1>2. ASSUME NEW n \in Node, NEW q \in Node, next'[n] = q
      PROVE  Leads(b, n, q)'
  <2>1. CASE next[n] = q
    BY <1>1, <2>1, NodeNumbers DEF LinksInOrder, Leads
  <2>2. CASE next[n] # q
    BY <1>2, <2>2
  <2> QED BY <2>1, <2>2
<1>3. ASSUME NEW n \in Node, NEW p \in Node, prev'[n] = p
      PROVE  Leads(b, p, n)'
  <2>1. CASE prev[n] = p
    BY <1>1, <2>1, NodeNumbers DEF LinksInOrder, Leads
  <2>2. CASE prev[n] # p
    BY <1>3, <2>2
  <2> QED BY <2>1, <2>2
<1>4. \A n \in Node : next'[n] \in Link /\ prev'[n] \in Link
  BY DEF ListTypeOK, LinkTypeOK
<1>5. ASSUME NEW n \in Node
      PROVE  /\ next'[n] # Null => Leads(b, n, next[n])'
             /\ prev'[n] # Null => Leads(b, prev[n], n)'
  <2>1. next'[n] # Null => next'[n] \in Node
    BY <1>4, NodeNumbers
  <2>2. prev'[n] # Null => prev'[n] \in Node
    BY <1>4, NodeNumbers
  <2>3. ASSUME next'[n] # Null PROVE Leads(b, n, next[n])'
    <3>1. PICK q \in Node : q = next'[n]
      BY <2>1, <2>3
    <3>2. Leads(b, n, q)'
      BY <1>2, <3>1
    <3> QED BY <3>1, <3>2 DEF Leads, Precedes, Rank, Before
  <2>4. ASSUME prev'[n] # Null PROVE Leads(b, prev[n], n)'
    <3>1. PICK p \in Node : p = prev'[n]
      BY <2>2, <2>4
    <3>2. Leads(b, p, n)'
      BY <1>3, <3>1
    <3> QED BY <3>1, <3>2 DEF Leads, Precedes, Rank, Before
  <2> QED BY <2>3, <2>4
<1> QED BY <1>5 DEF LinksInOrder
-----------------------------------------------------------------------------
(* Connecting a slot                                                       *)

\* What make_shared leaves as it was, and what is known of the new node.
LEMMA NewNode ==
  ASSUME ListTypeOK, NEW b \in 1..fresh, OrderedSince(b), NEW n \in Node, n = fresh,
         NEW k, NEW g, NEW x, MakeNode(n, k, g, x)
  PROVE  /\ NodesStand
         /\ n \notin Known /\ Known' = Known \cup {n} /\ Since(b)' = Since(b) \cup {n}
         /\ next[n] = Null /\ prev[n] = Null
         /\ \A m \in Known : next[m] # n /\ prev[m] # n /\ m < n
         /\ kind'[n] = k /\ group'[n] = g
         /\ Since(b) \subseteq Known
<1>1. fresh \in Nat /\ fresh >= 1 /\ b \in Nat /\ 1 <= b /\ b <= fresh /\ fresh' = fresh + 1
  BY DEF ListTypeOK, NodeTypeOK, MakeNode
<1>2. n \notin Known /\ Known' = Known \cup {n} /\ \A m \in Known : m < n
  BY <1>1 DEF Known
<1>3. Since(b)' = Since(b) \cup {n} /\ Since(b) \subseteq Known
  BY <1>1 DEF Since, Known
<1>4. kind'[n] = k /\ group'[n] = g
  BY DEF ListTypeOK, NodeTypeOK, MakeNode
<1>5. \A m \in Known : kind'[m] = kind[m] /\ group'[m] = group[m]
  BY <1>2, KnownNumbers DEF ListTypeOK, NodeTypeOK, MakeNode
<1>6. next[n] = Null /\ prev[n] = Null
  BY <1>2 DEF OrderedSince, LinksInOrder, Leads
<1>7. \A m \in Known : next[m] # n /\ prev[m] # n
  BY <1>2, KnownNumbers, NodeNumbers DEF OrderedSince, LinksInOrder, Leads, ListTypeOK
<1> QED BY <1>1, <1>2, <1>3, <1>4, <1>5, <1>6, <1>7 DEF NodesStand

\* push_back_impl hooks the node behind tail: it comes after every other.
LEMMA PushBackOrdered ==
  ASSUME ListTypeOK, ListTypeOK', NEW b \in 1..fresh, OrderedSince(b),
         NEW n \in Node, n = fresh, NEW x, MakeNode(n, "back", 0, x), PushBackImpl(n)
  PROVE  OrderedSince(b)'
<1> USE NodeNumbers
<1>1. /\ NodesStand
      /\ n \notin Known /\ Known' = Known \cup {n} /\ Since(b)' = Since(b) \cup {n}
      /\ next[n] = Null /\ prev[n] = Null
      /\ \A m \in Known : next[m] # n /\ prev[m] # n /\ m < n
      /\ kind'[n] = "back" /\ Since(b) \subseteq Known
  BY NewNode
<1>2. \A m \in Since(b) : Leads(b, m, n)'
  <2> SUFFICES ASSUME NEW m \in Since(b) PROVE Leads(b, m, n)'
    OBVIOUS
  <2>1. m \in Known /\ m < n /\ kind'[m] = kind[m]
    BY <1>1 DEF NodesStand
  <2>2. kind[m] \in {"front", "group", "back"}
    BY <2>1, KnownNumbers DEF OrderedSince, ListTypeOK, NodeTypeOK, Kinds
  <2>3. Precedes(m, n)'
    BY <1>1, <2>1, <2>2 DEF Precedes, Rank
  <2> QED BY <1>1, <2>1, <2>3 DEF Leads
<1>3. /\ tail # Null => tail \in Since(b)
      /\ head # Null => head \in Since(b)
      /\ groupHead # Null => groupHead \in Since(b)
  BY DEF OrderedSince, EntriesSince
<1>5. /\ \A m \in Node : m # tail \/ tail = Null => next'[m] = next[m]
      /\ tail # Null => next'[tail] = n /\ prev'[n] = tail
      /\ tail = Null => prev'[n] = prev[n]
      /\ \A m \in Node : m # n => prev'[m] = prev[m]
  BY DEF PushBackImpl, ListTypeOK, LinkTypeOK
<1>6. LinksInOrder(b)'
  <2>1. \A m, k \in Node : next'[m] = k /\ next[m] # k => Leads(b, m, k)'
    BY <1>2, <1>3, <1>5
  <2>2. \A m, k \in Node : prev'[k] = m /\ prev[k] # m => Leads(b, m, k)'
    BY <1>2, <1>3, <1>5
  <2> QED BY <1>1, <2>1, <2>2, LinksKept DEF OrderedSince
<1>7. EntriesSince(b)'
  BY <1>1, <1>3 DEF OrderedSince, EntriesSince, PushBackImpl, NodesStand
<1>8. FrontsFirst'
  <2>1. \A m \in Known' : kind'[m] = "front" => prev'[m] = Null
    <3> SUFFICES ASSUME NEW m \in Known', kind'[m] = "front" PROVE prev'[m] = Null
      OBVIOUS
    <3>1. m \in Known /\ m # n /\ kind[m] = "front"
      BY <1>1 DEF NodesStand
    <3>2. m \in Node /\ prev[m] = Null
      BY <3>1, KnownNumbers DEF OrderedSince, FrontsFirst, ListTypeOK
    <3> QED BY <1>5, <3>1, <3>2
  <2>2. groupHead' = groupHead
    BY DEF PushBackImpl
  <2>3. ASSUME groupHead # Null
        PROVE  /\ kind'[groupHead] = "front"
               /\ next'[groupHead] # Null => kind'[next'[groupHead]] # "front"
    <3>1. groupHead \in Known /\ kind[groupHead] = "front"
          /\ (next[groupHead] # Null => kind[next[groupHead]] # "front")
      BY <1>1, <1>3, <2>3 DEF OrderedSince, FrontsFirst
    <3>2. next[groupHead] # Null => next[groupHead] \in Known
      BY <3>1, KnownNumbers DEF OrderedSince, LinksInOrder, Leads, ListTypeOK
    <3>3. next'[groupHead] = next[groupHead] \/ next'[groupHead] = n
      BY <1>5, <3>1, KnownNumbers DEF ListTypeOK
    <3> QED BY <1>1, <3>1, <3>2, <3>3 DEF NodesStand
  <2>4. ASSUME groupHead = Null, head' # Null
        PROVE  kind'[head'] # "front"
    <3>1. head' = n \/ head' = head
      BY DEF PushBackImpl
    <3>2. head # Null => head \in Known /\ kind[head] # "front"
      BY <1>1, <1>3, <2>4 DEF OrderedSince, FrontsFirst
    <3> QED BY <1>1, <2>4, <3>1, <3>2 DEF NodesStand
  <2> QED BY <2>1, <2>2, <2>3, <2>4 DEF FrontsFirst
<1>9. \A m \in Known' : kind'[m] # "none"
  BY <1>1 DEF OrderedSince, NodesStand
<1> QED BY <1>6, <1>7, <1>8, <1>9 DEF OrderedSince

\* push_front_impl hooks the node before head: no slot comes before it.
LEMMA PushFrontOrdered ==
  ASSUME ListTypeOK, ListTypeOK', NEW b \in 1..fresh, OrderedSince(b),
         NEW n \in Node, n = fresh, NEW x, MakeNode(n, "front", 0, x), PushFrontImpl(n)
  PROVE  OrderedSince(b)'
<1> USE NodeNumbers
<1>1. /\ NodesStand
      /\ n \notin Known /\ Known' = Known \cup {n} /\ Since(b)' = Since(b) \cup {n}
      /\ next[n] = Null /\ prev[n] = Null
      /\ \A m \in Known : next[m] # n /\ prev[m] # n /\ m < n
      /\ kind'[n] = "front" /\ Since(b) \subseteq Known
  BY NewNode
<1>2. \A m \in Since(b) : Leads(b, n, m)'
  <2> SUFFICES ASSUME NEW m \in Since(b) PROVE Leads(b, n, m)'
    OBVIOUS
  <2>1. m \in Known /\ m < n /\ kind'[m] = kind[m]
    BY <1>1 DEF NodesStand
  <2>2. kind[m] \in {"front", "group", "back"}
    BY <2>1, KnownNumbers DEF OrderedSince, ListTypeOK, NodeTypeOK, Kinds
  <2>3. n > m
    BY <2>1, KnownNumbers DEF ListTypeOK
  <2>4. Precedes(n, m)'
    BY <1>1, <2>1, <2>2, <2>3 DEF Precedes, Rank
  <2> QED BY <1>1, <2>1, <2>4 DEF Leads
<1>3. /\ tail # Null => tail \in Since(b)
      /\ head # Null => head \in Since(b)
      /\ groupHead # Null => groupHead \in Since(b)
  BY DEF OrderedSince, EntriesSince
<1>4. /\ \A m \in Node : m # n => next'[m] = next[m]
      /\ head # Null => next'[n] = head
      /\ head = Null => next'[n] = Null
      /\ prev' = prev
  BY <1>1 DEF PushFrontImpl, ListTypeOK, LinkTypeOK
<1>5. LinksInOrder(b)'
  <2>1. \A m, k \in Node : next'[m] = k /\ next[m] # k => Leads(b, m, k)'
    BY <1>2, <1>3, <1>4
  <2> QED BY <1>1, <1>4, <2>1, LinksKept DEF OrderedSince
<1>6. EntriesSince(b)'
  BY <1>1, <1>3 DEF OrderedSince, EntriesSince, PushFrontImpl, NodesStand
<1>7. FrontsFirst'
  <2>1. \A m \in Known' : kind'[m] = "front" => prev'[m] = Null
    BY <1>1, <1>4 DEF OrderedSince, FrontsFirst, NodesStand
  <2>2. head' = n /\ groupHead' = IF groupHead = Null \/ head = Null THEN n ELSE groupHead
    BY DEF PushFrontImpl
  <2>3. CASE groupHead = Null \/ head = Null
    <3>1. next'[n] # Null => next'[n] \in Known /\ kind[next'[n]] # "front"
      BY <1>1, <1>3, <1>4, <2>3 DEF OrderedSince, FrontsFirst
    <3> QED BY <1>1, <2>1, <2>2, <2>3, <3>1 DEF FrontsFirst, NodesStand
  <2>4. CASE groupHead # Null /\ head # Null
    <3>1. groupHead \in Known /\ kind[groupHead] = "front"
          /\ (next[groupHead] # Null => kind[next[groupHead]] # "front")
      BY <1>1, <1>3, <2>4 DEF OrderedSince, FrontsFirst
    <3>2. next[groupHead] # Null => next[groupHead] \in Known
      BY <3>1, KnownNumbers DEF OrderedSince, LinksInOrder, Leads, ListTypeOK
    <3>3. next'[groupHead] = next[groupHead]
      BY <1>1, <1>4, <3>1, KnownNumbers DEF ListTypeOK
    <3> QED BY <1>1, <2>1, <2>2, <2>4, <3>1, <3>2, <3>3 DEF FrontsFirst, NodesStand
  <2> QED BY <2>3, <2>4
<1>8. \A m \in Known' : kind'[m] # "none"
  BY <1>1 DEF OrderedSince, NodesStand
<1> QED BY <1>5, <1>6, <1>7, <1>8 DEF OrderedSince

\* A grouped node may be hooked before a node that is no front slot and whose
\* key, if it is grouped, is greater.
LEMMA InsertedBefore ==
  ASSUME ListTypeOK, NEW b \in 1..fresh, OrderedSince(b),
         NEW n \in Node, n = fresh, NEW g \in Groups, NEW x, MakeNode(n, "group", g, x),
         NEW q \in Since(b), kind[q] # "front", kind[q] = "group" => g < group[q]
  PROVE  Leads(b, n, q)'
<1>1. /\ NodesStand
      /\ n \in Known' /\ n \in Since(b)'
      /\ q \in Known /\ q \in Known' /\ q \in Since(b)'
      /\ kind'[n] = "group" /\ group'[n] = g
  BY NewNode
<1>2. kind[q] \in {"group", "back"}
  BY <1>1, KnownNumbers DEF OrderedSince, ListTypeOK, NodeTypeOK, Kinds
<1>3. Precedes(n, q)'
  BY <1>1, <1>2 DEF Precedes, Rank, Before, NodesStand
<1> QED BY <1>1, <1>3 DEF Leads

\* The last element of a set of stored nodes comes behind the others.
LEMMA LastIsLast ==
  ASSUME NEW S \in SUBSET Node, Last(S) # Null
  PROVE  Last(S) \in S /\ \A m \in S \ {Last(S)} : Before(m, Last(S))
<1> DEFINE IsLast(m) == \A n \in S \ {m} : Before(n, m)
<1>1. \E m \in S : IsLast(m)
  BY DEF Last
<1>2. Last(S) = CHOOSE m \in S : IsLast(m)
  BY <1>1 DEF Last
<1>3. Last(S) \in S /\ IsLast(Last(S))
  BY <1>1, <1>2
<1> QED BY <1>3

\* Keys are integers.
LEMMA KeyNumbers ==
  ASSUME NodeTypeOK, NEW n \in Node
  PROVE  group[n] \in Int /\ n \in Int
<1>1. Groups \cup {0} \subseteq Int
  BY DEF SlotListAssumption
<1>2. group[n] \in Groups \cup {0}
  BY DEF NodeTypeOK
<1>3. n \in Int
  BY DEF Node
<1> QED BY <1>1, <1>2, <1>3

\* What a grouped node is hooked behind in group_storage leads to nothing
\* that belongs before the new node.
LEMMA BehindGrouped ==
  ASSUME ListTypeOK, NEW b \in 1..fresh, OrderedSince(b), NEW g \in Int,
         NEW p \in storage, group[p] <= g,
         \A m \in storage : group[m] <= g /\ m # p => Before(m, p),
         NEW q, next[p] = q, q # Null
  PROVE  /\ q \in Since(b) /\ kind[q] # "front"
         /\ kind[q] = "group" => g < group[q]
<1>1. p \in Node /\ p \in Since(b) /\ kind[p] = "group"
  BY DEF OrderedSince, EntriesSince, ListTypeOK, LinkTypeOK
<1>2. Leads(b, p, q)
  BY <1>1 DEF OrderedSince, LinksInOrder
<1>3. q \in Node /\ Precedes(p, q) /\ q \in Since(b)
  BY <1>1, <1>2, KnownNumbers DEF Leads, ListTypeOK
<1>4. kind[q] # "front"
  BY <1>1, <1>3 DEF Precedes, Rank
<1>5. group[p] \in Int /\ group[q] \in Int /\ p \in Int /\ q \in Int
  BY <1>1, <1>3, KeyNumbers DEF ListTypeOK
<1>6. ASSUME kind[q] = "group", ~(g < group[q]) PROVE FALSE
  <2>1. q \in storage
    BY <1>3, <1>6 DEF OrderedSince, EntriesSince
  <2>2. group[q] <= g
    BY <1>5, <1>6
  <2>3. Before(p, q)
    BY <1>1, <1>3, <1>6 DEF Precedes, Rank
  <2>4. q # p
    BY <1>5, <2>3 DEF Before
  <2>5. Before(q, p)
    BY <2>1, <2>2, <2>4
  <2> QED BY <1>5, <2>3, <2>5 DEF Before
<1> QED BY <1>3, <1>4, <1>6

\* Hooking a grouped node behind p, where it belongs, keeps the order.
LEMMA HookOrdered ==
  ASSUME ListTypeOK, ListTypeOK', NEW b \in 1..fresh, OrderedSince(b),
         NEW n \in Node, n = fresh, NEW g \in Groups, NEW x, MakeNode(n, "group", g, x),
         NEW p \in Since(b), NEW q, q = next[p], HookBehind(n, p),
         Leads(b, p, n)', q # Null => Leads(b, n, q)',
         storage' = storage \cup {n}, UNCHANGED <<head, groupHead>>, tail' \in {tail, n}
  PROVE  OrderedSince(b)'
<1> USE NodeNumbers
<1>1. /\ NodesStand
      /\ n \notin Known /\ Known' = Known \cup {n} /\ Since(b)' = Since(b) \cup {n}
      /\ next[n] = Null /\ prev[n] = Null
      /\ kind'[n] = "group" /\ Since(b) \subseteq Known
  BY NewNode
<1>2. p \in Node /\ p # n
  BY <1>1, KnownNumbers DEF ListTypeOK
<1>3. /\ next'[n] = q /\ next'[p] = n /\ prev'[n] = p
      /\ \A m \in Node : m # n /\ m # p => next'[m] = next[m]
      /\ \A m \in Node : m # n => prev'[m] = prev[m]
  BY <1>2 DEF HookBehind, ListTypeOK, LinkTypeOK
<1>4. LinksInOrder(b)'
  <2>1. \A m, k \in Node : next'[m] = k /\ next[m] # k => Leads(b, m, k)'
    BY <1>3
  <2>2. \A m, k \in Node : prev'[k] = m /\ prev[k] # m => Leads(b, m, k)'
    BY <1>3
  <2> QED BY <1>1, <2>1, <2>2, LinksKept DEF OrderedSince
<1>5. EntriesSince(b)'
  BY <1>1 DEF OrderedSince, EntriesSince, NodesStand
<1>6. FrontsFirst'
  <2>1. \A m \in Known' : kind'[m] = "front" => prev'[m] = Null
    BY <1>1, <1>3, KnownNumbers DEF OrderedSince, FrontsFirst, NodesStand, ListTypeOK
  <2>2. ASSUME groupHead # Null
        PROVE  /\ kind'[groupHead] = "front"
               /\ next'[groupHead] # Null => kind'[next'[groupHead]] # "front"
    <3>1. groupHead \in Known /\ kind[groupHead] = "front"
          /\ (next[groupHead] # Null => kind[next[groupHead]] # "front")
      BY <1>1, <2>2 DEF OrderedSince, FrontsFirst, EntriesSince
    <3>2. next[groupHead] # Null => next[groupHead] \in Known
      BY <3>1, KnownNumbers DEF OrderedSince, LinksInOrder, Leads, ListTypeOK
    <3>3. next'[groupHead] = next[groupHead] \/ next'[groupHead] = n
      BY <1>1, <1>3, <3>1, KnownNumbers DEF ListTypeOK
    <3> QED BY <1>1, <3>1, <3>2, <3>3 DEF NodesStand
  <2>3. ASSUME groupHead = Null, head # Null
        PROVE  kind'[head] # "front"
    <3>1. head \in Known /\ kind[head] # "front"
      BY <1>1, <2>3 DEF OrderedSince, FrontsFirst, EntriesSince
    <3> QED BY <1>1, <3>1 DEF NodesStand
  <2> QED BY <2>1, <2>2, <2>3 DEF FrontsFirst
<1>7. \A m \in Known' : kind'[m] # "none"
  BY <1>1 DEF OrderedSince, NodesStand
<1> QED BY <1>4, <1>5, <1>6, <1>7 DEF OrderedSince

\* insert_impl hooks the node behind the last node that belongs before it,
LEMMA InsertBehindOrdered ==
  ASSUME ListTypeOK, ListTypeOK', NEW b \in 1..fresh, OrderedSince(b),
         NEW n \in Node, n = fresh, NEW g \in Groups, NEW x, MakeNode(n, "group", g, x),
         NEW held, InsertBehindGrouped(n, g, held), fault' = "none"
  PROVE  OrderedSince(b)'
<1>1. PICK S \in SUBSET Node : S = {m \in storage : group[m] <= g}
  BY DEF ListTypeOK, LinkTypeOK
<1>2. PICK p : p = Last(S)
  OBVIOUS
<1>3. p # Null /\ Locked(p, held) = p
  BY <1>1, <1>2 DEF InsertBehindGrouped, Locked
<1>4. p \in S /\ \A m \in S \ {p} : Before(m, p)
  BY <1>2, <1>3, LastIsLast
<1>5. /\ p \in storage /\ p \in Node /\ group[p] <= g
      /\ \A m \in storage : group[m] <= g /\ m # p => Before(m, p)
  BY <1>1, <1>4
<1>6. /\ HookBehind(n, p) /\ storage' = storage \cup {n}
      /\ UNCHANGED <<head, groupHead>> /\ tail' \in {tail, n}
  BY <1>1, <1>2, <1>3 DEF InsertBehindGrouped
<1>7. PICK q : q = next[p]
  OBVIOUS
<1>8. g \in Int /\ group[p] \in Int
  BY <1>5, KeyNumbers DEF ListTypeOK, SlotListAssumption
<1>9. q # Null =>
        /\ q \in Since(b) /\ kind[q] # "front"
        /\ kind[q] = "group" => g < group[q]
  BY <1>5, <1>7, <1>8, BehindGrouped
<1>10. q # Null => Leads(b, n, q)'
  BY <1>9, InsertedBefore
<1>11. p \in Since(b) /\ kind[p] = "group"
  BY <1>5 DEF OrderedSince, EntriesSince
<1>12. Leads(b, p, n)'
  <2>1. /\ NodesStand /\ p \in Known /\ p < n
        /\ n \in Known' /\ n \in Since(b)' /\ p \in Known' /\ p \in Since(b)'
        /\ kind'[n] = "group" /\ group'[n] = g
    BY <1>11, NewNode
  <2>2. group[p] < g \/ group[p] = g
    BY <1>5, <1>8
  <2>3. Precedes(p, n)'
    BY <1>11, <2>1, <2>2 DEF Precedes, Before, NodesStand
  <2> QED BY <2>1, <2>3 DEF Leads
<1> QED BY <1>6, <1>7, <1>10, <1>11, <1>12, HookOrdered

\* ... or the first grouped node behind the front slots.
LEMMA InsertFirstOrdered ==
  ASSUME ListTypeOK, ListTypeOK', NEW b \in 1..fresh, OrderedSince(b),
         NEW n \in Node, n = fresh, NEW g \in Groups, NEW x, MakeNode(n, "group", g, x),
         InsertFirstGrouped(n, g)
  PROVE  OrderedSince(b)'
<1> USE NodeNumbers
<1>1. /\ NodesStand
      /\ n \notin Known /\ Known' = Known \cup {n} /\ Since(b)' = Since(b) \cup {n}
      /\ next[n] = Null /\ prev[n] = Null
      /\ kind'[n] = "group" /\ group'[n] = g /\ Since(b) \subseteq Known
  BY NewNode
<1>2. \A q \in Since(b) : kind[q] # "front" => Leads(b, n, q)'
  <2> SUFFICES ASSUME NEW q \in Since(b), kind[q] # "front" PROVE Leads(b, n, q)'
    OBVIOUS
  <2>1. ASSUME kind[q] = "group" PROVE g < group[q]
    <3>1. q \in storage /\ ~(group[q] <= g)
      BY <2>1 DEF OrderedSince, EntriesSince, InsertFirstGrouped
    <3>2. q \in Node
      BY <1>1, KnownNumbers DEF ListTypeOK
    <3>3. group[q] \in Int /\ g \in Int
      BY <3>2, KeyNumbers DEF ListTypeOK, SlotListAssumption
    <3> QED BY <3>1, <3>3
  <2> QED BY <2>1, InsertedBefore
<1>3. CASE groupHead # Null
  <2>1. PICK p \in Since(b) : p = groupHead
    BY <1>3 DEF OrderedSince, EntriesSince
  <2>2. /\ HookBehind(n, p) /\ storage' = storage \cup {n}
        /\ UNCHANGED <<head, groupHead, tail>>
    BY <1>3, <2>1 DEF InsertFirstGrouped
  <2>3. PICK q : q = next[p]
    OBVIOUS
  <2>4. p \in Known /\ p \in Node /\ kind[p] = "front" /\ (q # Null => kind[q] # "front")
    BY <1>1, <1>3, <2>1, <2>3, KnownNumbers DEF OrderedSince, FrontsFirst, ListTypeOK
  <2>5. q # Null => q \in Since(b)
    BY <2>3, <2>4 DEF OrderedSince, LinksInOrder, Leads
  <2>6. Precedes(p, n)'
    BY <1>1, <2>4 DEF Precedes, Rank, NodesStand
  <2>7. Leads(b, p, n)'
    BY <1>1, <2>4, <2>6 DEF Leads
  <2> QED BY <1>2, <2>2, <2>3, <2>4, <2>5, <2>7, HookOrdered
<1>4. CASE groupHead = Null
  <2>1. /\ head' = n /\ next' = [next EXCEPT ![n] = head]
        /\ tail' \in {tail, n} /\ storage' = storage \cup {n}
        /\ UNCHANGED <<groupHead, prev>>
    BY <1>4 DEF InsertFirstGrouped
  <2>2. head # Null => head \in Since(b) /\ kind[head] # "front"
    BY <1>4 DEF OrderedSince, EntriesSince, FrontsFirst
  <2>3. next'[n] = head /\ \A m \in Node : m # n => next'[m] = next[m]
    BY <2>1 DEF ListTypeOK, LinkTypeOK
  <2>4. LinksInOrder(b)'
    <3>1. \A m, k \in Node : next'[m] = k /\ next[m] # k => Leads(b, m, k)'
      BY <1>2, <2>2, <2>3
    <3> QED BY <1>1, <2>1, <3>1, LinksKept DEF OrderedSince
  <2>5. EntriesSince(b)'
    BY <1>1, <2>1 DEF OrderedSince, EntriesSince, NodesStand
  <2>6. FrontsFirst'
    BY <1>1, <1>4, <2>1 DEF OrderedSince, FrontsFirst, NodesStand
  <2>7. \A m \in Known' : kind'[m] # "none"
    BY <1>1 DEF OrderedSince, NodesStand
  <2> QED BY <2>4, <2>5, <2>6, <2>7 DEF OrderedSince
<1> QED BY <1>3, <1>4

-----------------------------------------------------------------------------
(* Disconnecting a slot                                                    *)

\* While no node is made the order of the nodes stays as it is.
LEMMA LeadsStands ==
  ASSUME UNCHANGED nodeVars, NEW b
  PROVE  /\ NodesStand /\ Known' = Known /\ Since(b)' = Since(b)
         /\ \A m, n : Leads(b, m, n)' <=> Leads(b, m, n)
<1>1. Known' = Known /\ Since(b)' = Since(b)
  BY DEF nodeVars, Known, Since
<1>2. NodesStand
  BY <1>1 DEF nodeVars, NodesStand
<1>3. \A m, n : Precedes(m, n)' <=> Precedes(m, n)
  BY DEF nodeVars, Precedes, Rank, Before
<1> QED BY <1>1, <1>2, <1>3 DEF Leads

\* Where a link leads is a node.
LEMMA LinkTargets ==
  ASSUME ListTypeOK, NEW b, LinksInOrder(b), NEW n \in Node
  PROVE  /\ next[n] # Null => next[n] \in Node /\ next[n] \in Known
         /\ prev[n] # Null => prev[n] \in Node /\ prev[n] \in Known
BY NodeNumbers DEF LinksInOrder, Leads, ListTypeOK, LinkTypeOK

\* A list that is given up leaves links in order behind.
LEMMA UnlinkOnlyOrdered ==
  ASSUME UNCHANGED nodeVars, NEW b, OrderedSince(b), UnlinkOnly, UNCHANGED storage
  PROVE  OrderedSince(b)'
<1>1. /\ NodesStand /\ Known' = Known /\ Since(b)' = Since(b)
      /\ \A m, n : Leads(b, m, n)' <=> Leads(b, m, n)
  BY LeadsStands
<1>2. next' = next /\ prev' = prev /\ kind' = kind
  BY DEF UnlinkOnly, nodeVars
<1>3. head' = Null /\ tail' = Null /\ groupHead' = Null
  BY DEF UnlinkOnly
<1>4. LinksInOrder(b)'
  BY <1>1, <1>2 DEF OrderedSince, LinksInOrder, Leads, Precedes, Rank, Before, nodeVars
<1>5. EntriesSince(b)'
  BY <1>1, <1>2, <1>3 DEF OrderedSince, EntriesSince
<1>6. FrontsFirst'
  BY <1>1, <1>2, <1>3 DEF OrderedSince, FrontsFirst
<1> QED BY <1>1, <1>2, <1>4, <1>5, <1>6 DEF OrderedSince

\* The head that leaves is followed by a node of the same list, and no front
\* slot follows the last of them.
LEMMA UnlinkFrontOrdered ==
  ASSUME ListTypeOK, UNCHANGED nodeVars, NEW b \in 1..fresh, OrderedSince(b),
         head \in Node, UnlinkFront
  PROVE  OrderedSince(b)'
<1> USE NodeNumbers
<1>1. /\ NodesStand /\ Known' = Known /\ Since(b)' = Since(b)
      /\ \A m, n : Leads(b, m, n)' <=> Leads(b, m, n)
  BY LeadsStands
<1>2. storage' = storage
  BY DEF UnlinkFront, StorageWithout, Grouped
<1>3. CASE head = tail /\ UnlinkOnly
  BY <1>2, <1>3, UnlinkOnlyOrdered
<1>4. CASE head # tail /\ ~(head = tail /\ UnlinkOnly)
  <2>1. /\ head' = next[head]
        /\ groupHead' = IF groupHead = head THEN Null ELSE groupHead
        /\ tail' = tail /\ next' = next /\ prev' = prev /\ kind' = kind
    BY <1>4 DEF UnlinkFront, nodeVars
  <2>2. PICK h \in Node : h = head
    OBVIOUS
  <2>3. PICK q : q = next[h]
    OBVIOUS
  <2>4. h \in Since(b)
    BY <2>2 DEF OrderedSince, EntriesSince
  <2>5. q # Null => Leads(b, h, q)
    BY <2>3 DEF OrderedSince, LinksInOrder
  <2>6. q # Null => q \in Since(b)
    BY <2>4, <2>5 DEF Leads
  <2>7. LinksInOrder(b)'
    BY <1>1, <2>1 DEF OrderedSince, LinksInOrder, Leads, Precedes, Rank, Before, nodeVars
  <2>8. EntriesSince(b)'
    BY <1>1, <1>2, <2>1, <2>2, <2>3, <2>6 DEF OrderedSince, EntriesSince
  <2>9. FrontsFirst'
    <3>1. \A n \in Known' : kind'[n] = "front" => prev'[n] = Null
      BY <1>1, <2>1 DEF OrderedSince, FrontsFirst
    <3>2. groupHead' # Null =>
            /\ kind'[groupHead'] = "front"
            /\ next'[groupHead'] # Null => kind'[next'[groupHead']] # "front"
      BY <2>1 DEF OrderedSince, FrontsFirst
    <3>3. ASSUME groupHead' = Null, head' # Null PROVE kind'[head'] # "front"
      <4>1. q # Null /\ head' = q
        BY <2>1, <2>2, <2>3, <3>3
      <4>2. CASE groupHead = Null
        <5>1. kind[h] # "front"
          BY <2>2, <4>2 DEF OrderedSince, FrontsFirst
        <5> QED BY <2>1, <2>5, <4>1, <5>1, LeadsOrder DEF ListTypeOK
      <4>3. CASE groupHead = head
        BY <2>1, <2>2, <2>3, <4>1, <4>3 DEF OrderedSince, FrontsFirst
      <4> QED BY <2>1, <3>3, <4>2, <4>3
    <3> QED BY <3>1, <3>2, <3>3 DEF FrontsFirst
  <2>10. \A n \in Known' : kind'[n] # "none"
    BY <1>1, <2>1 DEF OrderedSince
  <2> QED BY <2>7, <2>8, <2>9, <2>10 DEF OrderedSince
<1> QED BY <1>3, <1>4 DEF UnlinkFront

\* The prev of the tail belongs to the same list, and it is no front slot
\* that leaves: those have no prev.
LEMMA UnlinkBackOrdered ==
  ASSUME ListTypeOK, ListTypeOK', UNCHANGED nodeVars, NEW b \in 1..fresh, OrderedSince(b),
         tail \in Node, NEW held, UnlinkBack(held)
  PROVE  OrderedSince(b)'
<1> USE NodeNumbers
<1>1. /\ NodesStand /\ Known' = Known /\ Since(b)' = Since(b)
      /\ \A m, n : Leads(b, m, n)' <=> Leads(b, m, n)
  BY LeadsStands
<1>2. storage' = storage
  BY DEF UnlinkBack, StorageWithout, Grouped
<1>3. PICK p : p = Locked(prev[tail], held)
  OBVIOUS
<1>4. CASE p = Null
  BY <1>2, <1>3, <1>4, UnlinkOnlyOrdered DEF UnlinkBack
<1>5. CASE p # Null
  <2>1. PICK t \in Node : t = tail
    OBVIOUS
  <2>2. p = prev[t]
    BY <1>3, <1>5, <2>1 DEF Locked
  <2>3. p \in Node /\ p \in Known
    BY <1>5, <2>2, LinkTargets DEF OrderedSince
  <2>4. Leads(b, p, t)
    BY <1>5, <2>2 DEF OrderedSince, LinksInOrder
  <2>5. t \in Since(b)
    BY <2>1 DEF OrderedSince, EntriesSince
  <2>6. groupHead # t
    BY <1>5, <2>2, <2>4 DEF OrderedSince, FrontsFirst, Leads
  <2>7. /\ tail' = p /\ groupHead' = groupHead /\ head' = head /\ kind' = kind
        /\ prev' = [prev EXCEPT ![t] = Null]
        /\ next' = [next EXCEPT ![p] = Null]
    BY <1>3, <1>5, <2>1, <2>6 DEF UnlinkBack, nodeVars
  <2>8. /\ \A n \in Node : next'[n] \in {next[n], Null}
        /\ \A n \in Node : prev'[n] \in {prev[n], Null}
    BY <2>3, <2>7 DEF ListTypeOK, LinkTypeOK
  <2>9. LinksInOrder(b)'
    <3>1. \A m, k \in Node : next'[m] = k /\ next[m] # k => Leads(b, m, k)'
      BY <2>8
    <3>2. \A m, k \in Node : prev'[k] = m /\ prev[k] # m => Leads(b, m, k)'
      BY <2>8
    <3> QED BY <1>1, <3>1, <3>2, LinksKept DEF OrderedSince
  <2>10. EntriesSince(b)'
    <3>1. p \in Since(b)
      BY <2>4, <2>5 DEF Leads
    <3> QED BY <1>1, <1>2, <2>7, <3>1 DEF OrderedSince, EntriesSince
  <2>11. FrontsFirst'
    <3>1. \A n \in Known' : kind'[n] = "front" => prev'[n] = Null
      BY <1>1, <2>7, <2>8, KnownNumbers DEF OrderedSince, FrontsFirst, ListTypeOK
    <3>2. groupHead # Null =>
            /\ kind[groupHead] = "front"
            /\ next'[groupHead] # Null => kind[next'[groupHead]] # "front"
      <4>1. groupHead \in Link
        BY DEF ListTypeOK, LinkTypeOK
      <4> QED BY <2>8, <4>1 DEF OrderedSince, FrontsFirst
    <3> QED BY <2>7, <3>1, <3>2 DEF OrderedSince, FrontsFirst
  <2>12. \A n \in Known' : kind'[n] # "none"
    BY <1>1, <2>7 DEF OrderedSince
  <2> QED BY <2>9, <2>10, <2>11, <2>12 DEF OrderedSince
<1> QED BY <1>4, <1>5

\* Joining the neighbours of the node that leaves keeps the order.
LEMMA UnlinkMiddleOrdered ==
  ASSUME ListTypeOK, ListTypeOK', UNCHANGED nodeVars, NEW b \in 1..fresh, OrderedSince(b),
         NEW n \in Node, NEW held, UnlinkMiddle(n, held), fault' = "none"
  PROVE  OrderedSince(b)'
<1> USE NodeNumbers
<1>1. /\ NodesStand /\ Known' = Known /\ Since(b)' = Since(b)
      /\ \A m, k : Leads(b, m, k)' <=> Leads(b, m, k)
  BY LeadsStands
<1>2. storage' = storage
  BY DEF UnlinkMiddle, StorageWithout, Grouped
<1>3. PICK p : p = prev[n]
  OBVIOUS
<1>4. PICK q : q = next[n]
  OBVIOUS
<1>5. p # Null /\ q # Null /\ Locked(p, held) = p
  BY <1>3, <1>4 DEF UnlinkMiddle, Locked
<1>6. p \in Node /\ p \in Known /\ q \in Node /\ q \in Known
  BY <1>3, <1>4, <1>5, LinkTargets DEF OrderedSince
<1>7. Leads(b, p, n) /\ Leads(b, n, q)
  BY <1>3, <1>4, <1>5 DEF OrderedSince, LinksInOrder
<1>8. Leads(b, p, q)
  BY <1>7, LeadsOrder DEF ListTypeOK
<1>9. kind[n] # "front" /\ groupHead # n
  BY <1>3, <1>5, <1>7 DEF OrderedSince, FrontsFirst, Leads
<1>10. kind[q] # "front"
  BY <1>7, <1>9, LeadsOrder DEF ListTypeOK
<1>11. /\ next' = [next EXCEPT ![p] = q] /\ prev' = [prev EXCEPT ![q] = p]
       /\ head' = head /\ tail' = tail /\ groupHead' = groupHead /\ kind' = kind
  BY <1>3, <1>4, <1>5, <1>9 DEF UnlinkMiddle, nodeVars
<1>12. /\ next'[p] = q /\ prev'[q] = p
       /\ \A m \in Node : m # p => next'[m] = next[m]
       /\ \A m \in Node : m # q => prev'[m] = prev[m]
  BY <1>6, <1>11 DEF ListTypeOK, LinkTypeOK
<1>13. LinksInOrder(b)'
  <2>1. \A m, k \in Node : next'[m] = k /\ next[m] # k => Leads(b, m, k)'
    BY <1>1, <1>8, <1>12
  <2>2. \A m, k \in Node : prev'[k] = m /\ prev[k] # m => Leads(b, m, k)'
    BY <1>1, <1>8, <1>12
  <2> QED BY <1>1, <2>1, <2>2, LinksKept DEF OrderedSince
<1>14. EntriesSince(b)'
  BY <1>1, <1>2, <1>11 DEF OrderedSince, EntriesSince
<1>15. FrontsFirst'
  <2>1. \A m \in Known' : kind'[m] = "front" => prev'[m] = Null
    BY <1>1, <1>10, <1>11, <1>12, KnownNumbers DEF OrderedSince, FrontsFirst, ListTypeOK
  <2>2. groupHead # Null =>
          /\ kind[groupHead] = "front"
          /\ next'[groupHead] # Null => kind[next'[groupHead]] # "front"
    <3>1. groupHead \in Link
      BY DEF ListTypeOK, LinkTypeOK
    <3> QED BY <1>10, <1>12, <3>1 DEF OrderedSince, FrontsFirst
  <2> QED BY <1>11, <2>1, <2>2 DEF OrderedSince, FrontsFirst
<1>16. \A m \in Known' : kind'[m] # "none"
  BY <1>1, <1>11 DEF OrderedSince
<1> QED BY <1>13, <1>14, <1>15, <1>16 DEF OrderedSince

\* Whichever branch of disconnect_impl is taken, the order stays.
LEMMA UnlinkOrdered ==
  ASSUME ListTypeOK, ListTypeOK', UNCHANGED nodeVars, NEW b \in 1..fresh, OrderedSince(b),
         NEW n \in Node, NEW held, UnlinkNode(n, held), fault' = "none"
  PROVE  OrderedSince(b)'
<1>1. CASE n = head /\ UnlinkFront
  BY <1>1, UnlinkFrontOrdered
<1>2. CASE n # head /\ n = tail /\ UnlinkBack(held)
  BY <1>2, UnlinkBackOrdered
<1>3. CASE n \notin {head, tail} /\ UnlinkMiddle(n, held)
  BY <1>3, UnlinkMiddleOrdered
<1> QED BY <1>1, <1>2, <1>3 DEF UnlinkNode

\* The nodes that clear() drops may go on pointing at each other: no link
\* joins them with the nodes of the list to come.
LEMMA UnlinkAllOrdered ==
  ASSUME ListTypeOK, UNCHANGED nodeVars, NEW b \in 1..fresh, OrderedSince(b), UnlinkAll
  PROVE  Ordered'
<1>1. PICK c \in 1..fresh : c = fresh
  BY DEF ListTypeOK, NodeTypeOK
<1>2. fresh \in Int /\ fresh' = fresh
  BY DEF ListTypeOK, NodeTypeOK, nodeVars
<1>3. Since(c) = {}
  BY <1>1, <1>2 DEF Since
<1>4. Known' = Known /\ Since(c)' = Since(c) /\ \A m, n : Leads(c, m, n)' <=> Leads(c, m, n)
  BY LeadsStands
<1>5. /\ head' = Null /\ tail' = Null /\ groupHead' = Null /\ storage' = {}
      /\ next' = next /\ prev' = prev /\ kind' = kind /\ group' = group
  BY DEF UnlinkAll, UnlinkOnly, nodeVars
<1>6. LinksInOrder(c)
  BY <1>3 DEF OrderedSince, LinksInOrder, Leads
<1>7. LinksInOrder(c)'
  BY <1>4, <1>5, <1>6 DEF LinksInOrder, Leads, Precedes, Rank, Before
<1>8. EntriesSince(c)'
  BY <1>3, <1>4, <1>5 DEF EntriesSince
<1>9. FrontsFirst'
  BY <1>4, <1>5 DEF OrderedSince, FrontsFirst
<1>10. \A n \in Known' : kind'[n] # "none"
  BY <1>4, <1>5 DEF OrderedSince
<1>11. OrderedSince(c)'
  BY <1>7, <1>8, <1>9, <1>10 DEF OrderedSince
<1> QED BY <1>2, <1>11 DEF Ordered

-----------------------------------------------------------------------------
(* The emissions                                                           *)

\* Where an emission faces a node it may call.
Facing == {"check", "try_lock", "call", "disconnect", "unlink"}

\* An emission waits, or goes on with the node it faces.
LEMMA CalledStands ==
  ASSUME NodesStand, NEW e \in Emitters, CalledBehind(e),
         called'[e] = called[e], hand'[e] = hand[e], pc[e] \in OnNode => hand[e] # Null,
         \/ pc'[e] = pc[e]
         \/ pc[e] \in Facing /\ pc'[e] \in Facing \cup {"advance"}
  PROVE  CalledBehind(e)'
<1>1. PICK s : s = called[e] /\ s = called'[e]
  OBVIOUS
<1>2. PICK h : h = hand[e] /\ h = hand'[e]
  OBVIOUS
<1>3. \A m, n \in Known : Precedes(m, n) => Precedes(m, n)'
  BY OrderStands
<1>4. \A i \in DOMAIN s : s[i] \in Known /\ s[i] \in Known'
  BY <1>1 DEF CalledBehind, NodesStand
<1>5. h # Null => h \in Known /\ h \in Known'
  BY <1>2 DEF CalledBehind, NodesStand
<1>6. \A i, j \in DOMAIN s : i < j => Precedes(s[i], s[j])
  BY <1>1 DEF CalledBehind
<1>7. \A i, j \in DOMAIN s : i < j => Precedes(s[i], s[j])'
  BY <1>3, <1>4, <1>6
<1>8. pc[e] \in Facing => \A i \in DOMAIN s : Precedes(s[i], h)
  BY <1>1, <1>2 DEF CalledBehind, Facing
<1>9. pc[e] \in Facing => \A i \in DOMAIN s : Precedes(s[i], h)'
  BY <1>2, <1>3, <1>4, <1>5, <1>8 DEF Facing, OnNode
<1>10. pc[e] = "advance" => \A i \in DOMAIN s : s[i] = h \/ Precedes(s[i], h)
  BY <1>1, <1>2 DEF CalledBehind
<1>11. pc[e] = "advance" => \A i \in DOMAIN s : s[i] = h \/ Precedes(s[i], h)'
  BY <1>2, <1>3, <1>4, <1>5, <1>10 DEF OnNode
<1>12. pc'[e] \in Facing => \A i \in DOMAIN s : Precedes(s[i], h)'
  BY <1>9 DEF Facing
<1>13. pc'[e] = "advance" => \A i \in DOMAIN s : s[i] = h \/ Precedes(s[i], h)'
  BY <1>9, <1>11 DEF Facing
<1>14. pc'[e] = "idle" => s = <<>>
  BY <1>1 DEF CalledBehind, Facing
<1>15. /\ \A i \in DOMAIN called'[e] : called'[e][i] \in Known'
       /\ hand'[e] # Null => hand'[e] \in Known'
       /\ pc'[e] = "idle" => called'[e] = <<>>
  BY <1>1, <1>2, <1>4, <1>5, <1>14
<1>16. \A i, j \in DOMAIN called'[e] : i < j => Precedes(called[e][i], called[e][j])'
  BY <1>1, <1>7 DEF Precedes, Rank, Before
<1>17. /\ pc'[e] \in Facing => \A i \in DOMAIN called'[e] : Precedes(called[e][i], hand[e])'
       /\ pc'[e] = "advance" =>
            \A i \in DOMAIN called'[e] : called'[e][i] = hand'[e] \/ Precedes(called[e][i], hand[e])'
  BY <1>1, <1>2, <1>12, <1>13 DEF Precedes, Rank, Before
<1> QED BY <1>15, <1>16, <1>17 DEF CalledBehind, Facing

\* The slot comes behind those called before it.
LEMMA CallSlotOrdered ==
  ASSUME SafetyInvariant, NEW e \in Emitters, CalledBehind(e), CallSlot(e)
  PROVE  CalledBehind(e)'
<1>1. PICK s \in Seq(Node) : s = called[e]
  BY DEF SafetyInvariant, TypeOK, HistoryTypeOK
<1>2. PICK h \in Node : h = hand[e]
  BY DEF SafetyInvariant, TypeOK, ThreadTypeOK, LocalsHold, OnNode, CallSlot, Activations, Link
<1>3. PICK t : t = Append(s, h)
  OBVIOUS
<1>4. /\ called'[e] = t /\ hand'[e] = h /\ pc'[e] = "advance"
      /\ Known' = Known /\ kind' = kind /\ group' = group
  BY <1>1, <1>2, <1>3 DEF CallSlot, Goto, SafetyInvariant, TypeOK, ThreadTypeOK, HistoryTypeOK,
     Activations, nodeVars, Known
<1>5. /\ DOMAIN t = DOMAIN s \cup {Len(s) + 1} /\ Len(s) \in Nat
      /\ \A i \in DOMAIN s : t[i] = s[i] /\ i \in Nat /\ i < Len(s) + 1
      /\ t[Len(s) + 1] = h
  BY <1>1, <1>3
<1>6. /\ h \in Known
      /\ \A i \in DOMAIN s : s[i] \in Known /\ Precedes(s[i], h)
      /\ \A i, j \in DOMAIN s : i < j => Precedes(s[i], s[j])
  BY <1>1, <1>2, NodeNumbers DEF CalledBehind, CallSlot
<1>7. \A i \in DOMAIN t : t[i] \in Known /\ (t[i] = h \/ Precedes(t[i], h))
  BY <1>5, <1>6
<1>8. \A i, j \in DOMAIN t : i < j => Precedes(t[i], t[j])
  <2> SUFFICES ASSUME NEW i \in DOMAIN t, NEW j \in DOMAIN t, i < j
               PROVE  Precedes(t[i], t[j])
    OBVIOUS
  <2>1. i \in DOMAIN s
    BY <1>5
  <2>2. CASE j \in DOMAIN s
    BY <1>5, <1>6, <2>1, <2>2
  <2>3. CASE j = Len(s) + 1
    BY <1>5, <1>6, <2>1, <2>3
  <2> QED BY <1>5, <2>2, <2>3
<1>9. \A m, n : Precedes(m, n)' <=> Precedes(m, n)
  BY <1>4 DEF Precedes, Rank, Before
<1>10. /\ \A i, j \in DOMAIN t : i < j => Precedes(t[i], t[j])'
       /\ \A i \in DOMAIN t : t[i] = h \/ Precedes(t[i], h)'
  BY <1>7, <1>8, <1>9
<1> QED BY <1>4, <1>6, <1>7, <1>10 DEF CalledBehind, Precedes, Rank, Before

\* What was called comes before the node it goes on with.
LEMMA AdvanceOrdered ==
  ASSUME SafetyInvariant, Ordered, NEW e \in Emitters, CalledBehind(e), Advance(e)
  PROVE  CalledBehind(e)'
<1>1. PICK s : s = called[e]
  OBVIOUS
<1>2. PICK h \in Node : h = hand[e]
  BY DEF SafetyInvariant, TypeOK, ThreadTypeOK, LocalsHold, OnNode, Advance, Activations, Link
<1>3. PICK q \in Link : q = next[h]
  BY DEF SafetyInvariant, TypeOK, ListTypeOK, LinkTypeOK
<1>4. /\ called'[e] = s /\ hand'[e] = q
      /\ pc'[e] = IF q = Null THEN "done" ELSE "check"
      /\ Known' = Known /\ kind' = kind /\ group' = group
  BY <1>1, <1>2, <1>3 DEF Advance, Goto, Take, SafetyInvariant, TypeOK, ThreadTypeOK,
     Activations, listVars, nodeVars, history, Known
<1>5. PICK b \in 1..fresh : OrderedSince(b)
  BY DEF Ordered
<1>6. q # Null => Leads(b, h, q)
  BY <1>2, <1>3, <1>5 DEF OrderedSince, LinksInOrder
<1>7. q # Null => q \in Known /\ q \in Node /\ Precedes(h, q)
  BY <1>3, <1>6, NodeNumbers DEF Leads
<1>8. NodeTypeOK /\ Known \subseteq Node
  BY KnownNumbers DEF SafetyInvariant, TypeOK, ListTypeOK
<1>9. \A i \in DOMAIN s : s[i] \in Known /\ (s[i] = h \/ Precedes(s[i], h))
  BY <1>1, <1>2 DEF CalledBehind, Advance
<1>10. q # Null => \A i \in DOMAIN s : Precedes(s[i], q)
  BY <1>2, <1>7, <1>8, <1>9, PrecedesOrder
<1>11. \A i, j \in DOMAIN s : i < j => Precedes(s[i], s[j])
  BY <1>1 DEF CalledBehind
<1>12. \A m, n : Precedes(m, n)' <=> Precedes(m, n)
  BY <1>4 DEF Precedes, Rank, Before
<1>13. /\ \A i, j \in DOMAIN s : i < j => Precedes(s[i], s[j])'
       /\ q # Null => \A i \in DOMAIN s : Precedes(s[i], q)'
  BY <1>10, <1>11, <1>12
<1> QED BY <1>4, <1>7, <1>9, <1>13 DEF CalledBehind, Precedes, Rank, Before

\* An emission that begins or ends has called nothing.
LEMMA NothingCalled ==
  ASSUME NEW e \in Emitters, called'[e] = <<>>, hand'[e] # Null => hand'[e] \in Known'
  PROVE  CalledBehind(e)'
<1>1. DOMAIN called'[e] = {}
  OBVIOUS
<1> QED BY <1>1 DEF CalledBehind

-----------------------------------------------------------------------------
(* The steps of a signal                                                   *)

CallsBehind == \A e \in Emitters : CalledBehind(e)

NoEraseBegun == \A w \in Writers : pc[w] \notin {"erase_mark", "erase_relink"}

\* What the emissions have called stays behind them while somebody else acts.
LEMMA CallsStand ==
  ASSUME SafetyInvariant, CallsBehind, NodesStand, NEW a \in Activations,
         UNCHANGED called, \A e \in Emitters : hand'[e] = hand[e],
         \A e \in Emitters : \/ pc'[e] = pc[e]
                             \/ pc[e] \in Facing /\ pc'[e] \in Facing \cup {"advance"}
  PROVE  CallsBehind'
<1> SUFFICES ASSUME NEW e \in Emitters PROVE CalledBehind(e)'
  BY DEF CallsBehind
<1>1. pc[e] \in OnNode => hand[e] # Null
  BY DEF SafetyInvariant, LocalsHold, Activations
<1> QED BY <1>1, CalledStands DEF CallsBehind

\* A step that stores no link.
LEMMA OrderedStands ==
  ASSUME Ordered, UNCHANGED <<linkVars, nodeVars>>
  PROVE  Ordered' /\ NodesStand
<1>1. PICK b \in 1..fresh : OrderedSince(b)
  BY DEF Ordered
<1>2. /\ NodesStand /\ Known' = Known /\ Since(b)' = Since(b)
      /\ \A m, n : Leads(b, m, n)' <=> Leads(b, m, n)
  BY LeadsStands
<1>3. LinksInOrder(b)'
  BY <1>1, <1>2 DEF OrderedSince, LinksInOrder, Leads, Precedes, Rank, Before, nodeVars, linkVars
<1>4. EntriesSince(b)' /\ FrontsFirst' /\ \A n \in Known' : kind'[n] # "none"
  BY <1>1, <1>2 DEF OrderedSince, EntriesSince, FrontsFirst, nodeVars, linkVars
<1> QED BY <1>1, <1>2, <1>3, <1>4 DEF Ordered, OrderedSince, nodeVars

\* push_back, push_front and insert.
LEMMA ConnectOrder ==
  ASSUME SafetyInvariant, SafetyInvariant', Ordered, CallsBehind, NoEraseBegun,
         NEW w \in Writers, NEW x \in BOOLEAN,
         PushBack(w, x) \/ PushFront(w, x) \/ \E g \in Groups : Insert(w, g, x)
  PROVE  (fault' = "none" => Ordered') /\ CallsBehind' /\ NoEraseBegun'
<1>1. ListTypeOK /\ ListTypeOK'
  BY DEF SafetyInvariant, TypeOK
<1>2. PICK b \in 1..fresh : OrderedSince(b)
  BY DEF Ordered
<1>3. PICK n \in Node : n = fresh
  BY DEF PushBack, PushFront, Insert, MakeNode
<1>4. UNCHANGED threadVars
  BY DEF PushBack, PushFront, Insert, Connect
<1>5. \E k, g : MakeNode(n, k, g, x)
  BY <1>3 DEF PushBack, PushFront, Insert
<1>6. NodesStand
  BY <1>1, <1>2, <1>3, <1>5, NewNode
<1>7. CallsBehind' /\ NoEraseBegun'
  BY <1>4, <1>6, CallsStand DEF threadVars, history, NoEraseBegun, Activations
<1>8. b \in 1..fresh'
  BY <1>1, <1>6 DEF ListTypeOK, NodeTypeOK, NodesStand
<1>9. CASE PushBack(w, x)
  BY <1>1, <1>2, <1>3, <1>7, <1>8, <1>9, PushBackOrdered DEF PushBack, Ordered
<1>10. CASE PushFront(w, x)
  BY <1>1, <1>2, <1>3, <1>7, <1>8, <1>10, PushFrontOrdered DEF PushFront, Ordered
<1>11. ASSUME NEW g \in Groups, Insert(w, g, x)
       PROVE  fault' = "none" => Ordered'
  <2>1. MakeNode(n, "group", g, x) /\ InsertImpl(n, g, Held)
    BY <1>3, <1>11 DEF Insert
  <2>2. fault' = "none" => OrderedSince(b)'
    BY <1>1, <1>2, <1>3, <2>1, InsertBehindOrdered, InsertFirstOrdered DEF InsertImpl
  <2> QED BY <1>8, <2>2 DEF Ordered
<1> QED BY <1>7, <1>9, <1>10, <1>11

\* What the other functions do with the links.
LEMMA UnlinkingOrder ==
  ASSUME SafetyInvariant, SafetyInvariant', Ordered, UNCHANGED nodeVars,
         \/ \E n \in Node : \E held : UnlinkNode(n, held)
         \/ tail \in Node /\ \E held : UnlinkBack(held)
         \/ head \in Node /\ UnlinkFront
         \/ UnlinkAll
  PROVE  (fault' = "none" => Ordered') /\ NodesStand
<1>1. ListTypeOK /\ ListTypeOK'
  BY DEF SafetyInvariant, TypeOK
<1>2. PICK b \in 1..fresh : OrderedSince(b)
  BY DEF Ordered
<1>3. b \in 1..fresh' /\ NodesStand
  BY LeadsStands DEF nodeVars
<1>4. CASE \E n \in Node : \E held : UnlinkNode(n, held)
  BY <1>1, <1>2, <1>3, <1>4, UnlinkOrdered DEF Ordered
<1>5. CASE tail \in Node /\ \E held : UnlinkBack(held)
  BY <1>1, <1>2, <1>3, <1>5, UnlinkBackOrdered DEF Ordered
<1>6. CASE head \in Node /\ UnlinkFront
  BY <1>1, <1>2, <1>3, <1>6, UnlinkFrontOrdered DEF Ordered
<1>7. CASE UnlinkAll
  BY <1>1, <1>2, <1>3, <1>7, UnlinkAllOrdered
<1> QED BY <1>3, <1>4, <1>5, <1>6, <1>7

\* Functions of the signal that are called but connect nothing.
LEMMA StartOrder ==
  ASSUME SafetyInvariant, Ordered, CallsBehind, NoEraseBegun, NEW w \in Writers,
         \/ \E n \in Node : Disconnect(w, n)
         \/ PopBack(w) \/ PopFront(w) \/ Clear(w)
  PROVE  Ordered' /\ CallsBehind' /\ NoEraseBegun'
<1>1. /\ UNCHANGED <<linkVars, nodeVars, called>>
      /\ \A a \in Activations : a # w => pc'[a] = pc[a] /\ hand'[a] = hand[a]
      /\ pc'[w] \notin {"erase_mark", "erase_relink"}
  BY DEF Disconnect, PopBack, PopFront, Clear, Goto, Take, Mark, SafetyInvariant, TypeOK,
     ThreadTypeOK, Activations, listVars, history
<1>2. Ordered' /\ NodesStand
  BY <1>1, OrderedStands
<1>3. CallsBehind'
  BY <1>1, <1>2, CallsStand DEF Activations
<1> QED BY <1>1, <1>2, <1>3 DEF NoEraseBegun, Activations

\* Functions of the signal, and of an emission, that mark or unlink.
LEMMA FinishOrder ==
  ASSUME SafetyInvariant, SafetyInvariant', Ordered, CallsBehind, NoEraseBegun,
         NEW a \in Activations,
         \/ DisconnectMark(a) \/ DisconnectUnlink(a)
         \/ a \in Writers /\ (PopUnlink(a) \/ ClearMark(a) \/ ClearUnlink(a))
  PROVE  (fault' = "none" => Ordered') /\ CallsBehind' /\ NoEraseBegun'
<1>1. UNCHANGED nodeVars /\ UNCHANGED called
  BY DEF DisconnectMark, DisconnectUnlink, PopUnlink, ClearMark, ClearUnlink, Mark, history
<1>2. (fault' = "none" => Ordered') /\ NodesStand
  <2>1. CASE DisconnectMark(a) \/ (a \in Writers /\ ClearMark(a))
    BY <2>1, OrderedStands DEF DisconnectMark, ClearMark
  <2>2. CASE DisconnectUnlink(a)
    <3>1. hand[a] \in Node /\ UnlinkNode(hand[a], Held)
      BY <2>2 DEF DisconnectUnlink, SafetyInvariant, TypeOK, ThreadTypeOK, LocalsHold, OnNode, Link
    <3> QED BY <1>1, <3>1, UnlinkingOrder
  <2>3. CASE a \in Writers /\ PopUnlink(a)
    <3>1. \/ tail \in Node /\ UnlinkBack(Held)
          \/ head \in Node /\ UnlinkFront
      BY <2>3 DEF PopUnlink, SafetyInvariant, TypeOK, ListTypeOK, LinkTypeOK, LocalsHold, Link
    <3> QED BY <1>1, <3>1, UnlinkingOrder
  <2>4. CASE a \in Writers /\ ClearUnlink(a)
    BY <1>1, <2>4, UnlinkingOrder DEF ClearUnlink
  <2> QED BY <2>1, <2>2, <2>3, <2>4
<1>3. /\ \A c \in Activations : c # a => pc'[c] = pc[c] /\ hand'[c] = hand[c]
      /\ a \in Emitters =>
           /\ hand'[a] = hand[a]
           /\ pc[a] \in Facing /\ pc'[a] \in Facing \cup {"advance"}
  BY DEF DisconnectMark, DisconnectUnlink, DisconnectReturns, PopUnlink, ClearMark, ClearUnlink,
     Goto, Take, SafetyInvariant, TypeOK, ThreadTypeOK, Activations, Facing
<1>4. CallsBehind'
  <2>1. \A e \in Emitters :
          /\ hand'[e] = hand[e]
          /\ pc'[e] = pc[e] \/ (pc[e] \in Facing /\ pc'[e] \in Facing \cup {"advance"})
    BY <1>3 DEF Activations
  <2> QED BY <1>1, <1>2, <2>1, CallsStand
<1>5. a \in Writers => pc'[a] \notin {"erase_mark", "erase_relink"}
  BY DEF DisconnectMark, DisconnectUnlink, DisconnectReturns, PopUnlink, ClearMark, ClearUnlink,
     Goto, SafetyInvariant, TypeOK, ThreadTypeOK, Activations, NoEraseBegun
<1> QED BY <1>2, <1>3, <1>4, <1>5 DEF NoEraseBegun, Activations

\* The steps an emission takes by itself.
LEMMA EmitOrder ==
  ASSUME SafetyInvariant, SafetyInvariant', Ordered, CallsBehind, NoEraseBegun,
         NEW e \in Emitters,
         \/ Emit(e) \/ CheckUsable(e) \/ TryLock(e) \/ CallSlot(e) \/ SlotThrows(e)
         \/ Advance(e) \/ EmitReturns(e)
  PROVE  Ordered' /\ CallsBehind' /\ NoEraseBegun'
<1>1. /\ UNCHANGED <<linkVars, nodeVars>>
      /\ \A a \in Activations : a # e => pc'[a] = pc[a] /\ hand'[a] = hand[a]
      /\ \A f \in Emitters : f # e => called'[f] = called[f]
  BY DEF Emit, CheckUsable, TryLock, CallSlot, SlotThrows, Advance, EmitReturns, ForgetEmission,
     Goto, Take, SafetyInvariant, TypeOK, ThreadTypeOK, HistoryTypeOK, Activations, listVars,
     history
<1>2. Ordered' /\ NodesStand /\ Known' = Known
  BY <1>1, OrderedStands DEF Known, nodeVars
<1>3. CalledBehind(e)
  BY DEF CallsBehind
<1>4. CalledBehind(e)'
  <2>1. CASE Emit(e)
    <3>1. called'[e] = <<>> /\ hand'[e] = head
      BY <1>3, <2>1 DEF Emit, Take, CalledBehind, SafetyInvariant, TypeOK, ThreadTypeOK, Activations
    <3>2. head # Null => head \in Known
      <4>1. PICK b \in 1..fresh : OrderedSince(b)
        BY DEF Ordered
      <4>2. Since(b) \subseteq Known
        BY DEF Since, Known, SafetyInvariant, TypeOK, ListTypeOK, NodeTypeOK
      <4> QED BY <4>1, <4>2 DEF OrderedSince, EntriesSince
    <3> QED BY <1>2, <3>1, <3>2, NothingCalled
  <2>2. CASE CheckUsable(e) \/ TryLock(e)
    <3>1. /\ called'[e] = called[e] /\ hand'[e] = hand[e]
          /\ pc[e] \in Facing /\ pc'[e] \in Facing \cup {"advance"}
      BY <2>2 DEF CheckUsable, TryLock, Goto, history, SafetyInvariant, TypeOK, ThreadTypeOK,
         Activations, Facing
    <3>2. pc[e] \in OnNode => hand[e] # Null
      BY DEF SafetyInvariant, LocalsHold, Activations
    <3> QED BY <1>2, <1>3, <3>1, <3>2, CalledStands
  <2>3. CASE CallSlot(e)
    BY <1>3, <2>3, CallSlotOrdered
  <2>4. CASE Advance(e)
    BY <1>3, <2>4, AdvanceOrdered
  <2>5. CASE SlotThrows(e) \/ EmitReturns(e)
    <3>1. called'[e] = <<>> /\ hand'[e] = Null
      BY <2>5 DEF SlotThrows, EmitReturns, ForgetEmission, Take, SafetyInvariant, TypeOK,
         ThreadTypeOK, HistoryTypeOK, Activations
    <3> QED BY <3>1, NothingCalled
  <2> QED BY <2>1, <2>2, <2>3, <2>4, <2>5
<1>5. ASSUME NEW f \in Emitters, f # e PROVE CalledBehind(f)'
  <2>1. called'[f] = called[f] /\ hand'[f] = hand[f] /\ pc'[f] = pc[f]
    BY <1>1, <1>5 DEF Activations
  <2>2. pc[f] \in OnNode => hand[f] # Null
    BY DEF SafetyInvariant, LocalsHold, Activations
  <2> QED BY <1>2, <2>1, <2>2, CalledStands DEF CallsBehind
<1>6. NoEraseBegun'
  BY <1>1 DEF NoEraseBegun, Activations
<1> QED BY <1>2, <1>4, <1>5, <1>6 DEF CallsBehind

\* A new signal has no links.
LEMMA InitOrder == Init => OrderInvariant
<1> SUFFICES ASSUME Init PROVE Ordered /\ CallsBehind /\ NoEraseBegun
  BY DEF OrderInvariant, CallsBehind, NoEraseBegun
<1> USE DEF Init, ListInit
<1>1. CallsBehind /\ NoEraseBegun
  BY DEF CallsBehind, NoEraseBegun, CalledBehind, Activations
<1>2. Known = {} /\ Since(1) = {}
  BY DEF Known, Since
<1>3. OrderedSince(1)
  BY <1>2 DEF OrderedSince, LinksInOrder, EntriesSince, FrontsFirst
<1> QED BY <1>1, <1>3 DEF Ordered

\* Every step a client without erase() can take, and those that others take
\* beside it.
LEMMA NextOrder ==
  ASSUME SafetyInvariant, SafetyInvariant', "erase" \notin api,
         fault = "none" => Ordered, CallsBehind, NoEraseBegun, [Next]_vars
  PROVE  (fault' = "none" => Ordered') /\ CallsBehind' /\ NoEraseBegun'
<1>1. CASE UNCHANGED vars
  <2> USE <1>1 DEF vars, threadVars, listVars, history
  <2>1. NodesStand /\ (fault = "none" => Ordered')
    BY LeadsStands, OrderedStands
  <2>2. CallsBehind'
    BY <2>1, CalledStands DEF CallsBehind, SafetyInvariant, LocalsHold, Activations
  <2> QED BY <2>1, <2>2 DEF NoEraseBegun
<1>2. CASE Next
  <2>1. fault = "none"
    <3>1. ASSUME NEW w \in Writers, StartWrite(w) PROVE fault = "none"
      BY <3>1 DEF StartWrite, PushBack, PushFront, Insert, Connect, Disconnect, PopBack, PopFront,
         Clear, Erase, Running
    <3>2. ASSUME NEW w \in Writers, FinishWrite(w) PROVE fault = "none"
      BY <3>2 DEF FinishWrite, DisconnectMark, DisconnectUnlink, PopUnlink, ClearMark, ClearUnlink,
         EraseMark, EraseRelink, Running
    <3>3. ASSUME NEW e \in Emitters, Emit(e) \/ EmitStep(e) PROVE fault = "none"
      BY <3>3 DEF EmitStep, Emit, CheckUsable, TryLock, CallSlot, SlotThrows, DisconnectMark,
         DisconnectUnlink, Advance, EmitReturns, Running
    <3>4. ASSUME NEW n \in Node, Expire(n) \/ \E d \in {-1, 1} : Block(n, d) PROVE fault = "none"
      BY <3>4 DEF Expire, Block, Running
    <3> QED BY <1>2, <3>1, <3>2, <3>3, <3>4 DEF Next
  <2>2. Ordered
    BY <2>1
  <2>3. ASSUME NEW w \in Writers, StartWrite(w)
        PROVE  (fault' = "none" => Ordered') /\ CallsBehind' /\ NoEraseBegun'
    <3>1. \A g \in Groups : ~Erase(w, g)
      BY DEF Erase
    <3> QED BY <2>2, <2>3, <3>1, ConnectOrder, StartOrder DEF StartWrite
  <2>4. ASSUME NEW w \in Writers, FinishWrite(w)
        PROVE  (fault' = "none" => Ordered') /\ CallsBehind' /\ NoEraseBegun'
    <3>1. ~EraseMark(w) /\ ~EraseRelink(w)
      BY DEF NoEraseBegun, EraseMark, EraseRelink
    <3> QED BY <2>2, <2>4, <3>1, FinishOrder DEF FinishWrite, Activations
  <2>5. ASSUME NEW e \in Emitters, Emit(e) \/ EmitStep(e)
        PROVE  (fault' = "none" => Ordered') /\ CallsBehind' /\ NoEraseBegun'
    BY <2>2, <2>5, EmitOrder, FinishOrder DEF EmitStep, Activations
  <2>6. ASSUME NEW n \in Node, Expire(n) \/ \E d \in {-1, 1} : Block(n, d)
        PROVE  (fault' = "none" => Ordered') /\ CallsBehind' /\ NoEraseBegun'
    <3>1. UNCHANGED <<linkVars, nodeVars, called, pc, hand>>
      BY <2>6 DEF Expire, Block, listVars
    <3>2. Ordered' /\ NodesStand
      BY <2>2, <3>1, OrderedStands
    <3>3. CallsBehind'
      BY <3>1, <3>2, CalledStands DEF CallsBehind, SafetyInvariant, LocalsHold, Activations
    <3> QED BY <3>1, <3>2, <3>3 DEF NoEraseBegun
  <2> QED BY <1>2, <2>3, <2>4, <2>5, <2>6 DEF Next
<1> QED BY <1>1, <1>2

-----------------------------------------------------------------------------
(* The theorems                                                            *)

\* For any number of nodes, threads and groups, and every client that does
\* not use erase(): no link leads against the order of the slots, and every
\* emission stands behind all it has called.
THEOREM OrderHolds == Spec => []OrderInvariant
<1>1. ASSUME SafetyInvariant, SafetyInvariant', OrderInvariant, [Next]_vars
      PROVE  OrderInvariant'
  <2> SUFFICES ASSUME "erase" \notin api' PROVE OrderInvariant'
    BY DEF OrderInvariant
  <2>1. "erase" \notin api
    BY <1>1, ApiStays
  <2>2. (fault = "none" => Ordered) /\ CallsBehind /\ NoEraseBegun
    BY <1>1, <2>1 DEF OrderInvariant, CallsBehind, NoEraseBegun
  <2>3. (fault' = "none" => Ordered') /\ CallsBehind' /\ NoEraseBegun'
    BY <1>1, <2>1, <2>2, NextOrder
  <2> QED BY <2>3 DEF OrderInvariant, CallsBehind, NoEraseBegun
<1> QED BY <1>1, InitOrder, Safety, PTL DEF Spec

\* Every emission calls its slots in order, although it walks without the
\* mutex a list that others relink or have left damaged.
THEOREM CallsInOrder == Spec => []CalledInOrder
<1>1. OrderInvariant => CalledInOrder
  BY DEF OrderInvariant, CalledInOrder, CalledBehind
<1> QED BY <1>1, OrderHolds, PTL

\* ... and none of them twice, so an emission ends after at most as many
\* calls as slots were connected.
THEOREM CallsOnce == Spec => []CalledOnce
<1>1. ASSUME TypeOK, OrderInvariant, "erase" \notin api,
             NEW e \in Emitters, NEW i \in DOMAIN called[e], NEW j \in DOMAIN called[e], i # j
      PROVE  called[e][i] # called[e][j]
  <2>1. called[e] \in Seq(Node)
    BY <1>1 DEF TypeOK, HistoryTypeOK
  <2>2. i \in Nat /\ j \in Nat /\ called[e][i] \in Node /\ called[e][j] \in Node
    BY <2>1
  <2>3. i < j => Precedes(called[e][i], called[e][j])
    BY <1>1 DEF OrderInvariant, CalledBehind
  <2>4. j < i => Precedes(called[e][j], called[e][i])
    BY <1>1 DEF OrderInvariant, CalledBehind
  <2>5. ~Precedes(called[e][i], called[e][i])
    BY <1>1, <2>2, PrecedesOrder DEF TypeOK, ListTypeOK
  <2> QED BY <1>1, <2>2, <2>3, <2>4, <2>5
<1>2. TypeOK /\ OrderInvariant => CalledOnce
  BY <1>1 DEF CalledOnce
<1> QED BY <1>2, OrderHolds, TypeCorrect, PTL

-----------------------------------------------------------------------------
(* Clients that need no prev: what can be reached                          *)

\* Who is reached from a node is the node itself or reached from its next.
LEMMA ReachStep ==
  ASSUME next \in [Node -> Link], NEW n \in Node
  PROVE  /\ n \in Reach({n}) /\ Reach({next[n]}) \subseteq Reach({n})
         /\ Reach({n}) \subseteq {n} \cup Reach({next[n]})
<1>1. n \in Reach({n})
  BY ReachRoots
<1>2. Closed(Reach({n})) /\ Reach({n}) \subseteq Node
  BY ReachClosed
<1>3. Reach({next[n]}) \subseteq Reach({n})
  <2>1. PICK S \in SUBSET Node : S = Reach({n})
    BY <1>2
  <2>2. {next[n]} \ {Null} \subseteq S
    BY <1>1, <1>2, <2>1 DEF Closed
  <2>3. Closed(S)
    BY <1>2, <2>1
  <2> QED BY <2>1, <2>2, <2>3, ReachLeast
<1>4. Closed(Reach({next[n]})) /\ Reach({next[n]}) \subseteq Node
  BY ReachClosed
<1>5. next[n] # Null => next[n] \in Reach({next[n]})
  BY ReachRoots, NodeNumbers
<1>6. PICK S \in SUBSET Node : S = {n} \cup Reach({next[n]})
  BY <1>4
<1>7. Closed(S)
  BY <1>4, <1>5, <1>6 DEF Closed
<1>8. Reach({n}) \subseteq S
  BY <1>6, <1>7, ReachLeast
<1> QED BY <1>1, <1>3, <1>6, <1>8

\* From nowhere nothing is reached.
LEMMA ReachNothing == Reach({Null}) = {}
<1>1. {Null} \ {Null} \subseteq {} /\ Closed({}) /\ {} \in SUBSET Node
  BY DEF Closed
<1> QED BY <1>1, ReachLeast

\* What is reached along links comes behind, so no way leads back.
LEMMA ReachLeads ==
  ASSUME LinkTypeOK, NodeTypeOK, NEW b, LinksInOrder(b), NEW n \in Node
  PROVE  /\ \A m \in Reach({next[n]}) : Leads(b, n, m)
         /\ \A m \in Reach({n}) : m = n \/ Leads(b, n, m)
         /\ n \notin Reach({next[n]})
<1>1. PICK S \in SUBSET Node : S = {m \in Node : Leads(b, n, m)}
  OBVIOUS
<1>2. Closed(S)
  BY <1>1, LeadsOrder, NodeNumbers DEF LinksInOrder, LinkTypeOK, Closed
<1>3. next[n] # Null => next[n] \in S
  BY <1>1, NodeNumbers DEF LinksInOrder, LinkTypeOK
<1>4. Reach({next[n]}) \subseteq S
  BY <1>2, <1>3, ReachLeast
<1>5. ~Leads(b, n, n)
  BY LeadsOrder
<1> QED BY <1>1, <1>4, <1>5, ReachStep DEF LinkTypeOK

\* A step after which every closed set was closed before loses no way.
LEMMA ReachGrows ==
  ASSUME \A S \in SUBSET Node : Closed(S)' => Closed(S)
  PROVE  \A R, Q : Q \subseteq R => Reach(Q) \subseteq Reach(R)'
BY DEF Reach, Closed

\* The list is what is reached from head, and alive.
LEMMA ListedFacts ==
  ASSUME LinkTypeOK
  PROVE  /\ Listed \subseteq Node /\ Closed(Listed)
         /\ head # Null => head \in Listed
         /\ head = Null => Listed = {}
         /\ \A n \in Listed : \A held : Locked(n, held) = n
<1>1. Listed \subseteq Node /\ Closed(Listed)
  BY ReachClosed DEF Listed, LinkTypeOK
<1>2. head # Null => head \in Listed
  BY ReachRoots, NodeNumbers DEF Listed, LinkTypeOK
<1>3. head = Null => Listed = {}
  BY ReachNothing DEF Listed
<1>4. ASSUME NEW n \in Listed, NEW held PROVE Locked(n, held) = n
  <2>1. n \in Alive(held)
    BY <1>4 DEF Alive, Listed, Reach
  <2> QED BY <2>1 DEF Locked
<1> QED BY <1>1, <1>2, <1>3, <1>4

\* Nothing is listed that was not made.
LEMMA ListedKnown ==
  ASSUME ListTypeOK, Ordered
  PROVE  Listed \subseteq Known
<1>1. PICK b \in 1..fresh : OrderedSince(b)
  BY DEF Ordered
<1>2. Known \subseteq Node
  BY KnownNumbers DEF ListTypeOK
<1>3. PICK S \in SUBSET Node : S = Known
  BY <1>2
<1>4. Closed(S)
  BY <1>1, <1>3, NodeNumbers DEF Closed, OrderedSince, LinksInOrder, Leads, ListTypeOK, LinkTypeOK
<1>5. {head} \ {Null} \subseteq S
  <2>1. Since(b) \subseteq Known
    BY DEF Since, Known, ListTypeOK, NodeTypeOK
  <2> QED BY <1>1, <1>3, <2>1 DEF OrderedSince, EntriesSince
<1> QED BY <1>3, <1>4, <1>5, ReachLeast DEF Listed

\* A node is hooked before head or behind a listed node: the list has one
\* node more, ends in tail, and every way that led to a node leads to it.
LEMMA HookedListed ==
  ASSUME LinkTypeOK, LinkTypeOK', Ends, NEW n \in Node, next[n] = Null, n \notin Listed,
         \/ /\ head' = n /\ next' = [next EXCEPT ![n] = head]
            /\ tail' = IF head = Null THEN n ELSE tail
         \/ \E p \in Listed :
              /\ head' = head /\ next' = [next EXCEPT ![n] = next[p], ![p] = n]
              /\ tail' = IF next[p] = Null THEN n ELSE tail
  PROVE  /\ Listed' = Listed \cup {n} /\ Ends'
         /\ \A S \in SUBSET Node : Closed(S)' => Closed(S)
<1>1. /\ Listed \subseteq Node /\ Closed(Listed)
      /\ head # Null => head \in Listed
      /\ head = Null => Listed = {}
  BY ListedFacts
<1>2. n # Null /\ head \in Link
  BY NodeNumbers DEF LinkTypeOK
<1>3. PICK L \in SUBSET Node : L = Listed
  BY <1>1
<1>4. PICK M \in SUBSET Node : M = L \cup {n}
  OBVIOUS
<1>5. CASE /\ head' = n /\ next' = [next EXCEPT ![n] = head]
           /\ tail' = IF head = Null THEN n ELSE tail
  <2>1. next'[n] = head /\ \A m \in Node : m # n => next'[m] = next[m]
    BY <1>5 DEF LinkTypeOK
  <2>2. \A S \in SUBSET Node : Closed(S)' => Closed(S)
    BY <2>1 DEF Closed
  <2>3. Closed(M)'
    BY <1>1, <1>3, <1>4, <2>1 DEF Closed
  <2>4. Listed' \subseteq M
    BY <1>4, <1>5, <2>3 DEF Listed, Reach
  <2>5. n \in Listed'
    BY <1>2, <1>5 DEF Listed, Reach
  <2>6. Listed \subseteq Listed'
    <3> SUFFICES ASSUME NEW m \in Listed, NEW S \in SUBSET Node, n \in S, Closed(S)'
                 PROVE  m \in S
      BY <1>1, <1>2, <1>5 DEF Listed, Reach
    <3>1. Closed(S) /\ (head # Null => head \in S)
      BY <2>1, <2>2 DEF Closed
    <3> QED BY <3>1 DEF Listed, Reach
  <2>7. Listed' = M
    BY <1>3, <1>4, <2>4, <2>5, <2>6
  <2>8. Ends'
    BY <1>1, <1>2, <1>3, <1>4, <1>5, <2>1, <2>7 DEF Ends
  <2> QED BY <1>3, <1>4, <2>2, <2>7, <2>8
<1>6. ASSUME NEW p \in Listed,
             head' = head, next' = [next EXCEPT ![n] = next[p], ![p] = n],
             tail' = IF next[p] = Null THEN n ELSE tail
      PROVE  /\ Listed' = M /\ Ends'
             /\ \A S \in SUBSET Node : Closed(S)' => Closed(S)
  <2>0. p \in Node /\ p # n /\ p \in L
    BY <1>1, <1>3, <1>6
  <2>1. next'[n] = next[p] /\ next'[p] = n /\ \A m \in Node : m # n /\ m # p => next'[m] = next[m]
    BY <1>6, <2>0 DEF LinkTypeOK
  <2>2. ASSUME NEW S \in SUBSET Node, Closed(S)' PROVE Closed(S)
    <3>1. p \in S => n \in S /\ (next[p] # Null => next[p] \in S)
      BY <1>2, <2>1, <2>2 DEF Closed
    <3>2. \A m \in S : m # n /\ m # p => (next[m] # Null => next[m] \in S)
      BY <2>1, <2>2 DEF Closed
    <3> QED BY <3>1, <3>2 DEF Closed
  <2>3. Closed(M)'
    <3>1. next[p] # Null => next[p] \in M
      BY <1>1, <1>3, <1>4, <2>0 DEF Closed
    <3>2. \A m \in L : next[m] # Null => next[m] \in M
      BY <1>1, <1>3, <1>4 DEF Closed
    <3>3. \A m \in M : next'[m] # Null => next'[m] \in M
      BY <1>4, <2>1, <3>1, <3>2
    <3> QED BY <3>3 DEF Closed
  <2>4. head \in Listed
    BY <1>1, <1>6, NodeNumbers
  <2>5. Listed' \subseteq M
    <3>1. {head'} \ {Null} \subseteq M
      BY <1>3, <1>4, <1>6, <2>4
    <3> QED BY <2>3, <3>1 DEF Listed, Reach
  <2>6. Listed \subseteq Listed'
    <3>1. {head} \subseteq {head}
      OBVIOUS
    <3> QED BY <1>6, <2>2, ReachGrows DEF Listed
  <2>7. n \in Listed'
    <3> SUFFICES ASSUME NEW S \in SUBSET Node, {head'} \ {Null} \subseteq S, Closed(S)'
                 PROVE  n \in S
      BY <1>2 DEF Listed, Reach
    <3>1. p \in S
      BY <2>6, <1>6 DEF Listed, Reach
    <3> QED BY <1>2, <2>1, <3>1 DEF Closed
  <2>8. Listed' = M
    BY <1>3, <1>4, <2>5, <2>6, <2>7
  <2>9. Ends'
    <3>1. \A m \in L : next[m] = Null <=> m = tail
      BY <1>3 DEF Ends
    <3>2. head # Null /\ tail # Null /\ tail \in L
      BY <1>1, <1>3, <2>4, <1>6 DEF Ends
    <3>3. ASSUME NEW m \in M PROVE next'[m] = Null <=> m = tail'
      <4>1. CASE m = n
        BY <1>3, <1>6, <2>1, <3>2, <4>1
      <4>2. CASE m = p
        BY <1>2, <1>6, <2>0, <2>1, <3>1, <4>2
      <4>3. CASE m \notin {n, p}
        <5>1. m \in L /\ next'[m] = next[m] /\ (tail' = n \/ tail' = tail)
          BY <1>4, <1>6, <2>1, <4>3
        <5>2. next[p] = Null => p = tail
          BY <2>0, <3>1
        <5> QED BY <1>6, <3>1, <4>3, <5>1, <5>2
      <4> QED BY <4>1, <4>2, <4>3
    <3>4. tail' \in M /\ tail' # Null
      BY <1>2, <1>4, <1>6, <3>2
    <3> QED BY <1>6, <2>8, <3>2, <3>3, <3>4 DEF Ends
  <2> QED BY <2>2, <2>8, <2>9
<1>7. \/ Listed' = M /\ Ends' /\ \A S \in SUBSET Node : Closed(S)' => Closed(S)
  BY <1>3, <1>4, <1>5, <1>6
<1> QED BY <1>3, <1>4, <1>7

\* Nobody has to call a node that was marked.
LEMMA MarkExcuses ==
  ASSUME TypeOK, NEW n \in Node, Mark(n)
  PROVE  /\ \A m \in Node : m # n => unusable'[m] = unusable[m]
         /\ ~Connected(unusable'[n])
         /\ \A e \in Emitters : must'[e] \subseteq must[e] /\ n \notin must'[e]
         /\ UNCHANGED called
BY DEF TypeOK, ListTypeOK, NodeTypeOK, HistoryTypeOK, Mark, Marked, Excuse, Connected

-----------------------------------------------------------------------------
(* Clients that need no prev: the parts of the invariant                   *)

\* The mutex is released, and what is listed is connected.
LEMMA ForwardMarksReleased ==
  ASSUME SafetyInvariant', mutex' = Free,
         \A n \in Known' : Connected(unusable'[n]) => n \in Listed',
         \A n \in Listed' : Connected(unusable'[n])
  PROVE  MarksForward'
<1>1. \A w \in Writers : pc'[w] \notin Critical
  BY DEF SafetyInvariant, MutexProtectsLinks, Activations
<1>2. \A w \in Writers : HolderMarks(w)'
  BY <1>1 DEF HolderMarks, Critical
<1> QED BY <1>2 DEF MarksForward

\* The mutex is held by a writer whose marks are known.
LEMMA ForwardMarksHeld ==
  ASSUME SafetyInvariant', NEW w \in Writers, mutex' = w,
         \A n \in Known' : Connected(unusable'[n]) => n \in Listed',
         HolderMarks(w)'
  PROVE  MarksForward'
<1>1. \A v \in Writers : v # w => pc'[v] \notin Critical
  BY DEF SafetyInvariant, MutexProtectsLinks, Activations
<1>2. ASSUME NEW v \in Writers, v # w PROVE HolderMarks(v)'
  BY <1>1, <1>2 DEF HolderMarks, Critical
<1>3. mutex' # Free
  BY SignalAssumption DEF Activations
<1> QED BY <1>2, <1>3 DEF MarksForward

\* The writers do not move, and nothing is marked.
LEMMA ForwardMarksKept ==
  ASSUME MarksForward, LinkTypeOK, Known \subseteq Node,
         UNCHANGED <<head, next, fresh, mutex, api>>,
         \A n \in Node : Connected(unusable'[n]) <=> Connected(unusable[n]),
         \A w \in Writers : pc'[w] = pc[w] /\ hand'[w] = hand[w]
  PROVE  MarksForward'
<1>1. Known' = Known /\ Listed' = Listed /\ Listed \subseteq Node
  BY ListedFacts DEF Known, Listed, Reach, Closed
<1>2. \A w \in Writers : Reach({hand[w]})' = Reach({hand[w]})
  BY DEF Reach, Closed
<1>3. \A w \in Writers : HolderMarks(w)'
  BY <1>1, <1>2 DEF MarksForward, HolderMarks
<1> QED BY <1>1, <1>3 DEF MarksForward

\* An emission waits, or leaves a node that it need not call any more.
LEMMA AheadKept ==
  ASSUME NEW e \in Emitters, AheadOf(e), \A S \in SUBSET Node : Closed(S)' => Closed(S),
         called'[e] = called[e], must'[e] \subseteq must[e], hand'[e] = hand[e],
         \/ pc'[e] = pc[e]
         \/ pc[e] \in AtNode /\ pc'[e] \in AtNode
         \/ pc[e] \in AtNode /\ pc'[e] = "advance" /\ hand[e] \notin must'[e]
  PROVE  AheadOf(e)'
<1>1. \A n : Called(e, n)' <=> Called(e, n)
  BY DEF Called
<1>2. Ahead(e) \subseteq Ahead(e)'
  BY ReachGrows DEF Ahead
<1>3. CASE pc'[e] = pc[e]
  BY <1>1, <1>2, <1>3 DEF AheadOf
<1>4. CASE pc[e] \in AtNode
  BY <1>1, <1>2, <1>4 DEF AheadOf, AtNode
<1> QED BY <1>3, <1>4

\* A step that stores no link: the marks are looked at apart.
LEMMA ForwardQuiet ==
  ASSUME TypeOK, Forward, UNCHANGED <<linkVars, nodeVars, fault, owned, called, api>>,
         MarksForward',
         \A e \in Emitters :
           /\ hand'[e] = hand[e] /\ pc'[e] = pc[e] /\ must'[e] \subseteq must[e]
           /\ \A n \in must'[e] : Usable(unusable[n]) => Usable(unusable'[n]),
         \A w \in Writers :
           pc'[w] \notin {"disconnect", "unlink", "unlink_back", "erase_mark", "erase_relink"}
  PROVE  Forward'
<1>1. UNCHANGED <<head, tail, groupHead, storage, next, extended, fresh>>
  BY DEF linkVars, nodeVars
<1>2. Listed' = Listed /\ Known' = Known /\ \A S \in SUBSET Node : Closed(S)' <=> Closed(S)
  BY <1>1 DEF Listed, Reach, Closed, Known
<1>3. Ends' /\ StorageListed'
  BY <1>1, <1>2 DEF Forward, Ends, StorageListed
<1>4. ForwardOnly'
  BY <1>1 DEF Forward, ForwardOnly, Activations
<1>5. MustCallable'
  BY <1>1, <1>2 DEF Forward, MustCallable, Callable
<1>6. MustAhead'
  BY <1>2, AheadKept DEF Forward, MustAhead
<1> QED BY <1>3, <1>4, <1>5, <1>6 DEF Forward

\* A step of an emission that is not in a critical section.
LEMMA ForwardEmission ==
  ASSUME TypeOK, Forward, NEW e \in Emitters,
         UNCHANGED <<linkVars, nodeVars, fault, unusable, mutex, owned, api>>,
         \A a \in Activations : a # e => pc'[a] = pc[a] /\ hand'[a] = hand[a],
         \A f \in Emitters : f # e => called'[f] = called[f] /\ must'[f] = must[f],
         \A n \in must'[e] : n \in Known /\ Callable(n),
         pc'[e] \notin {"disconnect", "unlink", "unlink_back", "erase_mark", "erase_relink"},
         AheadOf(e)'
  PROVE  Forward'
<1>1. UNCHANGED <<head, tail, groupHead, storage, next, extended, fresh>>
  BY DEF linkVars, nodeVars
<1>2. Listed' = Listed /\ Known' = Known /\ \A S \in SUBSET Node : Closed(S)' <=> Closed(S)
  BY <1>1 DEF Listed, Reach, Closed, Known
<1>3. Ends' /\ StorageListed'
  BY <1>1, <1>2 DEF Forward, Ends, StorageListed
<1>4. ForwardOnly'
  BY <1>1 DEF Forward, ForwardOnly
<1>5. MustCallable'
  <2>1. \A f \in Emitters : pc'[f] \notin {"disconnect", "unlink"}
    BY DEF Forward, ForwardOnly, Activations
  <2>2. \A f \in Emitters : \A n \in must'[f] : n \in Known /\ Callable(n)
    BY DEF Forward, MustCallable
  <2> QED BY <1>2, <2>1, <2>2 DEF MustCallable, Callable
<1>6. MustAhead'
  <2>1. ASSUME NEW f \in Emitters, f # e PROVE AheadOf(f)'
    BY <1>2, <2>1, AheadKept DEF Forward, MustAhead, Activations
  <2> QED BY <2>1 DEF MustAhead
<1>7. MarksForward'
  <2>1. LinkTypeOK /\ Known \subseteq Node
    BY KnownNumbers DEF TypeOK, ListTypeOK
  <2>2. \A w \in Writers : pc'[w] = pc[w] /\ hand'[w] = hand[w]
    BY SignalAssumption DEF Activations
  <2> QED BY <1>1, <2>1, <2>2, ForwardMarksKept DEF Forward
<1> QED BY <1>3, <1>4, <1>5, <1>6, <1>7 DEF Forward

-----------------------------------------------------------------------------
(* Clients that need no prev: the steps of the writers                     *)

\* push_back, push_front and insert hook the node before head or behind a
\* listed node, which insert() can lock.
LEMMA ConnectHooks ==
  ASSUME SafetyInvariant, Ordered, Forward, ForwardClient,
         NEW n \in Node, n = fresh, NEW k, NEW g, MakeNode(n, k, g, FALSE), UNCHANGED api,
         \/ PushBackImpl(n)
         \/ PushFrontImpl(n) /\ "push_front" \in api
         \/ InsertImpl(n, g, Held) /\ "insert" \in api
  PROVE  /\ \/ /\ head' = n /\ next' = [next EXCEPT ![n] = head]
               /\ tail' = IF head = Null THEN n ELSE tail
            \/ \E p \in Listed :
                 /\ head' = head /\ next' = [next EXCEPT ![n] = next[p], ![p] = n]
                 /\ tail' = IF next[p] = Null THEN n ELSE tail
         /\ storage' \subseteq storage \cup {n}
         /\ "insert" \notin api => storage' = {}
         /\ "push_front" \notin api => groupHead' = Null
         /\ fault' = fault
<1>1. ListTypeOK /\ LinkTypeOK /\ Ends /\ StorageListed
  BY DEF SafetyInvariant, TypeOK, ListTypeOK, Forward
<1>2. PICK b \in 1..fresh : OrderedSince(b)
  BY DEF Ordered
<1>3. next[n] = Null
  BY <1>1, <1>2, NewNode
<1>4. /\ head = Null <=> tail = Null
      /\ tail # Null => tail \in Listed /\ next[tail] = Null /\ tail \in Node
  BY <1>1, NodeNumbers DEF Ends, LinkTypeOK
<1>5. [next EXCEPT ![n] = Null] = next
  BY <1>1, <1>3 DEF LinkTypeOK
<1>6. CASE PushBackImpl(n)
  <2>1. CASE tail = Null
    BY <1>1, <1>4, <1>5, <1>6, <2>1 DEF PushBackImpl, StorageListed
  <2>2. CASE tail # Null
    <3>1. [next EXCEPT ![n] = next[tail], ![tail] = n] = [next EXCEPT ![tail] = n]
      BY <1>4, <1>5, <2>2
    <3>2. next' = [next EXCEPT ![n] = next[tail], ![tail] = n]
      BY <1>6, <2>2, <3>1 DEF PushBackImpl
    <3> QED BY <1>1, <1>4, <1>6, <2>2, <3>2 DEF PushBackImpl, StorageListed
  <2> QED BY <2>1, <2>2
<1>7. CASE PushFrontImpl(n) /\ "push_front" \in api
  <2>1. CASE head = Null
    BY <1>1, <1>5, <1>7, <2>1 DEF PushFrontImpl, StorageListed
  <2>2. CASE head # Null
    BY <1>1, <1>7, <2>2 DEF PushFrontImpl, StorageListed
  <2> QED BY <2>1, <2>2
<1>8. CASE InsertImpl(n, g, Held) /\ "insert" \in api
  <2>1. "push_front" \notin api /\ groupHead = Null
    BY <1>1, <1>8 DEF ForwardClient, FrontOperations, GroupOperations, StorageListed
  <2>2. CASE InsertBehindGrouped(n, g, Held)
    <3> DEFINE S == {m \in storage : group[m] <= g}
    <3>1. S \in SUBSET Node
      BY <1>1 DEF LinkTypeOK
    <3>2. Last(S) # Null
      BY <2>2 DEF InsertBehindGrouped
    <3>3. Last(S) \in S
      BY <3>1, <3>2, LastIsLast
    <3>4. PICK p \in Listed : p = Last(S)
      BY <1>1, <3>3 DEF StorageListed
    <3>5. Locked(Last(S), Held) = p /\ p # Null
      BY <1>1, <3>2, <3>4, ListedFacts
    <3> HIDE DEF S
    <3>6. /\ HookBehind(n, p) /\ tail' = IF next[p] = Null THEN n ELSE tail
          /\ UNCHANGED <<head, fault, groupHead>> /\ storage' = storage \cup {n}
      BY <2>2, <3>5 DEF InsertBehindGrouped, S
    <3> QED BY <1>8, <2>1, <3>6 DEF HookBehind
  <2>3. CASE InsertFirstGrouped(n, g)
    BY <1>8, <2>1, <2>3 DEF InsertFirstGrouped
  <2> QED BY <1>8, <2>2, <2>3 DEF InsertImpl
<1> QED BY <1>6, <1>7, <1>8

\* A slot is connected.
LEMMA ForwardConnect ==
  ASSUME PlainWords, SafetyInvariant, SafetyInvariant', Ordered, Forward, ForwardClient,
         NEW w \in Writers, NEW x \in BOOLEAN,
         PushBack(w, x) \/ PushFront(w, x) \/ \E g \in Groups : Insert(w, g, x)
  PROVE  Forward'
<1>1. "extended" \notin api /\ x = FALSE
  BY DEF ForwardClient, FrontOperations, GroupOperations, PushBack, PushFront, Insert, IsExtended
<1>2. PICK n \in Node : n = fresh
  BY DEF PushBack, PushFront, Insert, MakeNode
<1>3. PICK k, g :
        /\ MakeNode(n, k, g, FALSE)
        /\ \/ PushBackImpl(n)
           \/ PushFrontImpl(n) /\ "push_front" \in api
           \/ InsertImpl(n, g, Held) /\ "insert" \in api
  BY <1>1, <1>2 DEF PushBack, PushFront, Insert
<1>4. /\ UNCHANGED <<mutex, pc, hand, api, owned, called, must>> /\ mutex = Free
  BY DEF PushBack, PushFront, Insert, Connect, threadVars, writerVars, trackVars, history
<1>5. /\ ListTypeOK /\ ListTypeOK' /\ LinkTypeOK /\ LinkTypeOK' /\ Ends /\ StorageListed
      /\ MarksForward /\ ForwardOnly /\ MustCallable /\ MustAhead
  BY DEF SafetyInvariant, TypeOK, ListTypeOK, Forward
<1>6. PICK b \in 1..fresh : OrderedSince(b)
  BY DEF Ordered
<1>7. /\ n \notin Known /\ Known' = Known \cup {n} /\ next[n] = Null /\ Known \subseteq Node
  BY <1>2, <1>3, <1>5, <1>6, NewNode, KnownNumbers DEF ListTypeOK
<1>8. n \notin Listed /\ Listed \subseteq Known
  BY <1>5, <1>7, ListedKnown
<1>9. /\ \/ /\ head' = n /\ next' = [next EXCEPT ![n] = head]
            /\ tail' = IF head = Null THEN n ELSE tail
         \/ \E p \in Listed :
              /\ head' = head /\ next' = [next EXCEPT ![n] = next[p], ![p] = n]
              /\ tail' = IF next[p] = Null THEN n ELSE tail
      /\ storage' \subseteq storage \cup {n}
      /\ "insert" \notin api => storage' = {}
      /\ "push_front" \notin api => groupHead' = Null
      /\ fault' = fault
  BY <1>2, <1>3, <1>4, ConnectHooks
<1>10. /\ Listed' = Listed \cup {n} /\ Ends'
       /\ \A S \in SUBSET Node : Closed(S)' => Closed(S)
  BY <1>5, <1>7, <1>8, <1>9, HookedListed
<1>11. /\ Connected(unusable'[n]) /\ extended' = extended
       /\ \A m \in Node : m # n => unusable'[m] = unusable[m]
  BY <1>3, <1>5 DEF MakeNode, PlainWords, ListTypeOK, NodeTypeOK
<1>12. StorageListed'
  BY <1>4, <1>5, <1>9, <1>10 DEF StorageListed
<1>13. MarksForward'
  <2>1. \A m \in Known' : Connected(unusable'[m]) => m \in Listed'
    BY <1>5, <1>7, <1>10, <1>11 DEF MarksForward
  <2>2. \A m \in Listed' : Connected(unusable'[m])
    BY <1>4, <1>5, <1>7, <1>8, <1>10, <1>11 DEF MarksForward
  <2> QED BY <1>4, <2>1, <2>2, ForwardMarksReleased
<1>14. ForwardOnly'
  BY <1>4, <1>5, <1>9, <1>11 DEF ForwardOnly
<1>15. MustCallable'
  BY <1>4, <1>5, <1>7, <1>11 DEF MustCallable, Callable
<1>16. MustAhead'
  BY <1>4, <1>5, <1>10, AheadKept DEF MustAhead
<1> QED BY <1>10, <1>12, <1>13, <1>14, <1>15, <1>16 DEF Forward

\* pop_front() marks head
LEMMA ForwardPopFront ==
  ASSUME SafetyInvariant, SafetyInvariant', Forward, NEW w \in Writers, PopFront(w)
  PROVE  Forward'
<1>1. /\ mutex = Free /\ mutex' = w /\ Mark(head) /\ head # Null /\ "pop_front" \in api
      /\ UNCHANGED <<linkVars, nodeVars, fault, hand, owned, fresh, head, next, api>>
      /\ pc'[w] = "unlink_front"
      /\ \A a \in Activations : a # w => pc'[a] = pc[a]
  BY DEF PopFront, Acquire, Goto, trackVars, linkVars, nodeVars, writerVars, SafetyInvariant,
     TypeOK, ThreadTypeOK, Activations
<1>2. TypeOK /\ LinkTypeOK /\ MarksForward /\ Known \subseteq Node
  BY KnownNumbers DEF SafetyInvariant, TypeOK, ListTypeOK, Forward
<1>3. head \in Listed /\ head \in Node /\ Listed \subseteq Node
  BY <1>1, <1>2, ListedFacts
<1>4. /\ \A m \in Node : m # head => unusable'[m] = unusable[m]
      /\ ~Connected(unusable'[head])
      /\ \A e \in Emitters : must'[e] \subseteq must[e] /\ head \notin must'[e]
      /\ UNCHANGED called
  BY <1>1, <1>2, <1>3, MarkExcuses
<1>5. Known' = Known /\ Listed' = Listed
  BY <1>1 DEF Known, Listed, Reach, Closed
<1>6. \A m \in Known' : Connected(unusable'[m]) => m \in Listed'
  BY <1>2, <1>4, <1>5 DEF MarksForward
<1>7. HolderMarks(w)'
  BY <1>1, <1>2, <1>3, <1>4, <1>5 DEF HolderMarks, MarksForward
<1>8. MarksForward'
  BY <1>1, <1>6, <1>7, ForwardMarksHeld
<1>9. \A e \in Emitters : \A n \in must'[e] : Usable(unusable[n]) => Usable(unusable'[n])
  BY <1>2, <1>4 DEF TypeOK, HistoryTypeOK
<1>10. \A e \in Emitters : pc'[e] = pc[e]
  BY <1>1, SignalAssumption DEF Activations
<1>11. \A v \in Writers : pc'[v] \notin {"disconnect", "unlink", "unlink_back", "erase_mark",
                                        "erase_relink"}
  BY <1>1 DEF Forward, ForwardOnly, Activations
<1> QED BY <1>1, <1>2, <1>4, <1>8, <1>9, <1>10, <1>11, ForwardQuiet

\* ... and unlinks it: the list has one node less.
LEMMA UnlinkFrontListed ==
  ASSUME ListTypeOK, ListTypeOK', Ordered, Ends, head # Null, UnlinkFront
  PROVE  /\ Listed' = Listed \ {head} /\ Ends'
         /\ UNCHANGED <<next, storage, fault>>
         /\ groupHead = Null => groupHead' = Null
<1>1. /\ LinkTypeOK /\ LinkTypeOK' /\ NodeTypeOK /\ next' = next /\ head \in Node
  BY NodeNumbers DEF ListTypeOK, LinkTypeOK, UnlinkFront, UnlinkOnly
<1>2. UNCHANGED <<storage, fault>> /\ (groupHead = Null => groupHead' = Null)
  BY DEF UnlinkFront, UnlinkOnly, StorageWithout, Grouped
<1>3. PICK b \in 1..fresh : OrderedSince(b)
  BY DEF Ordered
<1>4. /\ Listed \subseteq {head} \cup Reach({next[head]})
      /\ Reach({next[head]}) \subseteq Listed /\ head \in Listed
  BY <1>1, ReachStep DEF Listed, LinkTypeOK
<1>5. head \notin Reach({next[head]})
  BY <1>1, <1>3, ReachLeads DEF OrderedSince
<1>6. Reach({next[head]}) = Listed \ {head}
  BY <1>4, <1>5
<1>7. Listed' = Reach({head'})
  BY <1>1 DEF Listed, Reach, Closed
<1>8. CASE head = tail
  <2>1. head' = Null /\ tail' = Null
    BY <1>8 DEF UnlinkFront, UnlinkOnly
  <2>2. next[head] = Null
    BY <1>4, <1>8 DEF Ends
  <2>3. Listed' = Listed \ {head} /\ Listed' = {}
    BY <1>6, <1>7, <2>1, <2>2, ReachNothing
  <2> QED BY <1>1, <1>2, <2>1, <2>3 DEF Ends
<1>9. CASE head # tail
  <2>1. head' = next[head] /\ tail' = tail
    BY <1>9 DEF UnlinkFront
  <2>2. next[head] # Null /\ tail # Null
    BY <1>4, <1>9 DEF Ends
  <2>3. Listed' = Listed \ {head}
    BY <1>6, <1>7, <2>1
  <2>4. Ends'
    BY <1>1, <1>9, <2>1, <2>2, <2>3 DEF Ends
  <2> QED BY <1>1, <1>2, <2>3, <2>4
<1> QED BY <1>8, <1>9

LEMMA ForwardPopUnlink ==
  ASSUME SafetyInvariant, SafetyInvariant', Ordered, ForwardClient, Forward,
         NEW w \in Writers, PopUnlink(w)
  PROVE  Forward'
<1>1. pc[w] = "unlink_front"
  BY DEF PopUnlink, Forward, ForwardOnly, Activations
<1>2. /\ UnlinkFront /\ mutex' = Free
      /\ UNCHANGED <<nodeVars, unusable, hand, owned, called, must, api>>
      /\ pc'[w] = "idle" /\ \A a \in Activations : a # w => pc'[a] = pc[a]
  BY <1>1 DEF PopUnlink, Release, Goto, history, writerVars, trackVars, SafetyInvariant, TypeOK,
     ThreadTypeOK, Activations
<1>3. /\ "pop_front" \in api /\ head \in Listed
      /\ \A m \in Listed : Connected(unusable[m]) <=> m # head
  BY <1>1 DEF Forward, MarksForward, HolderMarks
<1>4. /\ ListTypeOK /\ ListTypeOK' /\ LinkTypeOK /\ Ends /\ StorageListed /\ MarksForward
      /\ ForwardOnly /\ MustCallable /\ MustAhead
  BY DEF SafetyInvariant, TypeOK, ListTypeOK, Forward
<1>5. head # Null
  BY <1>3, <1>4, ListedFacts, NodeNumbers
<1>6. /\ Listed' = Listed \ {head} /\ Ends'
      /\ UNCHANGED <<next, storage, fault>>
      /\ groupHead = Null => groupHead' = Null
  BY <1>2, <1>4, <1>5, UnlinkFrontListed
<1>7. Known' = Known /\ extended' = extended
  BY <1>2 DEF nodeVars, Known
<1>8. "insert" \notin api /\ storage = {}
  BY <1>3, <1>4 DEF ForwardClient, FrontOperations, GroupOperations, StorageListed
<1>9. StorageListed'
  BY <1>2, <1>4, <1>6, <1>8 DEF StorageListed
<1>10. MarksForward'
  <2>1. \A m \in Known' : Connected(unusable'[m]) => m \in Listed'
    BY <1>2, <1>3, <1>4, <1>6, <1>7 DEF MarksForward
  <2>2. \A m \in Listed' : Connected(unusable'[m])
    BY <1>2, <1>3, <1>6
  <2> QED BY <1>2, <2>1, <2>2, ForwardMarksReleased
<1>11. ForwardOnly'
  BY <1>2, <1>4, <1>6, <1>7 DEF ForwardOnly
<1>12. \A e \in Emitters : pc'[e] = pc[e]
  BY <1>2, SignalAssumption DEF Activations
<1>13. MustCallable'
  BY <1>2, <1>4, <1>7, <1>12 DEF MustCallable, Callable
<1>14. MustAhead'
  <2>1. \A S \in SUBSET Node : Closed(S)' => Closed(S)
    BY <1>6 DEF Closed
  <2> QED BY <1>2, <1>4, <1>12, <2>1, AheadKept DEF MustAhead
<1> QED BY <1>6, <1>9, <1>10, <1>11, <1>13, <1>14 DEF Forward

\* clear() begins at head,
LEMMA ForwardClear ==
  ASSUME SafetyInvariant, SafetyInvariant', Forward, NEW w \in Writers, Clear(w)
  PROVE  Forward'
<1>1. /\ mutex = Free /\ mutex' = w /\ head # Null
      /\ UNCHANGED <<listVars, owned, called, must, api>>
      /\ pc'[w] = "clear" /\ hand'[w] = head
      /\ \A a \in Activations : a # w => pc'[a] = pc[a] /\ hand'[a] = hand[a]
  BY DEF Clear, Acquire, Goto, Take, writerVars, trackVars, history, SafetyInvariant, TypeOK,
         ThreadTypeOK, Activations
<1>2. UNCHANGED <<linkVars, nodeVars, fault, unusable, fresh, head, next>>
  BY <1>1 DEF listVars, linkVars, nodeVars
<1>3. TypeOK /\ LinkTypeOK /\ MarksForward
  BY DEF SafetyInvariant, TypeOK, ListTypeOK, Forward
<1>4. /\ head \in Listed /\ Listed' = Listed /\ Known' = Known
      /\ Reach({hand[w]})' = Listed'
  <2>1. Listed' = Listed /\ Known' = Known
    BY <1>2 DEF Listed, Reach, Closed, Known
  <2>2. Reach({hand[w]})' = Listed'
    BY <1>1, <1>2 DEF Listed
  <2> QED BY <1>1, <1>3, <2>1, <2>2, ListedFacts
<1>5. HolderMarks(w)'
  <2>1. \A n \in Listed : Connected(unusable'[n]) /\ n \in Reach({hand[w]})'
    BY <1>1, <1>2, <1>3, <1>4 DEF MarksForward
  <2> QED BY <1>1, <1>4, <2>1 DEF HolderMarks
<1>6. MarksForward'
  BY <1>1, <1>2, <1>3, <1>4, <1>5, ForwardMarksHeld DEF MarksForward
<1>7. \A e \in Emitters : pc'[e] = pc[e] /\ hand'[e] = hand[e]
  BY <1>1, SignalAssumption DEF Activations
<1>8. \A v \in Writers : pc'[v] \notin {"disconnect", "unlink", "unlink_back", "erase_mark",
                                       "erase_relink"}
  BY <1>1 DEF Forward, ForwardOnly, Activations
<1> QED BY <1>1, <1>2, <1>3, <1>6, <1>7, <1>8, ForwardQuiet

\* ... marks one node after the other,
LEMMA ForwardClearMark ==
  ASSUME SafetyInvariant, SafetyInvariant', Ordered, Forward, NEW w \in Writers, ClearMark(w)
  PROVE  Forward'
<1>1. /\ pc[w] = "clear" /\ hand[w] # Null /\ Mark(hand[w])
      /\ UNCHANGED <<linkVars, nodeVars, fault, mutex, pc, owned, fresh, head, next, api>>
      /\ hand'[w] = next[hand[w]]
      /\ \A a \in Activations : a # w => hand'[a] = hand[a]
  BY DEF ClearMark, Take, writerVars, trackVars, linkVars, nodeVars, SafetyInvariant, TypeOK,
     ThreadTypeOK, Activations
<1>2. TypeOK /\ LinkTypeOK /\ NodeTypeOK /\ MarksForward /\ Known \subseteq Node
  BY KnownNumbers DEF SafetyInvariant, TypeOK, ListTypeOK, Forward
<1>3. /\ Listed \subseteq Node /\ Closed(Listed)
      /\ hand[w] \in Listed /\ hand[w] \in Node /\ mutex = w
      /\ \A n \in Listed : Connected(unusable[n]) <=> n \in Reach({hand[w]})
  BY <1>1, <1>2, ListedFacts DEF MarksForward, HolderMarks, SafetyInvariant, MutexProtectsLinks,
     Critical, Activations
<1>4. /\ \A m \in Node : m # hand[w] => unusable'[m] = unusable[m]
      /\ ~Connected(unusable'[hand[w]])
      /\ \A e \in Emitters : must'[e] \subseteq must[e] /\ hand[w] \notin must'[e]
      /\ UNCHANGED called
  BY <1>1, <1>2, <1>3, MarkExcuses
<1>5. Known' = Known /\ Listed' = Listed /\ Reach({hand[w]})' = Reach({next[hand[w]]})
  BY <1>1 DEF Known, Listed, Reach, Closed
<1>6. PICK b \in 1..fresh : OrderedSince(b)
  BY DEF Ordered
<1>7. Reach({next[hand[w]]}) = Reach({hand[w]}) \ {hand[w]}
  <2>1. hand[w] \notin Reach({next[hand[w]]})
    BY <1>2, <1>3, <1>6, ReachLeads DEF OrderedSince
  <2> QED BY <1>2, <1>3, <2>1, ReachStep DEF LinkTypeOK
<1>8. HolderMarks(w)'
  <2>1. hand'[w] # Null => hand'[w] \in Listed'
    BY <1>1, <1>3, <1>5 DEF Closed
  <2>2. \A n \in Listed' : Connected(unusable'[n]) <=> n \in Reach({hand[w]})'
    BY <1>3, <1>4, <1>5, <1>7
  <2> QED BY <1>1, <2>1, <2>2 DEF HolderMarks
<1>9. MarksForward'
  <2>1. \A m \in Known' : Connected(unusable'[m]) => m \in Listed'
    BY <1>2, <1>4, <1>5 DEF MarksForward
  <2> QED BY <1>1, <1>3, <1>8, <2>1, ForwardMarksHeld
<1>10. \A e \in Emitters : pc'[e] = pc[e] /\ hand'[e] = hand[e]
  BY <1>1, SignalAssumption DEF Activations
<1>11. \A e \in Emitters : \A n \in must'[e] : Usable(unusable[n]) => Usable(unusable'[n])
  BY <1>2, <1>4 DEF TypeOK, HistoryTypeOK
<1>12. \A v \in Writers : pc'[v] \notin {"disconnect", "unlink", "unlink_back", "erase_mark",
                                        "erase_relink"}
  BY <1>1 DEF Forward, ForwardOnly, Activations
<1> QED BY <1>1, <1>2, <1>4, <1>9, <1>10, <1>11, <1>12, ForwardQuiet

\* ... and drops the list, which nobody has to call any more.
LEMMA ForwardClearUnlink ==
  ASSUME SafetyInvariant, SafetyInvariant', Forward, NEW w \in Writers, ClearUnlink(w)
  PROVE  Forward'
<1>1. /\ pc[w] = "clear" /\ hand[w] = Null /\ UnlinkAll /\ mutex' = Free
      /\ UNCHANGED <<nodeVars, unusable, hand, owned, called, must, api>>
      /\ pc'[w] = "idle" /\ \A a \in Activations : a # w => pc'[a] = pc[a]
  BY DEF ClearUnlink, Release, Goto, history, writerVars, trackVars, SafetyInvariant, TypeOK,
     ThreadTypeOK, Activations
<1>2. MarksForward /\ ForwardOnly /\ MustCallable /\ MustAhead
  BY DEF Forward
<1>3. \A n \in Known : ~Connected(unusable[n])
  BY <1>1, <1>2, ReachNothing DEF MarksForward, HolderMarks
<1>4. \A e \in Emitters : must[e] = {}
  BY <1>2, <1>3 DEF MustCallable, Callable, Usable
<1>5. /\ head' = Null /\ tail' = Null /\ groupHead' = Null /\ storage' = {}
      /\ UNCHANGED <<next, fault, extended>> /\ Known' = Known
  BY <1>1 DEF UnlinkAll, UnlinkOnly, nodeVars, Known
<1>6. Listed' = {}
  <2>1. Listed' = Reach({Null})
    BY <1>5 DEF Listed, Reach, Closed
  <2> QED BY <2>1, ReachNothing
<1>7. Ends' /\ StorageListed'
  BY <1>5, <1>6 DEF Ends, StorageListed
<1>8. MarksForward'
  <2>1. \A n \in Known' : ~Connected(unusable'[n])
    BY <1>1, <1>3, <1>5
  <2> QED BY <1>1, <1>6, <2>1, ForwardMarksReleased
<1>9. ForwardOnly' /\ MustCallable' /\ MustAhead'
  BY <1>1, <1>2, <1>4, <1>5 DEF ForwardOnly, MustCallable, MustAhead, AheadOf
<1> QED BY <1>7, <1>8, <1>9 DEF Forward

\* A slot is blocked or unblocked.
LEMMA ForwardBlock ==
  ASSUME PlainWords, SafetyInvariant, Forward, NEW n \in Node, NEW d \in {-1, 1}, Block(n, d)
  PROVE  Forward'
<1>1. /\ UNCHANGED <<linkVars, nodeVars, fault, mutex, pc, hand, owned, called, fresh, head, next,
                     api>>
      /\ Connected(unusable[n]) /\ unusable' = [unusable EXCEPT ![n] = @ + d]
      /\ unusable[n] + d \in (-MaxBlock)..MaxBlock
      /\ (Usable(unusable[n] + d) /\ UNCHANGED must) \/ Excuse(n)
  BY DEF Block, linkVars, nodeVars, writerVars, trackVars
<1>2. /\ TypeOK /\ LinkTypeOK /\ Known \subseteq Node
      /\ unusable \in [Node -> Int] /\ \A e \in Emitters : must[e] \subseteq Node
  BY KnownNumbers DEF SafetyInvariant, TypeOK, ListTypeOK, NodeTypeOK, HistoryTypeOK
<1>3. \A m \in Node : m # n => unusable'[m] = unusable[m]
  BY <1>1, <1>2
<1>4. unusable'[n] = unusable[n] + d /\ Connected(unusable'[n])
  BY <1>1, <1>2 DEF PlainWords, Connected
<1>5. \A m \in Node : Connected(unusable'[m]) <=> Connected(unusable[m])
  BY <1>1, <1>3, <1>4
<1>6. MarksForward'
  BY <1>1, <1>2, <1>5, ForwardMarksKept DEF Forward
<1>7. ASSUME NEW e \in Emitters
      PROVE  /\ must'[e] \subseteq must[e]
             /\ \A m \in must'[e] : Usable(unusable[m]) => Usable(unusable'[m])
  <2>1. CASE Excuse(n)
    BY <2>1, <1>2, <1>3 DEF Excuse
  <2>2. CASE Usable(unusable[n] + d) /\ UNCHANGED must
    BY <2>2, <1>2, <1>3, <1>4
  <2> QED BY <1>1, <2>1, <2>2
<1>8. \A v \in Writers : pc'[v] \notin {"disconnect", "unlink", "unlink_back", "erase_mark",
                                       "erase_relink"}
  BY <1>1 DEF Forward, ForwardOnly, Activations
<1> QED BY <1>1, <1>2, <1>6, <1>7, <1>8, ForwardQuiet

-----------------------------------------------------------------------------
(* Clients that need no prev: the steps of an emission                     *)

\* What an emission standing on a node knows.
LEMMA ForwardStands ==
  ASSUME SafetyInvariant, Forward, NEW e \in Emitters, pc[e] \in AtNode \cup {"advance"}
  PROVE  /\ hand[e] \in Node /\ must[e] \subseteq Node /\ AheadOf(e)
         /\ \A n \in must[e] : n \in Known /\ Callable(n)
<1>1. hand[e] # Null /\ hand[e] \in Link
  BY DEF SafetyInvariant, LocalsHold, OnNode, AtNode, TypeOK, ThreadTypeOK, Activations
<1> QED BY <1>1, NodeNumbers DEF Forward, MustCallable, MustAhead, SafetyInvariant, TypeOK,
        HistoryTypeOK

\* All that an emission has to call is listed when it begins.
LEMMA ForwardEmit ==
  ASSUME SafetyInvariant, Forward, NEW e \in Emitters, Emit(e)
  PROVE  Forward'
<1>1. /\ UNCHANGED <<listVars, mutex, owned, called, api>>
      /\ hand'[e] = head
      /\ pc'[e] = IF head = Null THEN "done" ELSE "check"
      /\ must'[e] = {n \in Known : Callable(n)}
      /\ \A a \in Activations : a # e => pc'[a] = pc[a] /\ hand'[a] = hand[a]
      /\ \A f \in Emitters : f # e => must'[f] = must[f]
  BY DEF Emit, Goto, Take, trackVars, writerVars, SafetyInvariant, TypeOK, ThreadTypeOK,
         HistoryTypeOK, Activations
<1>2. UNCHANGED <<linkVars, nodeVars, fault, unusable, head, next>>
  BY <1>1 DEF listVars, linkVars
<1>3. TypeOK /\ LinkTypeOK /\ MarksForward
  BY DEF SafetyInvariant, TypeOK, ListTypeOK, Forward
<1>4. must'[e] \subseteq Listed
  BY <1>1, <1>3 DEF MarksForward, Callable, Usable
<1>5. Ahead(e)' = Listed
  BY <1>1, <1>2 DEF Ahead, Listed, Reach, Closed
<1>6. head = Null => must'[e] = {}
  BY <1>3, <1>4, ListedFacts
<1>7. AheadOf(e)'
  BY <1>1, <1>4, <1>5, <1>6 DEF AheadOf, AtNode
<1> QED BY <1>1, <1>2, <1>3, <1>7, ForwardEmission

\* usable() lets an emission pass over what it need not call; what a slot
\* tracks can be locked.
LEMMA ForwardAtNode ==
  ASSUME SafetyInvariant, Forward, NEW e \in Emitters, CheckUsable(e) \/ TryLock(e)
  PROVE  Forward'
<1>1. /\ pc[e] \in AtNode
      /\ UNCHANGED <<linkVars, nodeVars, fault, unusable, mutex, owned, hand, called, must, api,
                     next>>
      /\ \A a \in Activations : a # e => pc'[a] = pc[a]
  BY DEF CheckUsable, TryLock, Goto, trackVars, writerVars, history, listVars, linkVars, AtNode,
         SafetyInvariant, TypeOK, ThreadTypeOK, Activations
<1>2. /\ hand[e] \in Node /\ AheadOf(e)
      /\ \A n \in must[e] : n \in Known /\ Callable(n)
  BY <1>1, ForwardStands
<1>3. pc'[e] \in {"try_lock", "call", "advance"}
  BY <1>2 DEF CheckUsable, TryLock, Goto, Lockable, Forward, ForwardOnly, SafetyInvariant, TypeOK,
     ThreadTypeOK, Activations
<1>4. pc'[e] = "advance" => hand[e] \notin must[e]
  BY <1>2 DEF CheckUsable, TryLock, Goto, Callable, SafetyInvariant, TypeOK, ThreadTypeOK,
     Activations
<1>5. AheadOf(e)'
  <2>1. \A S \in SUBSET Node : Closed(S)' => Closed(S)
    BY <1>1 DEF Closed
  <2> QED BY <1>1, <1>2, <1>3, <1>4, <2>1, AheadKept DEF AtNode
<1>6. TypeOK
  BY DEF SafetyInvariant
<1> QED BY <1>1, <1>2, <1>3, <1>5, <1>6, ForwardEmission

\* The slot is called.
LEMMA ForwardCallSlot ==
  ASSUME SafetyInvariant, Forward, NEW e \in Emitters, CallSlot(e)
  PROVE  Forward'
<1>1. /\ pc[e] = "call" /\ pc'[e] = "advance"
      /\ called'[e] = Append(called[e], hand[e]) /\ called[e] \in Seq(Node)
      /\ UNCHANGED <<linkVars, nodeVars, unusable, mutex, owned, hand, must, api, next>>
      /\ \A a \in Activations : a # e => pc'[a] = pc[a]
      /\ \A f \in Emitters : f # e => called'[f] = called[f]
  BY DEF CallSlot, Goto, writerVars, linkVars, SafetyInvariant, TypeOK, ThreadTypeOK,
         HistoryTypeOK, Activations
<1>2. UNCHANGED fault
  BY DEF CallSlot, Forward, ForwardOnly
<1>3. /\ hand[e] \in Node /\ AheadOf(e)
      /\ \A n \in must[e] : n \in Known /\ Callable(n)
  BY <1>1, ForwardStands DEF AtNode
<1>4. \A n : Called(e, n)' <=> Called(e, n) \/ n = hand[e]
  <2>1. /\ DOMAIN called'[e] = DOMAIN called[e] \cup {Len(called[e]) + 1}
        /\ \A i \in DOMAIN called[e] : called'[e][i] = called[e][i]
        /\ called'[e][Len(called[e]) + 1] = hand[e]
    BY <1>1, <1>3
  <2> QED BY <2>1 DEF Called
<1>5. Ahead(e)' = Ahead(e)
  BY <1>1 DEF Ahead, Reach, Closed
<1>6. AheadOf(e)'
  BY <1>1, <1>3, <1>4, <1>5 DEF AheadOf, AtNode
<1>7. TypeOK
  BY DEF SafetyInvariant
<1> QED BY <1>1, <1>2, <1>3, <1>6, <1>7, ForwardEmission

\* An emission goes on with next, and loses nothing but the node it leaves.
LEMMA ForwardAdvance ==
  ASSUME SafetyInvariant, Forward, NEW e \in Emitters, Advance(e)
  PROVE  Forward'
<1>1. /\ pc[e] = "advance"
      /\ UNCHANGED <<linkVars, nodeVars, fault, unusable, mutex, owned, called, must, api, next>>
      /\ hand'[e] = next[hand[e]]
      /\ pc'[e] = IF next[hand[e]] = Null THEN "done" ELSE "check"
      /\ \A a \in Activations : a # e => pc'[a] = pc[a] /\ hand'[a] = hand[a]
  BY DEF Advance, Goto, Take, trackVars, writerVars, history, listVars, linkVars, SafetyInvariant,
         TypeOK, ThreadTypeOK, Activations
<1>2. /\ hand[e] \in Node /\ AheadOf(e)
      /\ \A n \in must[e] : n \in Known /\ Callable(n)
  BY <1>1, ForwardStands
<1>3. TypeOK /\ next \in [Node -> Link]
  BY DEF SafetyInvariant, TypeOK, ListTypeOK, LinkTypeOK
<1>4. Ahead(e) \ {hand[e]} \subseteq Reach({next[hand[e]]})
  BY <1>2, <1>3, ReachStep DEF Ahead
<1>5. Ahead(e)' = Reach({next[hand[e]]})
  BY <1>1 DEF Ahead, Reach, Closed
<1>6. \A n \in must'[e] : Called(e, n)' \/ n \in Ahead(e)'
  BY <1>1, <1>2, <1>4, <1>5 DEF AheadOf, Called
<1>7. next[hand[e]] = Null => Ahead(e)' = {}
  BY <1>5, ReachNothing
<1>8. AheadOf(e)'
  BY <1>1, <1>6, <1>7 DEF AheadOf, AtNode
<1> QED BY <1>1, <1>2, <1>3, <1>8, ForwardEmission

\* emit() returns, or unwinds when a slot throws.
LEMMA ForwardEmitEnds ==
  ASSUME SafetyInvariant, Forward, NEW e \in Emitters, EmitReturns(e) \/ SlotThrows(e)
  PROVE  Forward'
<1>1. /\ pc'[e] = "idle" /\ must'[e] = {}
      /\ UNCHANGED <<linkVars, nodeVars, fault, unusable, mutex, owned, api>>
      /\ \A a \in Activations : a # e => pc'[a] = pc[a] /\ hand'[a] = hand[a]
      /\ \A f \in Emitters : f # e => called'[f] = called[f] /\ must'[f] = must[f]
  BY DEF EmitReturns, SlotThrows, ForgetEmission, Goto, Take, trackVars, writerVars, listVars,
         SafetyInvariant, TypeOK, ThreadTypeOK, HistoryTypeOK, Activations
<1>2. AheadOf(e)'
  BY <1>1 DEF AheadOf, AtNode
<1>3. TypeOK
  BY DEF SafetyInvariant
<1> QED BY <1>1, <1>2, <1>3, ForwardEmission

-----------------------------------------------------------------------------
(* Clients that need no prev: the invariant                                *)

\* A new signal lists nothing.
LEMMA InitForward == Init => Forward
<1> SUFFICES ASSUME Init PROVE Forward
  OBVIOUS
<1> USE DEF Init, ListInit
<1>1. Known = {} /\ Listed = {}
  <2>1. Listed = Reach({Null})
    BY DEF Listed
  <2>2. Known = {}
    BY DEF Known
  <2> QED BY <2>1, <2>2, ReachNothing
<1>2. Ends /\ StorageListed /\ ForwardOnly
  BY <1>1 DEF Ends, StorageListed, ForwardOnly, Activations
<1>3. MarksForward
  BY <1>1 DEF MarksForward, HolderMarks, Activations
<1>4. MustCallable /\ MustAhead
  BY DEF MustCallable, MustAhead, AheadOf, AtNode, Activations
<1> QED BY <1>2, <1>3, <1>4 DEF Forward

\* Nothing happens.
LEMMA StutterForward ==
  ASSUME SafetyInvariant, Forward, UNCHANGED vars
  PROVE  Forward'
<1> USE DEF vars, threadVars, listVars, linkVars, nodeVars, writerVars, trackVars, history
<1>1. TypeOK /\ LinkTypeOK /\ Known \subseteq Node
  BY KnownNumbers DEF SafetyInvariant, TypeOK, ListTypeOK
<1>2. MarksForward'
  BY <1>1, ForwardMarksKept DEF Forward
<1>3. \A w \in Writers :
        pc'[w] \notin {"disconnect", "unlink", "unlink_back", "erase_mark", "erase_relink"}
  BY DEF Forward, ForwardOnly, Activations
<1> QED BY <1>1, <1>2, <1>3, ForwardQuiet

\* Every step such a client can take.
LEMMA NextForward ==
  ASSUME PlainWords, ForwardClient, SafetyInvariant, SafetyInvariant', Ordered, Forward,
         [Next]_vars
  PROVE  Forward'
<1>1. ASSUME NEW w \in Writers, StartWrite(w)
      PROVE  Forward'
  <2>1. ~PopBack(w) /\ (\A n \in Node : ~Disconnect(w, n)) /\ \A g \in Groups : ~Erase(w, g)
    BY DEF ForwardClient, FrontOperations, GroupOperations, PopBack, Disconnect, Erase
  <2> QED BY <1>1, <2>1, ForwardConnect, ForwardPopFront, ForwardClear DEF StartWrite
<1>2. ASSUME NEW w \in Writers, PopUnlink(w) \/ ClearMark(w) \/ ClearUnlink(w)
      PROVE  Forward'
  BY <1>2, ForwardPopUnlink, ForwardClearMark, ForwardClearUnlink
<1>3. /\ \A a \in Activations : ~DisconnectMark(a) /\ ~DisconnectUnlink(a)
      /\ \A w \in Writers : ~EraseMark(w) /\ ~EraseRelink(w)
  BY DEF Forward, ForwardOnly, Activations, DisconnectMark, DisconnectUnlink, EraseMark,
     EraseRelink
<1>4. ASSUME NEW e \in Emitters,
             \/ Emit(e) \/ CheckUsable(e) \/ TryLock(e) \/ CallSlot(e) \/ SlotThrows(e)
             \/ Advance(e) \/ EmitReturns(e)
      PROVE  Forward'
  BY <1>4, ForwardEmit, ForwardAtNode, ForwardCallSlot, ForwardAdvance, ForwardEmitEnds
<1>5. \A n \in Node : ~Expire(n)
  BY DEF ForwardClient, FrontOperations, GroupOperations, Expire
<1>6. ASSUME NEW n \in Node, NEW d \in {-1, 1}, Block(n, d)
      PROVE  Forward'
  BY <1>6, ForwardBlock
<1>7. CASE UNCHANGED vars
  BY <1>7, StutterForward
<1> QED BY <1>1, <1>2, <1>3, <1>4, <1>5, <1>6, <1>7
        DEF Next, FinishWrite, EmitStep, Activations

\* The list and the emissions of a signal of such a client, for any number
\* of nodes, threads and groups, beside clients that use it otherwise.
THEOREM ForwardHolds ==
  ASSUME PlainWords
  PROVE  Spec => [](ForwardClient => Forward)
<1>1. Init => (ForwardClient => Forward)
  BY InitForward
<1>2. ASSUME SafetyInvariant, SafetyInvariant', OrderInvariant, ForwardClient => Forward,
             [Next]_vars
      PROVE  (ForwardClient => Forward)'
  <2> SUFFICES ASSUME ForwardClient' PROVE Forward'
    OBVIOUS
  <2>1. ForwardClient
    BY <1>2, ApiStays DEF ForwardClient
  <2>2. Forward
    BY <1>2, <2>1
  <2>3. Ordered
    BY <1>2, <2>1, <2>2 DEF OrderInvariant, ForwardClient, FrontOperations, GroupOperations,
       Forward, ForwardOnly
  <2> QED BY <1>2, <2>1, <2>2, <2>3, NextForward
<1> QED BY <1>1, <1>2, Safety, OrderHolds, PTL DEF Spec

-----------------------------------------------------------------------------
(* What a walk from head meets                                             *)

\* No node is met twice, so a walk that is longer than there are nodes has
\* come to an end,
LEMMA WalkLeads ==
  ASSUME ListTypeOK, Ordered, NEW w, w = Along(head)
  PROVE  /\ \A i, j \in Nat : i < j /\ w[j] # Null => w[i] # Null /\ Precedes(w[i], w[j])
         /\ \A k \in Nat : w[k] # Null => k \in 0..(MaxNodes - 1)
<1>1. LinkTypeOK /\ NodeTypeOK /\ head \in Link /\ next \in [Node -> Link]
  BY DEF ListTypeOK, LinkTypeOK
<1>2. /\ w[0] = head
      /\ \A k \in Nat : w[k + 1] = IF w[k] = Null THEN Null ELSE next[w[k]]
  BY <1>1, AlongSteps
<1>3. \A k \in Nat : w[k] \in Link
  <2>1. PICK S \in SUBSET Node : S = Node
    OBVIOUS
  <2>2. Closed(S) /\ head \in S \cup {Null}
    BY <1>1, <2>1 DEF Closed, Link
  <2> QED BY <1>1, <2>1, <2>2, AlongClosed DEF Link
<1>4. PICK b \in 1..fresh : LinksInOrder(b)
  BY DEF Ordered, OrderedSince
<1>5. ASSUME NEW k \in Nat, w[k + 1] # Null
      PROVE  w[k] # Null /\ Leads(b, w[k], w[k + 1])
  BY <1>2, <1>3, <1>4, <1>5, NodeNumbers DEF LinksInOrder
<1>6. ASSUME NEW i \in Nat, NEW j \in Nat, i < j, w[j] # Null
      PROVE  w[i] # Null /\ Leads(b, w[i], w[j])
  <2> DEFINE T == {k \in Nat : i < k /\ w[k] # Null /\ ~(w[i] # Null /\ Leads(b, w[i], w[k]))}
  <2> SUFFICES ASSUME T # {} PROVE FALSE
    BY <1>6
  <2>1. T \in SUBSET Nat
    OBVIOUS
  <2>2. PICK k \in T : \A l \in T : k <= l
    BY <2>1, LeastNumber
  <2>3. PICK l \in Nat : k = l + 1
    <3>1. k \in Nat /\ 0 < k
      BY <2>2
    <3>2. k - 1 \in Nat /\ k = (k - 1) + 1
      BY <3>1
    <3> QED BY <3>2
  <2>4. w[l] # Null /\ Leads(b, w[l], w[k])
    BY <1>5, <2>2, <2>3
  <2>5. l \notin T
    BY <2>2, <2>3
  <2>6. i # l
    BY <2>2, <2>4
  <2>7. i < l
    BY <2>2, <2>3, <2>6
  <2>8. w[i] # Null /\ Leads(b, w[i], w[l])
    BY <2>4, <2>5, <2>7
  <2> QED BY <1>1, <2>2, <2>4, <2>8, LeadsOrder
<1>7. ASSUME NEW k \in Nat, w[k] # Null, MaxNodes <= k
      PROVE  FALSE
  <2>1. \A i \in 0..MaxNodes : w[i] \in Node
    <3> TAKE i \in 0..MaxNodes
    <3>1. w[i] # Null
      BY <1>6, <1>7
    <3> QED BY <1>3, <3>1, NodeNumbers
  <2>2. PICK f : f = [i \in 0..MaxNodes |-> w[i]]
    OBVIOUS
  <2>3. f \in [0..MaxNodes -> 1..MaxNodes] /\ \A i \in 0..MaxNodes : f[i] = w[i]
    BY <2>1, <2>2 DEF Node
  <2>4. /\ IsFiniteSet(0..MaxNodes) /\ IsFiniteSet(1..MaxNodes)
        /\ Cardinality(1..MaxNodes) < Cardinality(0..MaxNodes)
    <3>1. MaxNodes \in Int /\ MaxNodes >= 0 /\ 0 \in Int /\ 1 \in Int
      BY SlotListAssumption
    <3>2. /\ IsFiniteSet(0..MaxNodes) /\ IsFiniteSet(1..MaxNodes)
          /\ Cardinality(0..MaxNodes) = MaxNodes + 1 /\ Cardinality(1..MaxNodes) = MaxNodes
      BY <3>1, FS_Interval
    <3> QED BY <3>1, <3>2
  <2>5. PICK i, j \in 0..MaxNodes : i # j /\ f[i] = f[j]
    <3>1. PICK S, T : S = 0..MaxNodes /\ T = 1..MaxNodes
      OBVIOUS
    <3>2. /\ IsFiniteSet(S) /\ IsFiniteSet(T) /\ Cardinality(T) < Cardinality(S)
          /\ f \in [S -> T]
      BY <2>3, <2>4, <3>1
    <3>3. \E i, j \in S : i # j /\ f[i] = f[j]
      BY <3>2, FS_PigeonHole
    <3> QED BY <3>1, <3>3
  <2>6. i \in Nat /\ j \in Nat /\ w[i] = w[j] /\ w[i] # Null
    <3>1. w[i] = w[j]
      BY <2>3, <2>5
    <3>2. w[i] # Null
      BY <2>1, NodeNumbers
    <3> QED BY <3>1, <3>2
  <2>7. Leads(b, w[i], w[i])
    BY <1>6, <2>5, <2>6
  <2> QED BY <1>1, <2>7, LeadsOrder
<1>8. \A k \in Nat : w[k] # Null => k \in 0..(MaxNodes - 1)
  BY <1>7, SlotListAssumption
<1> QED BY <1>6, <1>8 DEF Leads

\* ... after it has met all of the list.
LEMMA WalkListed ==
  ASSUME ListTypeOK, Ordered, NEW w, w = Along(head)
  PROVE  /\ \A k \in Nat : w[k] \in Listed \cup {Null}
         /\ \A n \in Listed : \E k \in 0..(MaxNodes - 1) : w[k] = n
<1>1. LinkTypeOK /\ head \in Link /\ next \in [Node -> Link]
  BY DEF ListTypeOK, LinkTypeOK
<1>2. PICK L \in SUBSET Node : L = Listed /\ Closed(L) /\ head \in L \cup {Null}
  BY <1>1, ListedFacts
<1>3. \A k \in Nat : w[k] \in L \cup {Null}
  BY <1>1, <1>2, AlongClosed
<1>4. /\ w[0] = head
      /\ \A k \in Nat : w[k + 1] = IF w[k] = Null THEN Null ELSE next[w[k]]
  BY <1>1, AlongSteps
<1>5. PICK S \in SUBSET Node : S = {m \in Node : \E k \in Nat : w[k] = m}
  OBVIOUS
<1>6. {head} \ {Null} \subseteq S
  BY <1>2, <1>4, <1>5
<1>7. ASSUME NEW m \in S, next[m] # Null PROVE next[m] \in S
  <2>1. PICK k \in Nat : w[k] = m
    BY <1>5
  <2>2. w[k + 1] = next[m] /\ k + 1 \in Nat /\ next[m] \in Node
    BY <1>1, <1>4, <1>7, <2>1, NodeNumbers
  <2> QED BY <1>5, <2>2
<1>8. L \subseteq S
  BY <1>2, <1>6, <1>7, ReachLeast DEF Closed, Listed
<1>9. ASSUME NEW n \in L PROVE \E k \in 0..(MaxNodes - 1) : w[k] = n
  <2>1. PICK k \in Nat : w[k] = n
    BY <1>5, <1>8
  <2>2. w[k] # Null
    BY <2>1, NodeNumbers
  <2> QED BY <2>1, <2>2, WalkLeads
<1> QED BY <1>2, <1>3, <1>9

\* So the walk meets the connected nodes in the order of the slots.
LEMMA WalkMeets ==
  ASSUME ListTypeOK, Ordered, \A n \in Known : Connected(unusable[n]) => n \in Listed,
         NEW V, V = {n \in Known : Connected(unusable[n])}
  PROVE  Met = V /\ MetBefore = {p \in V \X V : Precedes(p[1], p[2])}
<1>1. PICK I : I = {p \in V \X V : Precedes(p[1], p[2])}
  OBVIOUS
<1>2. PICK w : w = Along(head)
  OBVIOUS
<1>3. /\ \A k \in Nat : w[k] \in Listed \cup {Null}
      /\ \A i, j \in Nat : i < j /\ w[j] # Null => w[i] # Null /\ Precedes(w[i], w[j])
      /\ \A n \in Listed : \E k \in 0..(MaxNodes - 1) : w[k] = n
  BY <1>2, WalkLeads, WalkListed
<1>4. 0..(MaxNodes - 1) \subseteq Nat /\ 1..(MaxNodes - 1) \subseteq Nat
  BY SlotListAssumption
<1>5. Listed \subseteq Known /\ Known \subseteq Node /\ NodeTypeOK
  BY ListedKnown, KnownNumbers DEF ListTypeOK
<1>6. Met = V
  <2>1. Met = {n \in {w[k] : k \in 0..(MaxNodes - 1)} : n # Null /\ Connected(unusable[n])}
    BY <1>2 DEF Met
  <2>2. ASSUME NEW n \in Met PROVE n \in V
    <3>1. PICK k \in 0..(MaxNodes - 1) : n = w[k]
      BY <2>1, <2>2
    <3>2. n # Null /\ Connected(unusable[n])
      BY <2>1, <2>2
    <3>3. n \in Known
      BY <1>3, <1>4, <1>5, <3>1, <3>2
    <3> QED BY <3>2, <3>3
  <2>3. ASSUME NEW n \in V PROVE n \in Met
    <3>1. n \in Listed /\ n # Null /\ Connected(unusable[n])
      BY <1>5, NodeNumbers
    <3>2. PICK k \in 0..(MaxNodes - 1) : w[k] = n
      BY <1>3, <3>1
    <3> QED BY <2>1, <3>1, <3>2
  <2> QED BY <2>2, <2>3
<1>7. \A p : p \in MetBefore <=>
              /\ \E j \in 1..(MaxNodes - 1) : p \in {<<w[i], w[j]>> : i \in 0..(j - 1)}
              /\ p \in V \X V
  BY <1>2, <1>6 DEF MetBefore
<1>8. ASSUME NEW p \in MetBefore PROVE p \in I
  <2>1. PICK j \in 1..(MaxNodes - 1) : p \in {<<w[i], w[j]>> : i \in 0..(j - 1)}
    BY <1>7, <1>8
  <2>2. PICK i \in 0..(j - 1) : p = <<w[i], w[j]>>
    BY <2>1
  <2>3. i \in Nat /\ j \in Nat /\ i < j
    BY SlotListAssumption
  <2>4. p \in V \X V /\ w[j] \in V
    <3>1. <<w[i], w[j]>> \in V \X V
      BY <1>7, <1>8, <2>2
    <3> QED BY <2>2, <3>1
  <2>5. w[j] # Null
    BY <1>5, <2>4, NodeNumbers
  <2>6. Precedes(w[i], w[j])
    BY <1>3, <2>3, <2>5
  <2>7. p[1] = w[i] /\ p[2] = w[j]
    BY <2>2
  <2> QED BY <1>1, <2>4, <2>6, <2>7
<1>9. ASSUME NEW p \in I PROVE p \in MetBefore
  <2>1. PICK m \in V, n \in V : p = <<m, n>> /\ Precedes(m, n)
    <3>1. p \in V \X V /\ Precedes(p[1], p[2])
      BY <1>1, <1>9
    <3>2. p = <<p[1], p[2]>> /\ p[1] \in V /\ p[2] \in V
      BY <3>1
    <3> QED BY <3>1, <3>2
  <2>2. m \in Listed /\ n \in Listed /\ m \in Node /\ n \in Node
    BY <1>5
  <2>3. PICK i \in 0..(MaxNodes - 1) : w[i] = m
    BY <1>3, <2>2
  <2>4. PICK j \in 0..(MaxNodes - 1) : w[j] = n
    BY <1>3, <2>2
  <2>5. i \in Nat /\ j \in Nat
    BY <1>4
  <2>6. i < j
    <3>1. i # j
      BY <1>5, <2>1, <2>2, <2>3, <2>4, PrecedesOrder
    <3>2. ~(j < i)
      <4>1. j < i => Precedes(n, m)
        BY <1>3, <2>2, <2>3, <2>4, <2>5, NodeNumbers
      <4> QED BY <1>5, <2>1, <2>2, <4>1, PrecedesOrder
    <3> QED BY <2>5, <3>1, <3>2
  <2>7. j \in 1..(MaxNodes - 1) /\ i \in 0..(j - 1)
    BY <2>5, <2>6, SlotListAssumption
  <2>8. p \in {<<w[k], w[j]>> : k \in 0..(j - 1)}
    BY <2>1, <2>3, <2>4, <2>7
  <2> QED BY <1>7, <2>1, <2>7, <2>8
<1> QED BY <1>1, <1>6, <1>8, <1>9
=============================================================================
