------------------------------ MODULE SlotList ------------------------------
(***************************************************************************)
(* The slot list of a signal: the fields of class signal, the links of its *)
(* nodes, and what each of the *_impl functions does to them while the     *)
(* caller holds the mutex.                                                 *)
(*                                                                         *)
(* A node is named by the order of its allocation, 1 being the oldest; 0   *)
(* is the null pointer.  shared_ptr fields are plain values; a weak_ptr is *)
(* a value that can be locked only while its node is alive, and a node is  *)
(* alive exactly while some chain of shared_ptr leads to it.               *)
(***************************************************************************)
EXTENDS NodeWord, FiniteSets

CONSTANTS MaxNodes,       \* bound: slots connected in one behaviour
          Groups,         \* the keys of grouped slots
          InitialWords    \* what _unusable may hold when a node is built

ASSUME SlotListAssumption ==
         /\ MaxNodes \in Nat
         /\ Groups \subseteq Int
         /\ InitialWords \subseteq Int

Node == 1..MaxNodes

Null == 0

Link == Node \cup {Null}

VARIABLES
  head, tail, groupHead,   \* head, tail, group_head
  storage,                 \* group_storage: the nodes it lists
  next, prev,              \* of each node: next (shared_ptr), prev (weak_ptr)
  group,                   \* of each node: its key in group_storage
  kind,                    \* of each node: the function that connected it
  extended,                \* the nodes made by an *_extended function
  unusable,                \* of each node: _unusable
  fresh,                   \* the next node make_shared will return
  fault                    \* the undefined behaviour met, if any

linkVars == <<head, tail, groupHead, storage, next, prev>>

nodeVars == <<group, kind, extended, fresh>>

listVars == <<linkVars, nodeVars, unusable, fault>>

Faults == {"none", "null_dereference", "past_the_end", "bad_cast",
           "self_lock", "dangling_signal", "dangling_handle"}

Kinds == {"none", "front", "group", "back"}

LinkTypeOK ==
  /\ head \in Link /\ tail \in Link /\ groupHead \in Link
  /\ storage \subseteq Node
  /\ next \in [Node -> Link] /\ prev \in [Node -> Link]
  /\ fault \in Faults

NodeTypeOK ==
  /\ group \in [Node -> Groups \cup {0}]
  /\ kind \in [Node -> Kinds]
  /\ extended \subseteq Node
  /\ unusable \in [Node -> Int]
  /\ fresh \in 1..(MaxNodes + 1)

ListTypeOK == LinkTypeOK /\ NodeTypeOK

ListInit ==
  /\ head = Null /\ tail = Null /\ groupHead = Null
  /\ storage = {}
  /\ next = [n \in Node |-> Null] /\ prev = [n \in Node |-> Null]
  /\ group = [n \in Node |-> 0]
  /\ kind = [n \in Node |-> "none"]
  /\ extended = {}
  /\ unusable = [n \in Node |-> 0]
  /\ fresh = 1
  /\ fault = "none"

\* The nodes made so far.
Known == 1..(fresh - 1)

-----------------------------------------------------------------------------
(* Ownership                                                               *)

\* The nodes reached from R along next: the least set that contains R and
\* is closed under next.
Closed(S) == \A n \in S : next[n] # Null => next[n] \in S

Reach(R) == {n \in Node : \A S \in SUBSET Node : R \ {Null} \subseteq S /\ Closed(S) => n \in S}

Listed == Reach({head})

\* Where k steps along next lead from n, for every number k.
Along(n) ==
  LET at[k \in Nat] == IF k = 0 THEN n
                       ELSE IF at[k - 1] = Null THEN Null ELSE next[at[k - 1]]
  IN  at

\* The connected nodes that a walk from head meets, and which of them it
\* meets before which.
Met == {n \in {Along(head)[k] : k \in 0..(MaxNodes - 1)} : n # Null /\ Connected(unusable[n])}

MetBefore ==
  (UNION {{<<Along(head)[i], Along(head)[j]>> : i \in 0..(j - 1)} : j \in 1..(MaxNodes - 1)})
    \cap (Met \X Met)

\* The nodes that some shared_ptr keeps: a field of the signal, a local of a
\* running call (held), the next of a live node, or their own next.
Alive(held) == Reach({head, tail, groupHead} \cup held \cup {n \in Node : next[n] = n})

\* Mutant of Locked: a weak_ptr is followed without asking whether its node
\* still lives.
Unlocked(weak, held) == weak

\* weak_ptr::lock()
Locked(weak, held) == IF weak \in Alive(held) THEN weak ELSE Null

-----------------------------------------------------------------------------
(* group_storage, a multimap: ordered by key, equal keys by insertion      *)

Before(m, n) == group[m] < group[n] \/ (group[m] = group[n] /\ m < n)

\* The first element of a set of stored nodes, or the iterator end() when
\* the set is empty.
First(S) ==
  LET IsFirst(m) == \A n \in S \ {m} : Before(m, n)
  IN  IF \E m \in S : IsFirst(m) THEN CHOOSE m \in S : IsFirst(m) ELSE Null

Last(S) ==
  LET IsLast(m) == \A n \in S \ {m} : Before(n, m)
  IN  IF \E m \in S : IsLast(m) THEN CHOOSE m \in S : IsLast(m) ELSE Null

LowerBound(g) == First({n \in storage : group[n] >= g})

UpperBound(g) == First({n \in storage : group[n] > g})

Successor(m) == First({n \in storage : Before(m, n)})

\* t_node_base::grouped() is not virtual and reads state_, which is NONE in
\* every node: the constructors that compile leave it to its default.
Grouped(n) == FALSE

StorageWithout(n) == IF Grouped(n) THEN storage \ {n} ELSE storage

-----------------------------------------------------------------------------
(* Connecting                                                              *)

\* make_shared of a node and of its connection.
MakeNode(n, k, g, isExtended) ==
  /\ n \in Node
  /\ fresh' = n + 1
  /\ kind' = [kind EXCEPT ![n] = k]
  /\ group' = [group EXCEPT ![n] = g]
  /\ extended' = IF isExtended THEN extended \cup {n} ELSE extended
  /\ \E word \in InitialWords : unusable' = [unusable EXCEPT ![n] = word]

\* Mutant of PushBackImpl: node->prev = tail is missing.
PushBackWithoutPrev(n) ==
  /\ tail' = n
  /\ \/ /\ tail = Null
        /\ head' = n
        /\ UNCHANGED next
     \/ /\ tail # Null
        /\ next' = [next EXCEPT ![tail] = n]
        /\ UNCHANGED head
  /\ UNCHANGED <<prev, groupHead, storage, fault>>

PushBackImpl(n) ==
  /\ tail' = n
  /\ \/ /\ tail = Null
        /\ head' = n
        /\ UNCHANGED <<next, prev>>
     \/ /\ tail # Null
        /\ prev' = [prev EXCEPT ![n] = tail]
        /\ next' = [next EXCEPT ![tail] = n]
        /\ UNCHANGED head
  /\ UNCHANGED <<groupHead, storage, fault>>

\* Mutant of PushFrontImpl: the node goes behind head.
PushBehindHead(n) ==
  /\ groupHead' = IF groupHead = Null \/ head = Null THEN n ELSE groupHead
  /\ head' = IF head = Null THEN n ELSE head
  /\ tail' = IF head = tail THEN n ELSE tail
  /\ next' = IF head = Null THEN next ELSE [next EXCEPT ![n] = next[head], ![head] = n]
  /\ UNCHANGED <<prev, storage, fault>>

PushFrontImpl(n) ==
  /\ head' = n
  /\ groupHead' = IF groupHead = Null \/ head = Null THEN n ELSE groupHead
  /\ \/ /\ head = Null
        /\ tail' = n
        /\ UNCHANGED next
     \/ /\ head # Null
        /\ next' = [next EXCEPT ![n] = head]
        /\ UNCHANGED tail
  /\ UNCHANGED <<prev, storage, fault>>

\* Mutant of HookBehind: n->next is not set.
HookLast(n, p) ==
  /\ prev' = [prev EXCEPT ![n] = p]
  /\ next' = [next EXCEPT ![p] = n]

\* Mutant of HookBehind: p->next is stored first and read afterwards.
HookSwapped(n, p) ==
  /\ prev' = [prev EXCEPT ![n] = p]
  /\ next' = [next EXCEPT ![p] = n, ![n] = n]

\* Hook n behind p.  Only the branch behind an earlier grouped node moves
\* tail; neither branch tells the node behind n about its new prev.
HookBehind(n, p) ==
  /\ prev' = [prev EXCEPT ![n] = p]
  /\ next' = [next EXCEPT ![n] = next[p], ![p] = n]

\* n goes behind the last stored node whose key is not greater than g.
InsertBehindGrouped(n, g, held) ==
  LET before == Last({m \in storage : group[m] <= g})
      p      == Locked(before, held)
  IN  /\ before # Null
      /\ storage' = storage \cup {n}
      /\ \/ /\ p = Null                  \* prev->next
            /\ fault' = "null_dereference"
            /\ UNCHANGED <<head, tail, next, prev>>
         \/ /\ p # Null
            /\ HookBehind(n, p)
            /\ tail' = IF next[p] = Null THEN n ELSE tail
            /\ UNCHANGED <<head, fault>>
      /\ UNCHANGED groupHead

\* Mutant of InsertFirstGrouped: the node goes to the front of the list.
InsertAtHead(n, g) ==
  /\ storage' = storage \cup {n}
  /\ head' = n
  /\ next' = [next EXCEPT ![n] = head]
  /\ tail' = IF head = Null THEN n ELSE tail
  /\ UNCHANGED <<prev, groupHead, fault>>

\* n is the first in group_storage: it goes behind the front slots.
InsertFirstGrouped(n, g) ==
  /\ {m \in storage : group[m] <= g} = {}
  /\ storage' = storage \cup {n}
  /\ \/ /\ groupHead # Null
        /\ HookBehind(n, groupHead)
        /\ UNCHANGED <<head, tail>>
     \/ /\ groupHead = Null
        /\ head' = n
        /\ next' = [next EXCEPT ![n] = head]
        /\ tail' = IF head = Null THEN n ELSE tail
        /\ UNCHANGED prev
  /\ UNCHANGED <<groupHead, fault>>

InsertImpl(n, g, held) == InsertBehindGrouped(n, g, held) \/ InsertFirstGrouped(n, g)

-----------------------------------------------------------------------------
(* Disconnecting: what follows mark_disconnected()                         *)

Marked(n) == [unusable EXCEPT ![n] = Disconnected]

UnlinkOnly ==
  /\ head' = Null /\ tail' = Null /\ groupHead' = Null
  /\ UNCHANGED <<next, prev, fault>>

\* Mutant of UnlinkFront: the node that leaves forgets its successor.
UnlinkFrontResetsNext ==
  /\ storage' = StorageWithout(head)
  /\ \/ head = tail /\ UnlinkOnly
     \/ /\ head # tail
        /\ head' = next[head]
        /\ groupHead' = IF groupHead = head THEN Null ELSE groupHead
        /\ next' = [next EXCEPT ![head] = Null]
        /\ UNCHANGED <<tail, prev, fault>>

\* Mutant of UnlinkFront: head is reset although other nodes follow.
UnlinkFrontDropsAll ==
  /\ storage' = StorageWithout(head)
  /\ UnlinkOnly

\* The prev of the new head is left as it was.
UnlinkFront ==
  /\ storage' = StorageWithout(head)
  /\ \/ head = tail /\ UnlinkOnly
     \/ /\ head # tail
        /\ head' = next[head]
        /\ groupHead' = IF groupHead = head THEN Null ELSE groupHead
        /\ UNCHANGED <<tail, next, prev, fault>>

\* Mutant of UnlinkBack: tail = prev is missing.
UnlinkBackKeepsTail(held) ==
  LET p == Locked(prev[tail], held)
  IN  /\ storage' = StorageWithout(tail)
      /\ \/ p = Null /\ UnlinkOnly
         \/ /\ p # Null
            /\ groupHead' = IF groupHead = tail THEN p ELSE groupHead
            /\ prev' = [prev EXCEPT ![tail] = Null]
            /\ next' = [next EXCEPT ![p] = Null]
            /\ UNCHANGED <<head, tail, fault>>

\* Mutant of UnlinkBack: prev->next is not reset.
UnlinkBackKeepsNext(held) ==
  LET p == Locked(prev[tail], held)
  IN  /\ storage' = StorageWithout(tail)
      /\ \/ p = Null /\ UnlinkOnly
         \/ /\ p # Null
            /\ tail' = p
            /\ groupHead' = IF groupHead = tail THEN p ELSE groupHead
            /\ prev' = [prev EXCEPT ![tail] = Null]
            /\ UNCHANGED <<head, next, fault>>

\* A tail whose prev cannot be locked is taken for the only node.
UnlinkBack(held) ==
  LET p == Locked(prev[tail], held)
  IN  /\ storage' = StorageWithout(tail)
      /\ \/ p = Null /\ UnlinkOnly
         \/ /\ p # Null
            /\ tail' = p
            /\ groupHead' = IF groupHead = tail THEN p ELSE groupHead
            /\ prev' = [prev EXCEPT ![tail] = Null]
            /\ next' = [next EXCEPT ![p] = Null]
            /\ UNCHANGED <<head, fault>>

\* Mutant of UnlinkMiddle: node->next->prev is not set.
UnlinkMiddleKeepsPrev(n, held) ==
  LET p == Locked(prev[n], held)
  IN  /\ storage' = StorageWithout(n)
      /\ groupHead' = IF groupHead = n THEN p ELSE groupHead
      /\ next' = IF p = Null THEN next ELSE [next EXCEPT ![p] = next[n]]
      /\ fault' = IF p = Null THEN "null_dereference" ELSE fault
      /\ UNCHANGED <<head, tail, prev>>

\* Mutant of UnlinkMiddle: prev->next is not set.
UnlinkMiddleKeepsNext(n, held) ==
  LET p == Locked(prev[n], held)
  IN  /\ storage' = StorageWithout(n)
      /\ groupHead' = IF groupHead = n THEN p ELSE groupHead
      /\ prev' = [prev EXCEPT ![next[n]] = p]
      /\ UNCHANGED <<head, tail, next, fault>>

\* Neither prev nor next is checked for null.
UnlinkMiddle(n, held) ==
  LET p == Locked(prev[n], held)
  IN  /\ storage' = StorageWithout(n)
      /\ groupHead' = IF groupHead = n THEN p ELSE groupHead
      /\ next' = IF p = Null THEN next ELSE [next EXCEPT ![p] = next[n]]
      /\ \/ /\ p # Null /\ next[n] # Null
            /\ prev' = [prev EXCEPT ![next[n]] = p]
            /\ UNCHANGED fault
         \/ /\ p = Null \/ next[n] = Null
            /\ fault' = "null_dereference"
            /\ UNCHANGED prev
      /\ UNCHANGED <<head, tail>>

UnlinkNode(n, held) ==
  \/ n = head /\ UnlinkFront
  \/ n # head /\ n = tail /\ UnlinkBack(held)
  \/ n \notin {head, tail} /\ UnlinkMiddle(n, held)

\* The end of clear().
UnlinkAll ==
  /\ UnlinkOnly
  /\ storage' = {}
=============================================================================
