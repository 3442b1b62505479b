----------------------------- MODULE QueueProofs -----------------------------
(***************************************************************************)
(* A signal whose client connects at the back only keeps its list whole,   *)
(* and its emissions are complete.  With the clients whose calls need no   *)
(* prev, whose invariant is proved in OrderProofs: what they are promised, *)
(* and that to them a signal is one sequence of slots, for every number of *)
(* nodes, threads and groups.                                              *)
(***************************************************************************)
EXTENDS SignalRefinement, OrderProofs

USE DisconnectedAssumption, SlotListAssumption, SignalAssumption

-----------------------------------------------------------------------------
(* What a step does to the marks                                           *)

\* The mutex is released, and what is listed is connected.
LEMMA MarksReleased ==
  ASSUME SafetyInvariant', mutex' = Free, NEW M \in SUBSET Node,
         \A n \in Known' : Connected(unusable'[n]) => n \in M,
         \A n \in M : Connected(unusable'[n])
  PROVE  MarksMatch(M)'
<1>1. \A a \in Activations : pc'[a] \notin Critical
  BY DEF SafetyInvariant, MutexProtectsLinks
<1>2. \A a \in Activations : MarksOf(M, a)'
  BY <1>1 DEF MarksOf, Critical
<1> QED BY <1>2 DEF MarksMatch

\* The mutex is taken by an activation whose marks are known.
LEMMA MarksTaken ==
  ASSUME SafetyInvariant', NEW a \in Activations, mutex' = a, NEW M \in SUBSET Node,
         \A n \in Known' : Connected(unusable'[n]) => n \in M,
         MarksOf(M, a)'
  PROVE  MarksMatch(M)'
<1>1. \A b \in Activations : b # a => pc'[b] \notin Critical
  BY DEF SafetyInvariant, MutexProtectsLinks
<1>2. ASSUME NEW b \in Activations, b # a PROVE MarksOf(M, b)'
  BY <1>1, <1>2 DEF MarksOf, Critical
<1>3. mutex' # Free
  OBVIOUS
<1> QED BY <1>2, <1>3 DEF MarksMatch

\* The mutex stays where it is, and its holder does not move.
LEMMA MarksKept ==
  ASSUME SafetyInvariant, SafetyInvariant', NEW M \in SUBSET Node, MarksMatch(M),
         UNCHANGED <<mutex, fresh, head>>,
         \A n \in Node : Connected(unusable'[n]) <=> Connected(unusable[n]),
         \A a \in Activations : mutex = a => pc'[a] = pc[a] /\ hand'[a] = hand[a]
  PROVE  MarksMatch(M)'
<1>1. Known' = Known /\ Known \subseteq Node
  BY KnownNumbers DEF Known, SafetyInvariant, TypeOK, ListTypeOK
<1>2. \A n \in Known' : Connected(unusable'[n]) => n \in M
  BY <1>1 DEF MarksMatch
<1>3. CASE mutex = Free
  BY <1>2, <1>3, MarksReleased DEF MarksMatch
<1>4. CASE mutex # Free
  <2>1. mutex \in Activations
    BY <1>4 DEF SafetyInvariant, TypeOK, ThreadTypeOK
  <2>2. MarksOf(M, mutex)'
    BY <2>1 DEF MarksMatch, MarksOf
  <2> QED BY <1>2, <2>1, <2>2, MarksTaken
<1> QED BY <1>3, <1>4

-----------------------------------------------------------------------------
(* What a step does to the emissions it does not belong to                 *)

\* An emission waits, or leaves a node that it need not call any more.
LEMMA CallsKept ==
  ASSUME NEW e \in Emitters, CallsOf(e),
         called'[e] = called[e], must'[e] \subseteq must[e], must[e] \subseteq Node,
         hand'[e] = hand[e], Known \subseteq Known', Known' \subseteq Node, hand[e] \in Link,
         \/ pc'[e] = pc[e]
         \/ pc[e] \in AtNode /\ pc'[e] \in AtNode
         \/ pc[e] \in AtNode /\ pc'[e] = "advance" /\ hand[e] \notin must'[e]
  PROVE  CallsOf(e)'
<1>1. \A n : Called(e, n)' <=> Called(e, n)
  BY DEF Called
<1>2. /\ \A i, j \in DOMAIN called'[e] : i < j => called'[e][i] < called'[e][j]
      /\ \A n \in Node : Called(e, n)' => n \in Known'
  BY <1>1 DEF CallsOf
<1>3. CASE pc'[e] = pc[e]
  <2>1. pc'[e] = "idle" => called'[e] = <<>>
    BY <1>3 DEF CallsOf
  <2>2. pc'[e] \in AtNode =>
          /\ \A n \in Node : Called(e, n)' => n < hand'[e]
          /\ \A n \in must'[e] : Called(e, n)' \/ hand'[e] <= n
    BY <1>1, <1>3 DEF CallsOf
  <2>3. pc'[e] = "advance" =>
          /\ \A n \in Node : Called(e, n)' => n <= hand'[e]
          /\ \A n \in must'[e] : Called(e, n)' \/ hand'[e] < n
    BY <1>1, <1>3 DEF CallsOf
  <2>4. pc'[e] = "done" => \A n \in must'[e] : Called(e, n)'
    BY <1>1, <1>3 DEF CallsOf
  <2> QED BY <1>2, <2>1, <2>2, <2>3, <2>4 DEF CallsOf
<1>4. CASE pc[e] \in AtNode
  <2>1. /\ \A n \in Node : Called(e, n)' => n < hand'[e]
        /\ \A n \in must'[e] : Called(e, n)' \/ hand'[e] <= n
    BY <1>1, <1>4 DEF CallsOf
  <2>2. CASE pc'[e] \in AtNode
    BY <1>2, <2>1, <2>2 DEF CallsOf, AtNode
  <2>3. CASE pc'[e] = "advance" /\ hand[e] \notin must'[e]
    <3>1. \A n \in Node : Called(e, n)' => n <= hand'[e]
      <4> TAKE n \in Node
      <4>1. n \in Nat /\ hand'[e] \in Nat
        BY NodeNumbers DEF Link
      <4> QED BY <2>1, <4>1
    <3>2. \A n \in must'[e] : Called(e, n)' \/ hand'[e] < n
      <4> TAKE n \in must'[e]
      <4>1. n \in Nat /\ hand'[e] \in Nat /\ n # hand'[e]
        BY <2>3, NodeNumbers DEF Link
      <4> QED BY <2>1, <4>1
    <3> QED BY <1>2, <2>3, <3>1, <3>2 DEF CallsOf, AtNode
  <2> QED BY <1>3, <1>4, <2>2, <2>3
<1> QED BY <1>3, <1>4

\* The way before an emission gets no longer.
LEMMA AheadShrinks ==
  ASSUME NEW e \in Emitters,
         \A S \in SUBSET Node : Closed(S) => Closed(S)',
         \/ hand'[e] = hand[e]
         \/ hand'[e] = Null
         \/ hand[e] \in Node /\ hand'[e] = next[hand[e]]
  PROVE  Ahead(e)' \subseteq Ahead(e)
<1> SUFFICES ASSUME NEW n \in Ahead(e)', NEW S \in SUBSET Node,
                    {hand[e]} \ {Null} \subseteq S, Closed(S)
             PROVE  n \in S
  BY DEF Ahead, Reach
<1>1. {hand'[e]} \ {Null} \subseteq S
  <2>1. CASE hand[e] \in Node /\ hand'[e] = next[hand[e]]
    <3>1. hand[e] \in S
      BY <2>1, NodeNumbers
    <3> QED BY <2>1, <3>1 DEF Closed
  <2> QED BY <2>1
<1>2. Closed(S)'
  OBVIOUS
<1> QED BY <1>1, <1>2 DEF Ahead, Reach

\* So it ends off the list only where it did before, or at a node behind
\* which there is nothing to call.
LEMMA WayKept ==
  ASSUME NEW L \in SUBSET Node, NEW M \in SUBSET Node, WayEnds(L),
         \A S \in SUBSET Node : Closed(S) => Closed(S)',
         \A k \in Node \ M : next'[k] = next[k],
         \A e \in Emitters : must'[e] \subseteq must[e],
         \A e \in Emitters : \/ hand'[e] = hand[e]
                             \/ hand'[e] = Null
                             \/ hand[e] \in Node /\ hand'[e] = next[hand[e]],
         \A k \in L \ M : next[k] = Null => \A e \in Emitters : \A m \in must'[e] : m <= k
  PROVE  WayEnds(M)'
<1> SUFFICES ASSUME NEW e \in Emitters, NEW n \in Ahead(e)' \ M, next'[n] = Null,
                    NEW m \in must'[e]
             PROVE  m <= n
  BY DEF WayEnds
<1>1. n \in Ahead(e) /\ n \in Node
  BY AheadShrinks DEF Ahead, Reach
<1>2. next[n] = Null
  BY <1>1
<1> QED BY <1>1, <1>2 DEF WayEnds

\* What an emission must call stays callable as long as it must be called.
LEMMA MustKept ==
  ASSUME MustCallable, TypeOK, Known \subseteq Known', Known \subseteq Node,
         \A e \in Emitters :
           /\ must'[e] \subseteq must[e]
           /\ \A n \in must'[e] : Usable(unusable[n]) => Usable(unusable'[n])
           /\ \A n \in must'[e] : n \in owned => n \in owned'
           /\ pc'[e] \in {"disconnect", "unlink"} => hand'[e] \notin must'[e]
  PROVE  MustCallable'
BY DEF MustCallable, Callable

-----------------------------------------------------------------------------
(* The steps of the writers                                                *)

\* Step lemmas take the list from a set L to the set M.  A slot is connected
\* at the back.
LEMMA QueuePushBack ==
  ASSUME PlainWords, QueueClient, SafetyInvariant, SafetyInvariant',
         NEW L \in SUBSET Node, Queue(L), NEW w \in Writers, NEW x \in BOOLEAN, PushBack(w, x),
         NEW n \in Node, n = fresh, NEW M \in SUBSET Node, M = L \cup {n}
  PROVE  Queue(M)'
<1>1. TypeOK /\ ListTypeOK /\ NodeTypeOK
  BY DEF SafetyInvariant, TypeOK, ListTypeOK
<1>2. /\ mutex = Free /\ PushBackImpl(fresh)
      /\ UNCHANGED <<mutex, pc, hand, api, owned, called, must>>
  BY DEF PushBack, Connect, threadVars, writerVars, trackVars, history
<1>3. /\ fresh \in Node /\ fresh' = fresh + 1
      /\ kind' = [kind EXCEPT ![fresh] = "back"]
      /\ \E word \in InitialWords : unusable' = [unusable EXCEPT ![fresh] = word]
      /\ extended' = extended
  <2>1. x = FALSE
    BY DEF QueueClient, PushBack, IsExtended, QueueOperations
  <2> QED BY <2>1 DEF PushBack, MakeNode
<1>4. Known \subseteq Node /\ Known' = Known \cup {n} /\ n \notin Known
  <2>1. fresh' = n + 1 /\ n \in Nat /\ n > 0
    BY <1>3, NodeNumbers
  <2>2. Known' = Known \cup {n} /\ n \notin Known
    BY <2>1 DEF Known
  <2> QED BY <1>1, <2>2, KnownNumbers
<1>5. /\ Connected(unusable'[n]) /\ kind'[n] = "back"
      /\ \A m \in Known : unusable'[m] = unusable[m] /\ kind'[m] = kind[m]
  BY <1>1, <1>3, <1>4 DEF NodeTypeOK, PlainWords
<1>6. Chain(L) /\ NextPasses(L) /\ MarksMatch(L) /\ WayEnds(L)
      /\ QueueOnly /\ CalledSoFar /\ MustCallable
  BY DEF Queue
<1>8. /\ Chain(M)' /\ NextPasses(M)'
      /\ \A S \in SUBSET Node : Closed(S) => Closed(S \cup {n})'
      /\ \A k \in Node \ M : next'[k] = next[k]
  BY <1>1, <1>2, <1>3, <1>6, PushBackChain
<1>9. UNCHANGED <<fault, groupHead>>
  BY <1>2 DEF PushBackImpl
<1>10. L \subseteq Known
  BY <1>6 DEF Chain
<1>11. MarksMatch(M)'
  <2>1. \A m \in M : m = n \/ m \in L
    OBVIOUS
  <2>2. \A m \in M : Connected(unusable'[m])
    BY <1>2, <1>5, <1>6, <1>10, <2>1 DEF MarksMatch
  <2>3. \A m \in Known' : Connected(unusable'[m]) => m \in M
    BY <1>4, <1>5, <1>6 DEF MarksMatch
  <2> QED BY <1>2, <2>2, <2>3, MarksReleased
<1>12. WayEnds(M)'
  <2> SUFFICES ASSUME NEW e \in Emitters, NEW k \in Ahead(e)' \ M, next'[k] = Null
               PROVE  \A m \in must[e] : m <= k
    BY <1>2 DEF WayEnds
  <2>1. ASSUME NEW S \in SUBSET Node, {hand[e]} \ {Null} \subseteq S, Closed(S)
        PROVE  k \in S
    <3>1. S \cup {n} \in SUBSET Node /\ Closed(S \cup {n})'
      BY <1>3, <1>8, <2>1
    <3>2. k \in S \cup {n}
      BY <1>2, <2>1, <3>1 DEF Ahead, Reach
    <3> QED BY <3>2
  <2>2. k \in Node /\ k \in Ahead(e) \ L
    BY <2>1 DEF Ahead, Reach
  <2>3. next[k] = Null
    BY <1>8, <2>2
  <2> QED BY <1>6, <2>2, <2>3 DEF WayEnds
<1>13. QueueOnly'
  BY <1>2, <1>3, <1>4, <1>5, <1>6, <1>9 DEF QueueOnly
<1>14. CalledSoFar'
  <2> SUFFICES ASSUME NEW e \in Emitters PROVE CallsOf(e)'
    BY DEF CalledSoFar
  <2>1. must[e] \subseteq Node /\ hand[e] \in Link
    BY <1>1 DEF TypeOK, HistoryTypeOK, ThreadTypeOK, Activations
  <2>2. Known' \subseteq Node
    BY <1>3, <1>4
  <2> QED BY <1>2, <1>4, <1>6, <2>1, <2>2, CallsKept DEF CalledSoFar
<1>15. MustCallable'
  <2>1. \A e \in Emitters : must[e] \subseteq Known
    BY <1>6 DEF MustCallable
  <2> QED BY <1>1, <1>2, <1>4, <1>5, <1>6, <2>1, MustKept DEF MustCallable
<1> QED BY <1>8, <1>11, <1>12, <1>13, <1>14, <1>15 DEF Queue

\* A step that leaves the links alone: an emission either stays where it is
\* or goes on, and what it must call may be called.
LEMMA QuietStep ==
  ASSUME SafetyInvariant, NEW L \in SUBSET Node, Queue(L),
         UNCHANGED <<linkVars, nodeVars, fault>>,
         \A a \in Activations : hand'[a] # Null => hand'[a] = hand[a] \/ hand'[a] \in Known,
         MarksMatch(L)',
         \A e \in Emitters :
           /\ must'[e] \subseteq must[e]
           /\ \A n \in must'[e] : /\ Usable(unusable[n]) => Usable(unusable'[n])
                                  /\ n \in owned => n \in owned'
           /\ \/ pc'[e] = pc[e] /\ hand'[e] = hand[e] /\ called'[e] = called[e]
              \/ /\ \/ hand'[e] = hand[e]
                    \/ hand'[e] = Null
                    \/ hand[e] \in Node /\ hand'[e] = next[hand[e]]
                 /\ pc'[e] \in {"disconnect", "unlink"} => hand'[e] \notin must'[e]
                 /\ CallsOf(e)'
  PROVE  Queue(L)'
<1>1. Chain(L) /\ NextPasses(L) /\ MarksMatch(L) /\ WayEnds(L)
      /\ QueueOnly /\ CalledSoFar /\ MustCallable
  BY DEF Queue
<1>2. /\ UNCHANGED <<head, tail, next, prev, fresh, kind, extended, groupHead, fault>>
      /\ Known' = Known /\ Known \subseteq Node
  BY KnownNumbers DEF linkVars, nodeVars, Known, SafetyInvariant, TypeOK, ListTypeOK
<1>3. /\ TypeOK
      /\ \A e \in Emitters : must[e] \subseteq Node /\ hand[e] \in Link
  BY DEF SafetyInvariant, TypeOK, HistoryTypeOK, ThreadTypeOK, Activations
<1>4. Chain(L)' /\ NextPasses(L)'
  BY <1>1, <1>2 DEF Chain, NextPasses
<1>5. QueueOnly'
  BY <1>1, <1>2 DEF QueueOnly
<1>6. CalledSoFar'
  <2> SUFFICES ASSUME NEW e \in Emitters,
                      pc'[e] = pc[e] /\ hand'[e] = hand[e] /\ called'[e] = called[e]
               PROVE  CallsOf(e)'
    BY DEF CalledSoFar
  <2> QED BY <1>1, <1>2, <1>3, CallsKept DEF CalledSoFar
<1>7. MustCallable'
  <2>1. \A e \in Emitters : pc'[e] \in {"disconnect", "unlink"} => hand'[e] \notin must'[e]
    BY <1>1 DEF MustCallable
  <2> QED BY <1>1, <1>2, <1>3, <2>1, MustKept
<1>8. WayEnds(L)'
  <2>1. \A S \in SUBSET Node : Closed(S) => Closed(S)'
    BY <1>2 DEF Closed
  <2>2. \A e \in Emitters : \/ hand'[e] = hand[e]
                            \/ hand'[e] = Null
                            \/ hand[e] \in Node /\ hand'[e] = next[hand[e]]
    OBVIOUS
  <2>3. \A k \in Node \ L : next'[k] = next[k]
    BY <1>2
  <2>4. L \ L = {}
    OBVIOUS
  <2> QED BY <1>1, <2>1, <2>2, <2>3, <2>4, WayKept
<1> QED BY <1>1, <1>4, <1>5, <1>6, <1>7, <1>8 DEF Queue

\* A connection enters disconnect().
LEMMA QueueDisconnect ==
  ASSUME SafetyInvariant, SafetyInvariant', NEW L \in SUBSET Node, Queue(L),
         NEW w \in Writers, NEW n \in Node, Disconnect(w, n)
  PROVE  Queue(L)'
<1>1. /\ UNCHANGED <<listVars, mutex, owned, called, must>>
      /\ n \in Known /\ pc[w] = "idle"
      /\ \A a \in Activations : a # w => pc'[a] = pc[a] /\ hand'[a] = hand[a]
      /\ hand'[w] = n
      /\ w \in Activations /\ w \notin Emitters
  BY DEF Disconnect, Goto, Take, writerVars, trackVars, history, Activations,
         SafetyInvariant, TypeOK, ThreadTypeOK
<1>2. UNCHANGED <<linkVars, nodeVars, fault, unusable, fresh, head>>
  BY <1>1 DEF listVars, nodeVars, linkVars
<1>3. mutex # w
  BY <1>1 DEF SafetyInvariant, MutexProtectsLinks, Critical
<1>4. MarksMatch(L)'
  BY <1>1, <1>2, <1>3, MarksKept DEF Queue
<1> QED BY <1>1, <1>2, <1>4, QuietStep DEF Activations

\* A connection or an emission marks its node, or learns that it was marked.
LEMMA QueueDisconnectMark ==
  ASSUME SafetyInvariant, SafetyInvariant', NEW L \in SUBSET Node, Queue(L),
         NEW a \in Activations, DisconnectMark(a)
  PROVE  Queue(L)'
<1>1. TypeOK /\ hand[a] \in Node
  BY DEF SafetyInvariant, LocalsHold, OnNode, DisconnectMark, TypeOK, ThreadTypeOK, Link
<1>2. /\ pc[a] = "disconnect" /\ mutex = Free
      /\ UNCHANGED <<linkVars, nodeVars, fault, owned, called, fresh, head>>
      /\ \A b \in Activations : b # a => pc'[b] = pc[b] /\ hand'[b] = hand[b]
  BY <1>1 DEF DisconnectMark, DisconnectReturns, Acquire, Goto, Take, Mark, history, trackVars,
         nodeVars, linkVars, TypeOK, ThreadTypeOK
<1>3. Chain(L) /\ MarksMatch(L) /\ MustCallable /\ CalledSoFar
  BY DEF Queue
<1>4. hand[a] \in Known
  BY <1>1, NodeNumbers DEF Queue, QueueOnly
<1>5. Known' = Known /\ Known \subseteq Node
  BY <1>1, <1>2, KnownNumbers DEF Known, TypeOK, ListTypeOK
<1>6. \A e \in Emitters : CallsOf(e) /\ must[e] \subseteq Node /\ hand[e] \in Link
  BY <1>1, <1>3 DEF CalledSoFar, TypeOK, HistoryTypeOK, ThreadTypeOK, Activations
<1>7. CASE Connected(unusable[hand[a]])
  <2>1. mutex' = a /\ pc'[a] = "unlink" /\ hand'[a] = hand[a] /\ Mark(hand[a])
    BY <1>1, <1>7 DEF DisconnectMark, Acquire, Goto, TypeOK, ThreadTypeOK
  <2>2. /\ \A m \in Node : m # hand[a] => unusable'[m] = unusable[m]
        /\ ~Connected(unusable'[hand[a]])
        /\ \A e \in Emitters : must'[e] \subseteq must[e] /\ hand[a] \notin must'[e]
    BY <1>1, <2>1, MarkExcuses
  <2>3. MarksOf(L, a)'
    <3>1. hand[a] \in L /\ \A n \in L : Connected(unusable[n])
      BY <1>2, <1>3, <1>4, <1>7 DEF MarksMatch
    <3> QED BY <2>1, <2>2, <3>1 DEF MarksOf
  <2>4. MarksMatch(L)'
    <3>1. \A n \in Known' : Connected(unusable'[n]) => n \in L
      BY <1>3, <1>5, <2>2 DEF MarksMatch
    <3> QED BY <2>1, <2>3, <3>1, MarksTaken
  <2>5. ASSUME NEW e \in Emitters, e = a
        PROVE  CallsOf(e)'
    BY <1>2, <1>5, <1>6, <2>1, <2>2, <2>5, CallsKept DEF AtNode
  <2>6. \A e \in Emitters : \A n \in must'[e] : Usable(unusable[n]) => Usable(unusable'[n])
    BY <1>6, <2>2
  <2>7. \A e \in Emitters : e # a => pc'[e] = pc[e] /\ hand'[e] = hand[e]
    BY <1>2 DEF Activations
  <2> QED BY <1>2, <2>1, <2>2, <2>4, <2>5, <2>6, <2>7, QuietStep
<1>8. CASE ~Connected(unusable[hand[a]])
  <2>1. /\ UNCHANGED <<unusable, mutex, must>>
        /\ a \in Emitters => pc'[a] = "advance" /\ hand'[a] = hand[a]
        /\ a \notin Emitters => hand'[a] = Null
    BY <1>1, <1>8 DEF DisconnectMark, DisconnectReturns, Goto, Take, history, TypeOK, ThreadTypeOK
  <2>2. mutex # a
    BY <1>2
  <2>3. MarksMatch(L)'
    BY <1>2, <1>3, <2>1, <2>2, MarksKept
  <2>4. ASSUME NEW e \in Emitters, e = a
        PROVE  CallsOf(e)'
    <3>1. hand[e] \notin must[e]
      BY <1>2, <1>3, <2>4 DEF MustCallable
    <3> QED BY <1>2, <1>5, <1>6, <2>1, <2>4, <3>1, CallsKept DEF AtNode
  <2>5. \A e \in Emitters : e # a => pc'[e] = pc[e] /\ hand'[e] = hand[e]
    BY <1>2 DEF Activations
  <2> QED BY <1>2, <2>1, <2>3, <2>4, <2>5, QuietStep
<1> QED BY <1>7, <1>8

\* The holder of the mutex takes the one marked node off the list.
LEMMA UnlinkStep ==
  ASSUME SafetyInvariant, SafetyInvariant', NEW L \in SUBSET Node, Queue(L),
         NEW n \in L, NEW held, UnlinkNode(n, held) \/ (n = head /\ UnlinkFront),
         UNCHANGED <<nodeVars, unusable, owned, called, must>>, mutex' = Free,
         \A m \in L : Connected(unusable[m]) <=> m # n,
         \A a \in Activations : hand'[a] = hand[a] \/ hand'[a] = Null,
         \A e \in Emitters :
           /\ hand'[e] = hand[e]
           /\ \/ pc'[e] = pc[e]
              \/ pc[e] \in AtNode /\ pc'[e] = "advance" /\ hand[e] \notin must[e],
         NEW M \in SUBSET Node, M = L \ {n}
  PROVE  Queue(M)'
<1>1. Chain(L) /\ NextPasses(L) /\ MarksMatch(L) /\ WayEnds(L)
      /\ QueueOnly /\ CalledSoFar /\ MustCallable
  BY DEF Queue
<1>2. /\ UNCHANGED <<fresh, kind, extended>>
      /\ Known' = Known /\ Known \subseteq Node
  BY KnownNumbers DEF nodeVars, Known, SafetyInvariant, TypeOK, ListTypeOK
<1>3. /\ TypeOK /\ ListTypeOK
      /\ \A e \in Emitters : must[e] \subseteq Node /\ hand[e] \in Link
  BY DEF SafetyInvariant, TypeOK, HistoryTypeOK, ThreadTypeOK, Activations
<1>4. /\ Chain(M)' /\ NextPasses(M)'
      /\ UNCHANGED fault
      /\ groupHead = Null => groupHead' = Null
      /\ \A S \in SUBSET Node : Closed(S) => Closed(S)'
      /\ \A k \in Node \ M : next'[k] = next[k]
      /\ next[n] = Null => n = tail
  BY <1>1, <1>2, <1>3, UnlinkChain
<1>5. MarksMatch(M)'
  <2>1. \A m \in Known' : Connected(unusable'[m]) => m \in M
    BY <1>1, <1>2 DEF MarksMatch
  <2>2. \A m \in M : Connected(unusable'[m])
    OBVIOUS
  <2> QED BY <2>1, <2>2, MarksReleased
<1>6. WayEnds(M)'
  <2>1. \A e \in Emitters : \A m \in must[e] : m \in L
    BY <1>1 DEF MustCallable, Callable, Usable, MarksMatch
  <2>2. \A k \in L \ M : next[k] = Null => \A e \in Emitters : \A m \in must'[e] : m <= k
    BY <1>1, <1>4, <2>1, ChainEnds
  <2> QED BY <1>1, <1>4, <2>2, WayKept
<1>7. QueueOnly'
  BY <1>1, <1>2, <1>4 DEF QueueOnly
<1>8. CalledSoFar'
  BY <1>1, <1>2, <1>3, CallsKept DEF CalledSoFar
<1>9. MustCallable'
  <2>1. \A e \in Emitters : pc'[e] \in {"disconnect", "unlink"} => hand'[e] \notin must'[e]
    BY <1>1 DEF MustCallable
  <2> QED BY <1>1, <1>2, <1>3, <2>1, MustKept
<1> QED BY <1>4, <1>5, <1>6, <1>7, <1>8, <1>9 DEF Queue

\* The node of a disconnect leaves the list.
LEMMA QueueDisconnectUnlink ==
  ASSUME SafetyInvariant, SafetyInvariant', NEW L \in SUBSET Node, Queue(L),
         NEW a \in Activations, DisconnectUnlink(a)
  PROVE  \E M \in SUBSET Node : Queue(M)'
<1>1. /\ pc[a] = "unlink" /\ UnlinkNode(hand[a], Held) /\ mutex' = Free
      /\ UNCHANGED <<nodeVars, unusable, owned, called, must>>
  BY DEF DisconnectUnlink, Release, history, trackVars
<1>2. /\ \A b \in Activations : b # a => pc'[b] = pc[b] /\ hand'[b] = hand[b]
      /\ a \in Emitters => pc'[a] = "advance" /\ hand'[a] = hand[a]
      /\ a \notin Emitters => hand'[a] = Null
  BY DEF DisconnectUnlink, DisconnectReturns, Goto, Take, SafetyInvariant, TypeOK, ThreadTypeOK
<1>3. hand[a] \in L /\ \A m \in L : Connected(unusable[m]) <=> m # hand[a]
  BY <1>1 DEF Queue, MarksMatch, MarksOf
<1>4. ASSUME NEW e \in Emitters
      PROVE  /\ hand'[e] = hand[e]
             /\ \/ pc'[e] = pc[e]
                \/ pc[e] \in AtNode /\ pc'[e] = "advance" /\ hand[e] \notin must[e]
  BY <1>1, <1>2 DEF Queue, MustCallable, AtNode, Activations
<1>5. PICK n \in L : n = hand[a]
  BY <1>3
<1>6. PICK M \in SUBSET Node : M = L \ {n}
  OBVIOUS
<1>7. PICK held : held = Held
  OBVIOUS
<1>8. Queue(M)'
  BY <1>1, <1>2, <1>3, <1>4, <1>5, <1>6, <1>7, UnlinkStep
<1> QED BY <1>8

\* pop_front() marks the first node,
LEMMA QueuePopFront ==
  ASSUME SafetyInvariant, SafetyInvariant', NEW L \in SUBSET Node, Queue(L),
         NEW w \in Writers, PopFront(w)
  PROVE  Queue(L)'
<1>1. /\ mutex = Free /\ mutex' = w /\ Mark(head) /\ head # Null
      /\ UNCHANGED <<linkVars, nodeVars, fault, hand, owned, fresh, head>>
      /\ pc'[w] = "unlink_front"
      /\ \A a \in Activations : a # w => pc'[a] = pc[a]
  BY DEF PopFront, Acquire, Goto, trackVars, linkVars, nodeVars, SafetyInvariant, TypeOK,
         ThreadTypeOK, Activations
<1>2. Chain(L) /\ MarksMatch(L)
  BY DEF Queue
<1>3. L # {} /\ head \in L /\ head \in Node
  BY <1>1, <1>2, ChainEnds
<1>4. /\ \A m \in Node : m # head => unusable'[m] = unusable[m]
      /\ ~Connected(unusable'[head])
      /\ \A e \in Emitters : must'[e] \subseteq must[e] /\ head \notin must'[e]
      /\ UNCHANGED called
  BY <1>1, <1>3, MarkExcuses DEF SafetyInvariant
<1>5. Known' = Known /\ Known \subseteq Node /\ \A e \in Emitters : must[e] \subseteq Node
  BY <1>1, KnownNumbers DEF Known, SafetyInvariant, TypeOK, ListTypeOK, HistoryTypeOK
<1>6. MarksOf(L, w)'
  BY <1>1, <1>2, <1>3, <1>4 DEF MarksOf, MarksMatch
<1>7. MarksMatch(L)'
  <2>1. \A n \in Known' : Connected(unusable'[n]) => n \in L
    BY <1>2, <1>4, <1>5 DEF MarksMatch
  <2> QED BY <1>1, <1>6, <2>1, MarksTaken DEF Activations
<1>8. \A e \in Emitters : pc'[e] = pc[e] /\ hand'[e] = hand[e] /\ called'[e] = called[e]
  BY <1>1, <1>4 DEF Activations
<1>9. \A e \in Emitters : \A n \in must'[e] : Usable(unusable[n]) => Usable(unusable'[n])
  BY <1>4, <1>5
<1> QED BY <1>1, <1>4, <1>7, <1>8, <1>9, QuietStep

\* ... and unlinks it.
LEMMA QueuePopUnlink ==
  ASSUME SafetyInvariant, SafetyInvariant', NEW L \in SUBSET Node, Queue(L),
         NEW w \in Writers, PopUnlink(w)
  PROVE  \E M \in SUBSET Node : Queue(M)'
<1>1. pc[w] = "unlink_front"
  BY DEF PopUnlink, Queue, MarksMatch, MarksOf, Activations
<1>2. /\ UnlinkFront /\ mutex' = Free
      /\ UNCHANGED <<nodeVars, unusable, hand, owned, called, must>>
      /\ \A a \in Activations : a # w => pc'[a] = pc[a]
  BY <1>1 DEF PopUnlink, Release, Goto, history, trackVars, SafetyInvariant, TypeOK, ThreadTypeOK
<1>3. L # {} /\ \A m \in L : Connected(unusable[m]) <=> m # head
  BY <1>1 DEF Queue, MarksMatch, MarksOf, Activations
<1>4. head \in L
  BY <1>3, ChainEnds DEF Queue
<1>5. \A e \in Emitters : pc'[e] = pc[e]
  BY <1>2 DEF Activations
<1>6. PICK n \in L : n = head
  BY <1>4
<1>7. PICK M \in SUBSET Node : M = L \ {n}
  OBVIOUS
<1>8. Queue(M)'
  BY <1>2, <1>3, <1>5, <1>6, <1>7, UnlinkStep
<1> QED BY <1>8

\* clear() begins at head,
LEMMA QueueClear ==
  ASSUME SafetyInvariant, SafetyInvariant', NEW L \in SUBSET Node, Queue(L),
         NEW w \in Writers, Clear(w)
  PROVE  Queue(L)'
<1>1. /\ mutex = Free /\ mutex' = w /\ head # Null
      /\ UNCHANGED <<listVars, owned, called, must>>
      /\ pc'[w] = "clear" /\ hand'[w] = head
      /\ \A a \in Activations : a # w => pc'[a] = pc[a] /\ hand'[a] = hand[a]
  BY DEF Clear, Acquire, Goto, Take, trackVars, history, SafetyInvariant, TypeOK,
         ThreadTypeOK, Activations
<1>2. UNCHANGED <<linkVars, nodeVars, fault, unusable, fresh, head>>
  BY <1>1 DEF listVars, linkVars, nodeVars
<1>3. Chain(L) /\ MarksMatch(L)
  BY DEF Queue
<1>4. head \in L /\ head \in Known /\ \A n \in L : head <= n
  BY <1>1, <1>3, ChainEnds DEF Chain
<1>5. MarksMatch(L)'
  <2>1. MarksOf(L, w)'
    BY <1>1, <1>2, <1>3, <1>4 DEF MarksOf, MarksMatch
  <2>2. \A n \in Known' : Connected(unusable'[n]) => n \in L
    BY <1>2, <1>3 DEF MarksMatch, Known
  <2> QED BY <1>1, <2>1, <2>2, MarksTaken DEF Activations
<1>6. \A e \in Emitters : pc'[e] = pc[e] /\ hand'[e] = hand[e]
  BY <1>1 DEF Activations
<1> QED BY <1>1, <1>2, <1>4, <1>5, <1>6, QuietStep

\* ... marks one node after the other,
LEMMA QueueClearMark ==
  ASSUME SafetyInvariant, SafetyInvariant', NEW L \in SUBSET Node, Queue(L),
         NEW w \in Writers, ClearMark(w)
  PROVE  Queue(L)'
<1>1. /\ pc[w] = "clear" /\ hand[w] # Null /\ Mark(hand[w])
      /\ UNCHANGED <<linkVars, nodeVars, fault, mutex, pc, owned, fresh, head>>
      /\ hand'[w] = next[hand[w]]
      /\ \A a \in Activations : a # w => hand'[a] = hand[a]
  BY DEF ClearMark, Take, trackVars, linkVars, nodeVars, SafetyInvariant, TypeOK, ThreadTypeOK,
         Activations
<1>2. Chain(L) /\ NextPasses(L) /\ MarksMatch(L)
  BY DEF Queue
<1>3. /\ hand[w] \in L /\ hand[w] \in Node /\ mutex = w
      /\ \A n \in L : Connected(unusable[n]) <=> hand[w] <= n
  BY <1>1, <1>2 DEF MarksMatch, MarksOf, Activations, SafetyInvariant, MutexProtectsLinks,
                    Critical
<1>4. /\ \A m \in Node : m # hand[w] => unusable'[m] = unusable[m]
      /\ ~Connected(unusable'[hand[w]])
      /\ \A e \in Emitters : must'[e] \subseteq must[e] /\ hand[w] \notin must'[e]
      /\ UNCHANGED called
  BY <1>1, <1>3, MarkExcuses DEF SafetyInvariant
<1>5. Known' = Known /\ Known \subseteq Node /\ \A e \in Emitters : must[e] \subseteq Node
  BY <1>1, KnownNumbers DEF Known, SafetyInvariant, TypeOK, ListTypeOK, HistoryTypeOK
<1>6. hand'[w] # Null => hand'[w] \in L /\ hand'[w] \in Known
  <2>1. hand'[w] # Null => hand[w] # tail
    BY <1>1, <1>3, <1>2, ChainEnds
  <2> QED BY <1>1, <1>2, <1>3, <2>1, ChainNext DEF Chain
<1>7. ASSUME NEW n \in L
      PROVE  Connected(unusable'[n]) <=> hand'[w] # Null /\ hand'[w] <= n
  <2> DEFINE h == hand[w]
  <2>1. /\ n \in Nat /\ h \in Nat /\ n <= tail /\ next[tail] = Null /\ tail \in Nat
    BY <1>2, <1>3, ChainEnds, NodeNumbers
  <2>2. Connected(unusable'[n]) <=> n # h /\ h <= n
    BY <1>3, <1>4
  <2>3. CASE h = tail
    BY <2>1, <2>2, <2>3, <1>1
  <2>4. CASE h # tail
    <3>1. hand'[w] \in L /\ hand'[w] # Null /\ h < hand'[w] /\ (n <= h \/ hand'[w] <= n)
      BY <2>4, <1>1, <1>2, <1>3, ChainNext
    <3>2. hand'[w] \in Nat
      BY <3>1, NodeNumbers
    <3> HIDE DEF h
    <3> QED BY <2>1, <2>2, <3>1, <3>2
  <2> QED BY <2>3, <2>4
<1>8. MarksMatch(L)'
  <2>1. MarksOf(L, w)'
    BY <1>1, <1>6, <1>7 DEF MarksOf
  <2>2. \A n \in Known' : Connected(unusable'[n]) => n \in L
    BY <1>2, <1>4, <1>5, <1>3 DEF MarksMatch
  <2> QED BY <1>1, <1>3, <2>1, <2>2, MarksTaken DEF Activations
<1>9. \A e \in Emitters : pc'[e] = pc[e] /\ hand'[e] = hand[e] /\ called'[e] = called[e]
  BY <1>1, <1>4 DEF Activations
<1>10. \A e \in Emitters : \A n \in must'[e] : Usable(unusable[n]) => Usable(unusable'[n])
  BY <1>4, <1>5
<1>11. \A a \in Activations : hand'[a] # Null => hand'[a] = hand[a] \/ hand'[a] \in Known
  BY <1>1, <1>6
<1> QED BY <1>1, <1>4, <1>8, <1>9, <1>10, <1>11, QuietStep

\* ... and drops the list.
LEMMA QueueClearUnlink ==
  ASSUME SafetyInvariant, SafetyInvariant', NEW L \in SUBSET Node, Queue(L),
         NEW w \in Writers, ClearUnlink(w)
  PROVE  Queue({})'
<1>1. /\ pc[w] = "clear" /\ hand[w] = Null /\ UnlinkAll /\ mutex' = Free
      /\ UNCHANGED <<nodeVars, unusable, hand, owned, called, must>>
      /\ \A a \in Activations : a # w => pc'[a] = pc[a]
  BY DEF ClearUnlink, Release, Goto, history, trackVars, SafetyInvariant, TypeOK, ThreadTypeOK
<1>2. Chain(L) /\ NextPasses(L) /\ MarksMatch(L) /\ WayEnds(L)
      /\ QueueOnly /\ CalledSoFar /\ MustCallable
  BY DEF Queue
<1>3. \A n \in Known : ~Connected(unusable[n])
  BY <1>1, <1>2 DEF MarksMatch, MarksOf, Activations
<1>4. \A e \in Emitters : must[e] = {}
  BY <1>2, <1>3 DEF MustCallable, Callable, Usable
<1>5. /\ UNCHANGED <<fresh, kind, extended>>
      /\ Known' = Known /\ Known \subseteq Node
  BY <1>1, KnownNumbers DEF nodeVars, Known, SafetyInvariant, TypeOK, ListTypeOK
<1>6. Chain({})' /\ UNCHANGED <<next, fault>> /\ groupHead' = Null
  BY <1>1, UnlinkAllChain
<1>7. NextPasses({})'
  BY <1>2, <1>5, <1>6 DEF NextPasses
<1>8. MarksMatch({})'
  <2>1. \A n \in Known' : Connected(unusable'[n]) => n \in {}
    BY <1>1, <1>3, <1>5
  <2> QED BY <1>1, <2>1, MarksReleased
<1>9. WayEnds({})'
  BY <1>1, <1>4 DEF WayEnds
<1>10. QueueOnly'
  BY <1>1, <1>2, <1>5, <1>6 DEF QueueOnly
<1>11. CalledSoFar'
  <2>1. \A e \in Emitters : /\ must[e] \subseteq Node /\ hand[e] \in Link
                            /\ hand'[e] = hand[e] /\ pc'[e] = pc[e]
    BY <1>1 DEF SafetyInvariant, TypeOK, HistoryTypeOK, ThreadTypeOK, Activations
  <2> QED BY <1>1, <1>2, <1>5, <2>1, CallsKept DEF CalledSoFar
<1>12. MustCallable'
  BY <1>1, <1>4 DEF MustCallable
<1> QED BY <1>6, <1>7, <1>8, <1>9, <1>10, <1>11, <1>12 DEF Queue

\* A slot is blocked or unblocked.
LEMMA QueueBlock ==
  ASSUME PlainWords, SafetyInvariant, SafetyInvariant', NEW L \in SUBSET Node, Queue(L),
         NEW n \in Node, NEW d \in {-1, 1}, Block(n, d)
  PROVE  Queue(L)'
<1>1. /\ UNCHANGED <<linkVars, nodeVars, fault, mutex, pc, hand, owned, called, fresh, head>>
      /\ Connected(unusable[n]) /\ unusable' = [unusable EXCEPT ![n] = @ + d]
      /\ unusable[n] + d \in (-MaxBlock)..MaxBlock
      /\ (Usable(unusable[n] + d) /\ UNCHANGED must) \/ Excuse(n)
  BY DEF Block, linkVars, nodeVars, trackVars
<1>2. unusable \in [Node -> Int] /\ \A e \in Emitters : must[e] \subseteq Node
  BY DEF SafetyInvariant, TypeOK, ListTypeOK, NodeTypeOK, HistoryTypeOK
<1>3. \A m \in Node : m # n => unusable'[m] = unusable[m]
  BY <1>1, <1>2
<1>4. unusable'[n] = unusable[n] + d /\ Connected(unusable'[n])
  BY <1>1, <1>2 DEF PlainWords, Connected
<1>5. MarksMatch(L)'
  <2>1. \A m \in Node : Connected(unusable'[m]) <=> Connected(unusable[m])
    BY <1>1, <1>3, <1>4
  <2>2. \A a \in Activations : mutex = a => pc'[a] = pc[a] /\ hand'[a] = hand[a]
    BY <1>1
  <2> QED BY <1>1, <2>1, <2>2, MarksKept DEF Queue
<1>6. ASSUME NEW e \in Emitters
      PROVE  /\ must'[e] \subseteq must[e]
             /\ \A m \in must'[e] : Usable(unusable[m]) => Usable(unusable'[m])
  <2>1. CASE Excuse(n)
    BY <2>1, <1>2, <1>3 DEF Excuse
  <2>2. CASE Usable(unusable[n] + d) /\ UNCHANGED must
    BY <2>2, <1>2, <1>3, <1>4
  <2> QED BY <1>1, <2>1, <2>2
<1> QED BY <1>1, <1>5, <1>6, QuietStep

\* A tracked object expires.
LEMMA QueueExpire ==
  ASSUME SafetyInvariant, SafetyInvariant', NEW L \in SUBSET Node, Queue(L),
         NEW n \in Node, Expire(n)
  PROVE  Queue(L)'
<1>1. /\ UNCHANGED <<listVars, mutex, pc, hand, called>>
      /\ owned' = owned \ {n} /\ Excuse(n)
  BY DEF Expire
<1>2. UNCHANGED <<linkVars, nodeVars, fault, unusable, fresh, head>>
  BY <1>1 DEF listVars, linkVars, nodeVars
<1>3. \A e \in Emitters : must'[e] \subseteq must[e] /\ n \notin must'[e]
  BY <1>1 DEF Excuse
<1>4. \A a \in Activations : hand'[a] = hand[a] /\ pc'[a] = pc[a]
  BY <1>1
<1>5. MarksMatch(L)'
  BY <1>1, <1>2, <1>4, MarksKept DEF Queue
<1>6. \A e \in Emitters : \A m \in must'[e] : m \in owned => m \in owned'
  BY <1>1, <1>3
<1> QED BY <1>1, <1>2, <1>3, <1>4, <1>5, <1>6, QuietStep

-----------------------------------------------------------------------------
(* The steps of the emissions                                              *)

\* emit() loads head: what it must call is all ahead of it.
LEMMA QueueEmit ==
  ASSUME SafetyInvariant, SafetyInvariant', NEW L \in SUBSET Node, Queue(L),
         NEW e \in Emitters, Emit(e)
  PROVE  Queue(L)'
<1>1. /\ pc[e] = "idle"
      /\ UNCHANGED <<listVars, mutex, owned, called>>
      /\ hand'[e] = head
      /\ pc'[e] = IF head = Null THEN "done" ELSE "check"
      /\ must'[e] = {n \in Known : Callable(n)}
      /\ \A a \in Activations : a # e => pc'[a] = pc[a] /\ hand'[a] = hand[a]
      /\ \A f \in Emitters : f # e => must'[f] = must[f]
  BY DEF Emit, Goto, Take, trackVars, SafetyInvariant, TypeOK, ThreadTypeOK, HistoryTypeOK,
         Activations
<1>2. UNCHANGED <<head, tail, next, prev, groupHead, kind, extended, fault, unusable, fresh>>
  BY <1>1 DEF listVars, linkVars, nodeVars
<1>3. Chain(L) /\ NextPasses(L) /\ MarksMatch(L) /\ WayEnds(L)
      /\ QueueOnly /\ CalledSoFar /\ MustCallable
  BY DEF Queue
<1>4. /\ TypeOK /\ LinkTypeOK /\ Known' = Known /\ Known \subseteq Node
      /\ \A f \in Emitters : must[f] \subseteq Node /\ hand[f] \in Link
  BY <1>2, KnownNumbers DEF Known, SafetyInvariant, TypeOK, ListTypeOK, HistoryTypeOK,
     ThreadTypeOK, Activations
<1>5. Chain(L)' /\ NextPasses(L)'
  BY <1>2, <1>3, <1>4 DEF Chain, NextPasses
<1>6. mutex # e
  BY <1>1 DEF SafetyInvariant, MutexProtectsLinks, Critical, Activations
<1>7. MarksMatch(L)'
  BY <1>1, <1>2, <1>3, <1>6, MarksKept
<1>8. \A n \in must'[e] : n \in L /\ n \in Known
  BY <1>1, <1>3 DEF MarksMatch, Callable, Usable
<1>9. WayEnds(L)'
  <2>1. Ahead(e)' = Listed
    BY <1>1, <1>2 DEF Ahead, Listed, Reach, Closed
  <2>2. Listed = L
    BY <1>3, <1>4, ChainIsListed
  <2>3. \A f \in Emitters : f # e => Ahead(f)' = Ahead(f)
    BY <1>1, <1>2 DEF Ahead, Reach, Closed, Activations
  <2> QED BY <1>1, <1>2, <1>3, <2>1, <2>2, <2>3 DEF WayEnds
<1>10. QueueOnly'
  <2>1. head # Null => head \in Known
    BY <1>3, ChainEnds DEF Chain
  <2> QED BY <1>1, <1>2, <1>3, <1>4, <2>1 DEF QueueOnly
<1>11. CallsOf(e)'
  <2>1. called[e] = <<>>
    BY <1>1, <1>3 DEF CalledSoFar, CallsOf
  <2>2. called'[e] = <<>> /\ DOMAIN called'[e] = {}
    BY <1>1, <2>1
  <2>3. \A n : ~Called(e, n)'
    BY <2>2 DEF Called
  <2>4. CASE head = Null
    <3>1. must'[e] = {}
      BY <1>3, <1>8, <2>4, ChainEnds
    <3> QED BY <1>1, <2>2, <2>3, <2>4, <3>1 DEF CallsOf, AtNode
  <2>5. CASE head # Null
    <3>1. \A n \in must'[e] : hand'[e] <= n
      BY <1>1, <1>3, <1>8, ChainEnds
    <3> QED BY <1>1, <2>2, <2>3, <2>5, <3>1 DEF CallsOf, AtNode
  <2> QED BY <2>4, <2>5
<1>12. CalledSoFar'
  <2>1. ASSUME NEW f \in Emitters, f # e PROVE CallsOf(f)'
    BY <1>1, <1>3, <1>4, <2>1, CallsKept DEF CalledSoFar, Activations
  <2> QED BY <1>11, <2>1 DEF CalledSoFar
<1>13. MustCallable'
  <2>1. \A f \in Emitters : \A n \in must'[f] : n \in Known /\ Callable(n)
    BY <1>1, <1>3 DEF MustCallable
  <2>2. \A f \in Emitters : pc'[f] \in {"disconnect", "unlink"} => hand'[f] \notin must'[f]
    BY <1>1, <1>3 DEF MustCallable, Activations
  <2> QED BY <1>1, <1>2, <1>4, <2>1, <2>2 DEF MustCallable, Callable
<1> QED BY <1>5, <1>7, <1>9, <1>10, <1>12, <1>13 DEF Queue

\* Any other step of an emission: it keeps or drops what it must call, and
\* goes on, or not, with next.
LEMMA EmissionStep ==
  ASSUME SafetyInvariant, SafetyInvariant', NEW L \in SUBSET Node, Queue(L),
         NEW e \in Emitters, pc[e] \notin Critical,
         UNCHANGED <<linkVars, nodeVars, fault, unusable, mutex, owned>>,
         \A a \in Activations : a # e => pc'[a] = pc[a] /\ hand'[a] = hand[a],
         \A f \in Emitters : f # e => called'[f] = called[f] /\ must'[f] = must[f],
         must'[e] \subseteq must[e],
         hand'[e] = hand[e] \/ hand'[e] = Null \/ (hand[e] \in Node /\ hand'[e] = next[hand[e]]),
         pc'[e] \in {"disconnect", "unlink"} => hand'[e] \notin must'[e],
         CallsOf(e)'
  PROVE  Queue(L)'
<1>1. UNCHANGED <<fresh, head>>
  BY DEF linkVars, nodeVars
<1>2. mutex # e
  BY DEF SafetyInvariant, MutexProtectsLinks, Activations
<1>3. MarksMatch(L)'
  BY <1>1, <1>2, MarksKept DEF Queue
<1>4. hand[e] \in Node => next[hand[e]] = Null \/ next[hand[e]] \in Known
  BY DEF Queue, NextPasses
<1>5. \A a \in Activations : hand'[a] # Null => hand'[a] = hand[a] \/ hand'[a] \in Known
  BY <1>4
<1>6. \A f \in Emitters : f # e => pc'[f] = pc[f] /\ hand'[f] = hand[f]
  BY DEF Activations
<1> QED BY <1>3, <1>5, <1>6, QuietStep

\* What an emission standing on a node knows.
LEMMA EmissionStands ==
  ASSUME SafetyInvariant, NEW L \in SUBSET Node, Queue(L),
         NEW e \in Emitters, pc[e] \in AtNode \cup {"advance"}
  PROVE  /\ hand[e] \in Node /\ hand[e] \in Known /\ hand[e] \in Nat
         /\ must[e] \subseteq L /\ must[e] \subseteq Nat
         /\ CallsOf(e)
         /\ Known \subseteq Node
<1>1. hand[e] # Null /\ hand[e] \in Link /\ e \in Activations
  BY DEF SafetyInvariant, LocalsHold, OnNode, AtNode, TypeOK, ThreadTypeOK, Activations
<1>2. hand[e] \in Node /\ hand[e] \in Known
  BY <1>1, NodeNumbers DEF Queue, QueueOnly
<1>3. must[e] \subseteq L
  BY DEF Queue, MustCallable, MarksMatch, Callable, Usable
<1>4. Known \subseteq Node
  BY KnownNumbers DEF SafetyInvariant, TypeOK, ListTypeOK
<1> QED BY <1>2, <1>3, <1>4, NodeNumbers DEF Queue, CalledSoFar

\* usable() lets an emission pass over what it need not call.
LEMMA QueueCheckUsable ==
  ASSUME SafetyInvariant, SafetyInvariant', NEW L \in SUBSET Node, Queue(L),
         NEW e \in Emitters, CheckUsable(e)
  PROVE  Queue(L)'
<1>1. /\ pc[e] = "check"
      /\ UNCHANGED <<linkVars, nodeVars, fault, unusable, mutex, owned, hand, called, must, fresh>>
      /\ pc'[e] = IF Usable(unusable[hand[e]]) THEN "try_lock" ELSE "advance"
      /\ \A a \in Activations : a # e => pc'[a] = pc[a]
  BY DEF CheckUsable, Goto, trackVars, history, listVars, nodeVars, SafetyInvariant, TypeOK,
         ThreadTypeOK, Activations
<1>2. /\ hand[e] \in Node /\ hand[e] \in Known /\ must[e] \subseteq L /\ CallsOf(e)
      /\ Known' = Known /\ Known \subseteq Node
  BY <1>1, EmissionStands DEF AtNode, Known
<1>3. pc'[e] = "advance" => hand[e] \notin must[e]
  BY <1>1 DEF Queue, MustCallable, Callable
<1>4. CallsOf(e)'
  <2>1. must[e] \subseteq Node /\ hand[e] \in Link
    BY <1>2 DEF Link
  <2>2. pc'[e] \in {"try_lock", "advance"}
    BY <1>1
  <2> QED BY <1>1, <1>2, <1>3, <2>1, <2>2, CallsKept DEF AtNode
<1> QED BY <1>1, <1>4, EmissionStep DEF Critical

\* try_lock() fails for a slot that it need not call.
LEMMA QueueTryLock ==
  ASSUME SafetyInvariant, SafetyInvariant', NEW L \in SUBSET Node, Queue(L),
         NEW e \in Emitters, TryLock(e)
  PROVE  Queue(L)'
<1>1. /\ pc[e] = "try_lock"
      /\ UNCHANGED <<linkVars, nodeVars, fault, unusable, mutex, owned, hand, called, must, fresh>>
      /\ pc'[e] \in {"call", "disconnect"}
      /\ pc'[e] = "disconnect" => ~Lockable(hand[e])
      /\ \A a \in Activations : a # e => pc'[a] = pc[a]
  BY DEF TryLock, Goto, trackVars, history, listVars, nodeVars, SafetyInvariant, TypeOK,
         ThreadTypeOK, Activations
<1>2. /\ hand[e] \in Node /\ hand[e] \in Known /\ must[e] \subseteq L /\ CallsOf(e)
      /\ Known' = Known /\ Known \subseteq Node
  BY <1>1, EmissionStands DEF AtNode, Known
<1>3. pc'[e] = "disconnect" => hand[e] \notin must[e]
  BY <1>1 DEF Queue, MustCallable, Callable, Lockable
<1>4. CallsOf(e)'
  <2>1. must[e] \subseteq Node /\ hand[e] \in Link
    BY <1>2 DEF Link
  <2> QED BY <1>1, <1>2, <2>1, CallsKept DEF AtNode
<1> QED BY <1>1, <1>3, <1>4, EmissionStep DEF Critical

\* The slot is called: it is greater than all that were.
LEMMA QueueCallSlot ==
  ASSUME SafetyInvariant, SafetyInvariant', NEW L \in SUBSET Node, Queue(L),
         NEW e \in Emitters, CallSlot(e)
  PROVE  Queue(L)'
<1>1. /\ pc[e] = "call" /\ pc'[e] = "advance"
      /\ called'[e] = Append(called[e], hand[e]) /\ called[e] \in Seq(Node)
      /\ UNCHANGED <<linkVars, nodeVars, unusable, mutex, owned, hand, must, fresh>>
      /\ \A a \in Activations : a # e => pc'[a] = pc[a]
      /\ \A f \in Emitters : f # e => called'[f] = called[f]
  BY DEF CallSlot, Goto, nodeVars, SafetyInvariant, TypeOK, ThreadTypeOK, HistoryTypeOK,
         Activations
<1>2. UNCHANGED fault
  BY DEF CallSlot, Queue, QueueOnly
<1>3. /\ hand[e] \in Node /\ hand[e] \in Known /\ hand[e] \in Nat
      /\ must[e] \subseteq Nat /\ CallsOf(e)
      /\ Known' = Known /\ Known \subseteq Node
  BY <1>1, EmissionStands DEF AtNode, Known
<1> DEFINE s == called[e]
           h == hand[e]
<1>4. /\ DOMAIN called'[e] = DOMAIN s \cup {Len(s) + 1} /\ Len(s) \in Nat
      /\ \A i \in DOMAIN s : called'[e][i] = s[i] /\ s[i] \in Node /\ i < Len(s) + 1 /\ i \in Nat
      /\ called'[e][Len(s) + 1] = h
  BY <1>1, <1>3
<1>5. /\ \A i, j \in DOMAIN s : i < j => s[i] < s[j]
      /\ \A n \in Node : Called(e, n) => n < h /\ n \in Known
      /\ \A n \in must[e] : Called(e, n) \/ h <= n
  BY <1>1, <1>3 DEF CallsOf, AtNode
<1>6. \A n \in Node : Called(e, n)' <=> Called(e, n) \/ n = h
  BY <1>4, <1>3 DEF Called
<1>7. \A i \in DOMAIN s : s[i] < h
  BY <1>4, <1>5 DEF Called
<1> HIDE DEF s, h
<1>8. \A i, j \in DOMAIN called'[e] : i < j => called'[e][i] < called'[e][j]
  <2> SUFFICES ASSUME NEW i \in DOMAIN called'[e], NEW j \in DOMAIN called'[e], i < j
               PROVE  called'[e][i] < called'[e][j]
    OBVIOUS
  <2>1. i \in DOMAIN s
    BY <1>4
  <2>2. CASE j \in DOMAIN s
    BY <1>4, <1>5, <2>1, <2>2
  <2>3. CASE j = Len(s) + 1
    BY <1>4, <1>7, <2>1, <2>3
  <2> QED BY <1>4, <2>2, <2>3
<1>9. CallsOf(e)'
  <2>1. h = hand'[e] /\ h \in Nat
    BY <1>1, <1>3 DEF h
  <2>2. \A n \in Node : Called(e, n)' => n <= hand'[e] /\ n \in Known'
    <3> TAKE n \in Node
    <3>1. n \in Nat
      BY NodeNumbers
    <3>2. Called(e, n) => n < h /\ n \in Known
      BY <1>5
    <3>3. Called(e, n)' => Called(e, n) \/ n = h
      BY <1>6
    <3>4. h \in Known
      BY <1>3 DEF h
    <3> QED BY <1>3, <2>1, <3>1, <3>2, <3>3, <3>4
  <2>3. \A n \in must'[e] : Called(e, n)' \/ hand'[e] < n
    <3> TAKE n \in must'[e]
    <3>1. n \in Nat /\ n \in must[e] /\ n \in Node
      BY <1>1, <1>3 DEF SafetyInvariant, TypeOK, HistoryTypeOK
    <3>2. Called(e, n) \/ h <= n
      BY <1>5, <3>1
    <3> QED BY <1>6, <2>1, <3>1, <3>2
  <2> QED BY <1>1, <1>8, <2>2, <2>3 DEF CallsOf, AtNode
<1> QED BY <1>1, <1>2, <1>9, EmissionStep DEF Critical

\* An emission goes on with next: nothing it must call is passed over, and
\* nothing is left where the way ends.
LEMMA QueueAdvance ==
  ASSUME SafetyInvariant, SafetyInvariant', NEW L \in SUBSET Node, Queue(L),
         NEW e \in Emitters, Advance(e)
  PROVE  Queue(L)'
<1>1. /\ pc[e] = "advance"
      /\ UNCHANGED <<linkVars, nodeVars, fault, unusable, mutex, owned, called, must, fresh>>
      /\ hand'[e] = next[hand[e]]
      /\ pc'[e] = IF next[hand[e]] = Null THEN "done" ELSE "check"
      /\ \A a \in Activations : a # e => pc'[a] = pc[a] /\ hand'[a] = hand[a]
  BY DEF Advance, Goto, Take, trackVars, history, listVars, nodeVars, SafetyInvariant, TypeOK,
         ThreadTypeOK, Activations
<1>2. /\ hand[e] \in Node /\ hand[e] \in Known /\ hand[e] \in Nat
      /\ must[e] \subseteq L /\ must[e] \subseteq Nat /\ CallsOf(e)
      /\ Known' = Known /\ Known \subseteq Node
  BY <1>1, EmissionStands DEF Known
<1>3. Chain(L) /\ NextPasses(L) /\ WayEnds(L)
  BY DEF Queue
<1>4. /\ \A i, j \in DOMAIN called[e] : i < j => called[e][i] < called[e][j]
      /\ \A n \in Node : Called(e, n) => n <= hand[e] /\ n \in Known
      /\ \A n \in must[e] : Called(e, n) \/ hand[e] < n
  BY <1>1, <1>2 DEF CallsOf
<1>5. \A n : Called(e, n)' <=> Called(e, n)
  BY <1>1 DEF Called
<1>6. CASE next[hand[e]] = Null
  <2>1. \A n \in must[e] : n <= hand[e]
    <3>1. CASE hand[e] \in L
      <4>1. hand[e] = tail
        BY <1>3, <1>6, <3>1, ChainNext
      <4> QED BY <1>2, <1>3, <4>1, ChainEnds
    <3>2. CASE hand[e] \notin L
      <4>1. hand[e] \in Ahead(e) \ L
        BY <1>2, <3>2, ReachRoots DEF Ahead
      <4> QED BY <1>3, <1>6, <4>1 DEF WayEnds
    <3> QED BY <3>1, <3>2
  <2>2. \A n \in must[e] : Called(e, n)
    <3> TAKE n \in must[e]
    <3>1. n \in Nat /\ n <= hand[e]
      BY <1>2, <2>1
    <3> QED BY <1>2, <1>4, <3>1
  <2>3. CallsOf(e)'
    BY <1>1, <1>2, <1>4, <1>5, <1>6, <2>2 DEF CallsOf, AtNode
  <2> QED BY <1>1, <1>2, <1>6, <2>3, EmissionStep DEF Critical
<1>7. CASE next[hand[e]] # Null
  <2> DEFINE q == next[hand[e]]
  <2>1. /\ q \in Known /\ q \in Nat /\ hand[e] < q
        /\ \A m \in L : m <= hand[e] \/ q <= m
    BY <1>2, <1>3, <1>7, NodeNumbers DEF NextPasses
  <2> HIDE DEF q
  <2>2. \A n \in Node : Called(e, n) => n < q
    <3> TAKE n \in Node
    <3>1. n \in Nat
      BY NodeNumbers
    <3>2. Called(e, n) => n <= hand[e]
      BY <1>4
    <3> QED BY <1>2, <2>1, <3>1, <3>2
  <2>3. \A n \in must[e] : Called(e, n) \/ q <= n
    <3> TAKE n \in must[e]
    <3>1. n \in Nat /\ n \in L
      BY <1>2
    <3>2. Called(e, n) \/ hand[e] < n
      BY <1>4
    <3> QED BY <1>2, <2>1, <3>1, <3>2
  <2>4. hand'[e] = q /\ pc'[e] = "check"
    BY <1>1, <1>7 DEF q
  <2>5. CallsOf(e)'
    BY <1>1, <1>2, <1>4, <1>5, <2>2, <2>3, <2>4 DEF CallsOf, AtNode
  <2> QED BY <1>1, <1>2, <1>7, <2>5, EmissionStep DEF Critical
<1> QED BY <1>6, <1>7

\* emit() returns, or unwinds when a slot throws.
LEMMA QueueEmitEnds ==
  ASSUME SafetyInvariant, SafetyInvariant', NEW L \in SUBSET Node, Queue(L),
         NEW e \in Emitters, EmitReturns(e) \/ SlotThrows(e)
  PROVE  Queue(L)'
<1>1. /\ pc[e] \in {"done", "call"} /\ pc'[e] = "idle" /\ hand'[e] = Null
      /\ UNCHANGED <<linkVars, nodeVars, fault, unusable, mutex, owned>>
      /\ called'[e] = <<>> /\ must'[e] = {}
      /\ \A a \in Activations : a # e => pc'[a] = pc[a] /\ hand'[a] = hand[a]
      /\ \A f \in Emitters : f # e => called'[f] = called[f] /\ must'[f] = must[f]
  BY DEF EmitReturns, SlotThrows, ForgetEmission, Goto, Take, trackVars, listVars,
         SafetyInvariant, TypeOK, ThreadTypeOK, HistoryTypeOK, Activations
<1>2. CallsOf(e)'
  <2>1. DOMAIN called'[e] = {}
    BY <1>1
  <2> QED BY <1>1, <2>1 DEF CallsOf, Called, AtNode
<1> QED BY <1>1, <1>2, EmissionStep DEF Critical

-----------------------------------------------------------------------------
(* The invariant                                                           *)

\* What is inductive: some set of nodes is the chain.
QueueSafe == SafetyInvariant /\ (QueueClient => \E L \in SUBSET Node : Queue(L))

\* A new signal lists nothing.
LEMMA InitQueue == Init => QueueSafe
<1> SUFFICES ASSUME Init PROVE QueueSafe
  OBVIOUS
<1>1. SafetyInvariant
  BY InitSafe
<1> USE DEF Init, ListInit
<1>2. Known = {}
  BY DEF Known
<1>3. Chain({}) /\ NextPasses({})
  BY DEF Chain, NextPasses
<1>4. MarksMatch({})
  BY <1>2 DEF MarksMatch, MarksOf, Activations
<1>5. WayEnds({}) /\ QueueOnly /\ MustCallable
  BY <1>2 DEF WayEnds, QueueOnly, MustCallable, Activations
<1>6. CalledSoFar
  BY DEF CalledSoFar, CallsOf, Called, AtNode, Activations
<1>7. Queue({})
  BY <1>3, <1>4, <1>5, <1>6 DEF Queue
<1> QED BY <1>1, <1>7 DEF QueueSafe

\* Nothing happens.
LEMMA StutterQueue ==
  ASSUME NEW L \in SUBSET Node, Queue(L), UNCHANGED vars
  PROVE  Queue(L)'
<1> USE DEF vars, threadVars, listVars, linkVars, nodeVars, writerVars, trackVars, history
<1>1. Known' = Known /\ \A e, n : Called(e, n)' <=> Called(e, n)
  BY DEF Known, Called
<1>2. Chain(L)' /\ NextPasses(L)' /\ MarksMatch(L)' /\ QueueOnly'
  BY <1>1 DEF Queue, Chain, NextPasses, MarksMatch, MarksOf, QueueOnly
<1>3. CalledSoFar' /\ MustCallable'
  BY <1>1 DEF Queue, CalledSoFar, CallsOf, MustCallable, Callable
<1>4. WayEnds(L)'
  <2>1. \A e \in Emitters : Ahead(e)' = Ahead(e)
    BY DEF Ahead, Reach, Closed
  <2> QED BY <2>1 DEF Queue, WayEnds
<1> QED BY <1>2, <1>3, <1>4 DEF Queue

\* Every step a client of a queue can take.
LEMMA NextQueue ==
  ASSUME PlainWords, QueueClient, SafetyInvariant, SafetyInvariant',
         NEW L \in SUBSET Node, Queue(L), [Next]_vars
  PROVE  \E M \in SUBSET Node : Queue(M)'
<1>1. ASSUME NEW w \in Writers, StartWrite(w)
      PROVE  \E M \in SUBSET Node : Queue(M)'
  <2>1. ASSUME NEW x \in BOOLEAN, PushBack(w, x)
        PROVE  \E M \in SUBSET Node : Queue(M)'
    <3>1. PICK n \in Node : n = fresh
      BY <2>1 DEF PushBack, MakeNode
    <3>2. PICK M \in SUBSET Node : M = L \cup {n}
      OBVIOUS
    <3>3. Queue(M)'
      BY <2>1, <3>1, <3>2, QueuePushBack
    <3> QED BY <3>3
  <2>2. /\ \A x \in BOOLEAN : ~PushFront(w, x) /\ \A g \in Groups : ~Insert(w, g, x)
        /\ ~PopBack(w) /\ \A g \in Groups : ~Erase(w, g)
    BY DEF QueueClient, QueueOperations, PushFront, Insert, PopBack, Erase
  <2>3. CASE \/ \E n \in Node : Disconnect(w, n)
             \/ PopFront(w)
             \/ Clear(w)
    BY <2>3, QueueDisconnect, QueuePopFront, QueueClear
  <2> QED BY <1>1, <2>1, <2>2, <2>3 DEF StartWrite
<1>2. ASSUME NEW a \in Activations, DisconnectMark(a) \/ DisconnectUnlink(a)
      PROVE  \E M \in SUBSET Node : Queue(M)'
  BY <1>2, QueueDisconnectMark, QueueDisconnectUnlink
<1>3. ASSUME NEW w \in Writers, PopUnlink(w) \/ ClearMark(w) \/ ClearUnlink(w)
      PROVE  \E M \in SUBSET Node : Queue(M)'
  BY <1>3, QueuePopUnlink, QueueClearMark, QueueClearUnlink
<1>4. \A w \in Writers : ~EraseMark(w) /\ ~EraseRelink(w)
  BY DEF Queue, MarksMatch, MarksOf, Activations, EraseMark, EraseRelink
<1>5. ASSUME NEW e \in Emitters,
             \/ Emit(e) \/ CheckUsable(e) \/ TryLock(e) \/ CallSlot(e) \/ SlotThrows(e)
             \/ Advance(e) \/ EmitReturns(e)
      PROVE  \E M \in SUBSET Node : Queue(M)'
  BY <1>5, QueueEmit, QueueCheckUsable, QueueTryLock, QueueCallSlot, QueueAdvance,
     QueueEmitEnds
<1>6. ASSUME NEW n \in Node, Expire(n) \/ \E d \in {-1, 1} : Block(n, d)
      PROVE  \E M \in SUBSET Node : Queue(M)'
  BY <1>6, QueueExpire, QueueBlock
<1>7. CASE UNCHANGED vars
  BY <1>7, StutterQueue
<1> QED BY <1>1, <1>2, <1>3, <1>4, <1>5, <1>6, <1>7
        DEF Next, FinishWrite, EmitStep, Activations

\* The list and the emissions of a signal that is used as a queue, for any
\* number of nodes and threads, beside clients that use it otherwise.
THEOREM QueueSafety ==
  ASSUME PlainWords
  PROVE  Spec => []QueueSafe
<1>1. ASSUME QueueSafe, [Next]_vars
      PROVE  QueueSafe'
  <2>1. SafetyInvariant /\ SafetyInvariant'
    BY <1>1, NextSafe DEF QueueSafe
  <2> SUFFICES ASSUME QueueClient' PROVE \E M \in SUBSET Node : Queue(M)'
    BY <2>1 DEF QueueSafe
  <2>2. QueueClient
    BY <1>1, ApiStays DEF QueueClient
  <2>3. PICK L \in SUBSET Node : Queue(L)
    BY <1>1, <2>2 DEF QueueSafe
  <2> QED BY <1>1, <2>1, <2>2, <2>3, NextQueue
<1> QED BY <1>1, InitQueue, PTL DEF Spec

\* What the list holds is what the invariant says it holds.
THEOREM QueueHolds ==
  ASSUME PlainWords
  PROVE  Spec => []QueueInvariant
<1>1. QueueSafe => QueueInvariant
  <2> SUFFICES ASSUME QueueSafe, QueueClient PROVE Queue(Listed)
    BY DEF QueueInvariant
  <2>1. PICK L \in SUBSET Node : Queue(L)
    BY DEF QueueSafe
  <2>2. Listed = L
    BY <2>1, ChainIsListed DEF Queue, QueueSafe, SafetyInvariant, TypeOK, ListTypeOK
  <2> QED BY <2>1, <2>2
<1> QED BY <1>1, QueueSafety, PTL

\* The invariant of either kind of client that keeps its list whole.
THEOREM ListHolds ==
  ASSUME PlainWords
  PROVE  Spec => []ListInvariant
<1>1. QueueInvariant /\ (ForwardClient => Forward) => ListInvariant
  BY DEF ListInvariant
<1> QED BY <1>1, QueueHolds, ForwardHolds, PTL

-----------------------------------------------------------------------------
(* What the client is promised                                             *)

\* No step dereferences a null pointer or calls through a wrong type.
THEOREM WholeFaultless ==
  ASSUME PlainWords
  PROVE  Spec => [](WholeClient => NoFault)
<1>1. ListInvariant => (WholeClient => NoFault)
  BY DEF ListInvariant, QueueInvariant, Queue, QueueOnly, Forward, ForwardOnly, WholeClient,
     NoFault
<1> QED BY <1>1, ListHolds, PTL

\* Whenever the mutex is free, every connected slot is on the list,
THEOREM WholeKeepsSlots ==
  ASSUME PlainWords
  PROVE  Spec => [](WholeClient => NoSlotLost)
<1>1. ListInvariant => (WholeClient => NoSlotLost)
  BY DEF ListInvariant, QueueInvariant, Queue, MarksMatch, Forward, MarksForward, WholeClient,
     NoSlotLost
<1> QED BY <1>1, ListHolds, PTL

\* ... and no other.
THEOREM WholeDropsDead ==
  ASSUME PlainWords
  PROVE  Spec => [](WholeClient => NoDeadSlotListed)
<1>1. ListInvariant => (WholeClient => NoDeadSlotListed)
  BY DEF ListInvariant, QueueInvariant, Queue, MarksMatch, Forward, MarksForward, WholeClient,
     NoDeadSlotListed
<1> QED BY <1>1, ListHolds, PTL

\* Listed is a chain, in the words of the lemmas about chains.
LEMMA ListedChain ==
  ASSUME QueueInvariant, QueueClient
  PROVE  \E L \in SUBSET Node : L = Listed /\ Chain(L) /\ NextPasses(L)
<1>1. PICK L \in SUBSET Node : L = Listed
  BY DEF Listed, Reach
<1> QED BY <1>1 DEF QueueInvariant, Queue

\* Whenever the mutex is free, the list ends in tail,
THEOREM WholeEndsInTail ==
  ASSUME PlainWords
  PROVE  Spec => [](WholeClient => EndsInTail)
<1>1. ASSUME QueueInvariant, QueueClient
      PROVE  EndsInTail
  <2>1. PICK L \in SUBSET Node : L = Listed /\ Chain(L) /\ NextPasses(L)
    BY <1>1, ListedChain
  <2>2. /\ head = Null <=> tail = Null
        /\ tail # Null => tail \in L /\ next[tail] = Null
    BY <2>1, ChainEnds
  <2>3. \A n \in L : n # tail => next[n] # Null
    BY <2>1, ChainNext
  <2>4. \A n \in L : tail # Null
    BY <2>1, ChainEnds
  <2> QED BY <2>1, <2>2, <2>3, <2>4 DEF EndsInTail
<1>2. Forward => EndsInTail
  BY DEF Forward, Ends, EndsInTail
<1>3. ListInvariant => (WholeClient => EndsInTail)
  BY <1>1, <1>2 DEF ListInvariant, WholeClient
<1> QED BY <1>3, ListHolds, PTL

\* ... and is doubly linked if the client connects at the back only.
THEOREM QueueDoublyLinked ==
  ASSUME PlainWords
  PROVE  Spec => [](QueueClient => DoublyLinked)
<1>1. ASSUME QueueInvariant, QueueClient
      PROVE  DoublyLinked
  <2>1. PICK L \in SUBSET Node : L = Listed /\ Chain(L) /\ NextPasses(L)
    BY <1>1, ListedChain
  <2>2. ASSUME NEW n \in L, next[n] # Null
        PROVE  prev[next[n]] = n
    <3> DEFINE q == next[n]
               p == prev[q]
    <3>1. n # tail
      BY <2>1, <2>2, ChainEnds
    <3>2. q \in L /\ n < q /\ \A m \in L : m <= n \/ q <= m
      BY <2>1, <3>1, ChainNext
    <3>3. q # head
      <4>1. head <= n /\ head \in Nat /\ n \in Nat /\ q \in Nat
        BY <2>1, <3>2, ChainEnds, NodeNumbers
      <4> QED BY <3>2, <4>1
    <3>4. p \in L /\ p < q /\ \A m \in L : m <= p \/ q <= m
      BY <2>1, <3>2, <3>3, ChainPrev
    <3>5. n \in Nat /\ p \in Nat /\ q \in Nat
      BY <3>2, <3>4, NodeNumbers
    <3> HIDE DEF p, q
    <3>6. p <= n /\ n <= p
      BY <3>2, <3>4, <3>5
    <3>7. p = n
      BY <3>5, <3>6
    <3> QED BY <3>7 DEF p, q
  <2> QED BY <2>1, <2>2 DEF DoublyLinked
<1>2. QueueInvariant => (QueueClient => DoublyLinked)
  BY <1>1
<1> QED BY <1>2, QueueHolds, PTL

\* An emission that returns has called every slot that could be called all
\* the time,
THEOREM WholeEmissionsComplete ==
  ASSUME PlainWords
  PROVE  Spec => [](WholeClient => EmissionComplete)
<1>1. ListInvariant => (WholeClient => EmissionComplete)
  BY DEF ListInvariant, QueueInvariant, Queue, CalledSoFar, CallsOf, Forward, MustAhead, AheadOf,
     WholeClient, Called, EmissionComplete
<1> QED BY <1>1, ListHolds, PTL

-----------------------------------------------------------------------------
(* To its clients the signal is one sequence of slots                      *)

Live == {n \in Known : Connected(unusable[n])}

InOrder == {p \in Live \X Live : Precedes(p[1], p[2])}

\* The nodes that are still to be made have no kind yet.
Unmade == \A n \in Node : n \notin Known => kind[n] = "none"

\* Every step keeps it so.
LEMMA UnmadeKept ==
  ASSUME SafetyInvariant, Unmade, [Next]_vars
  PROVE  Unmade'
<1>1. fresh \in Nat /\ kind \in [Node -> Kinds]
  BY DEF SafetyInvariant, TypeOK, ListTypeOK, NodeTypeOK
<1>2. CASE UNCHANGED nodeVars
  BY <1>2 DEF nodeVars, Unmade, Known
<1>3. CASE \E k, g, x : MakeNode(fresh, k, g, x)
  BY <1>1, <1>3 DEF MakeNode, Unmade, Known, Node
<1> USE DEF listVars
<1>4. ASSUME NEW w \in Writers, StartWrite(w) \/ FinishWrite(w) PROVE Unmade'
  BY <1>2, <1>3, <1>4 DEF StartWrite, FinishWrite, PushBack, PushFront, Insert, Disconnect,
     PopBack, PopFront, Clear, Erase, DisconnectMark, DisconnectUnlink, PopUnlink, ClearMark,
     ClearUnlink, EraseMark, EraseRelink
<1>5. ASSUME NEW e \in Emitters, Emit(e) \/ EmitStep(e) PROVE Unmade'
  BY <1>2, <1>5 DEF EmitStep, Emit, CheckUsable, TryLock, CallSlot, SlotThrows, DisconnectMark,
     DisconnectUnlink, Advance, EmitReturns
<1>6. ASSUME NEW n \in Node, Expire(n) \/ \E d \in {-1, 1} : Block(n, d) PROVE Unmade'
  BY <1>2, <1>6 DEF Expire, Block
<1>7. CASE UNCHANGED vars
  BY <1>2, <1>7 DEF vars
<1> QED BY <1>4, <1>5, <1>6, <1>7 DEF Next

\* The states that refine a state of the sequence.
Refined == SafetyInvariant /\ OrderInvariant /\ ListInvariant /\ WholeClient /\ Unmade

\* What such a state is known to be: of the list,
LEMMA RefinedList ==
  ASSUME Refined
  PROVE  /\ ListTypeOK /\ Ordered
         /\ \A n \in Known : Connected(unusable[n]) => n \in Listed
         /\ mutex = Free => \A n \in Listed : Connected(unusable[n])
<1>1. ListTypeOK
  BY DEF Refined, SafetyInvariant, TypeOK
<1>2. "erase" \notin api
  BY DEF Refined, WholeClient, QueueClient, QueueOperations, ForwardClient, FrontOperations,
     GroupOperations
<1>3. CASE QueueClient
  <2>1. Queue(Listed)
    BY <1>3 DEF Refined, ListInvariant, QueueInvariant
  <2> QED BY <1>1, <1>2, <2>1 DEF Refined, OrderInvariant, Queue, QueueOnly, MarksMatch
<1>4. CASE ForwardClient
  <2>1. Forward
    BY <1>4 DEF Refined, ListInvariant
  <2> QED BY <1>1, <1>2, <2>1 DEF Refined, OrderInvariant, Forward, ForwardOnly, MarksForward
<1> QED BY <1>3, <1>4 DEF Refined, WholeClient

\* ... of the emissions,
LEMMA RefinedEmissions ==
  ASSUME Refined
  PROVE  /\ \A e \in Emitters : called[e] \in Seq(Node) /\ must[e] \subseteq Node /\ CalledBehind(e)
         /\ MustCallable
         /\ \A w \in Writers : pc[w] \notin {"erase_mark", "erase_relink"}
<1>1. "erase" \notin api
  BY DEF Refined, WholeClient, QueueClient, QueueOperations, ForwardClient, FrontOperations,
     GroupOperations
<1>2. MustCallable
  BY DEF Refined, ListInvariant, QueueInvariant, WholeClient, Queue, Forward
<1> QED BY <1>1, <1>2 DEF Refined, OrderInvariant, SafetyInvariant, TypeOK, HistoryTypeOK

\* ... and what a walk meets.
LEMMA RefinedFacts ==
  ASSUME Refined
  PROVE  /\ TypeOK /\ NodeTypeOK /\ Known \subseteq Node /\ fresh \in Nat
         /\ Met = Live /\ MetBefore = InOrder
         /\ \A e \in Emitters : called[e] \in Seq(Node) /\ must[e] \subseteq Node /\ CalledBehind(e)
         /\ MustCallable
         /\ Listed \subseteq Known
         /\ \A n \in Known : kind[n] # "none"
         /\ \A n \in Node \ Known : kind[n] = "none"
<1>1. TypeOK /\ NodeTypeOK /\ ListTypeOK
  BY DEF Refined, SafetyInvariant, TypeOK, ListTypeOK
<1>2. Known \subseteq Node /\ fresh \in Nat
  BY <1>1, KnownNumbers DEF NodeTypeOK
<1>3. Ordered /\ \A n \in Known : Connected(unusable[n]) => n \in Listed
  BY RefinedList
<1>4. Met = Live /\ MetBefore = InOrder
  BY <1>1, <1>3, WalkMeets DEF Live, InOrder
<1>5. Listed \subseteq Known
  BY <1>1, <1>3, ListedKnown
<1>6. \A n \in Known : kind[n] # "none"
  BY <1>3 DEF Ordered, OrderedSince
<1> QED BY <1>1, <1>2, <1>4, <1>5, <1>6, RefinedEmissions DEF Refined, Unmade

\* In short.
LEMMA RefinedMeets == Refined => Met = Live /\ MetBefore = InOrder
BY RefinedFacts

\* The order of the slots changes only with the slots.
LEMMA OrderKept ==
  ASSUME UNCHANGED <<kind, group>>
  PROVE  /\ \A m, n : Precedes(m, n)' <=> Precedes(m, n)
         /\ Live' = Live => InOrder' = InOrder
BY DEF Precedes, Rank, Before, InOrder

\* The order of the slots is that of the sequence.
LEMMA SameOrder ==
  ASSUME NEW m, NEW n
  PROVE  Sequence!Precedes(m, n) <=> Precedes(m, n)
BY DEF Sequence!Precedes, Sequence!Rank, Precedes, Rank, Before

\* No slot comes or goes, and none changes.
LEMMA ListedKept ==
  ASSUME Refined, Met' = Live' /\ MetBefore' = InOrder', UNCHANGED <<nodeVars, unusable, owned>>
  PROVE  UNCHANGED Sequence!listed
<1>1. Known' = Known /\ UNCHANGED <<kind, group>>
  BY DEF nodeVars, Known
<1>2. Live' = Live /\ Gone' = Gone
  BY <1>1 DEF Live, Gone
<1>3. InOrder' = InOrder
  BY <1>1, <1>2, OrderKept
<1>4. Ready' = Ready
  BY <1>1 DEF Ready, Callable
<1> QED BY <1>1, <1>2, <1>3, <1>4, RefinedFacts DEF Sequence!listed

\* No emission gets on.
LEMMA EmissionsKept ==
  ASSUME \A e \in Emitters : Phase(e)' = Phase(e), UNCHANGED history
  PROVE  UNCHANGED Sequence!emissions
<1>1. \A e \in Emitters : Seen(e)' = Seen(e)
  BY DEF Seen, history
<1> QED BY <1>1 DEF Sequence!emissions, history

\* The slot that is connected comes behind those that precede it, and before
\* all others.
LEMMA ConnectRefines ==
  ASSUME PlainWords, Refined, Met' = Live' /\ MetBefore' = InOrder',
         NEW w \in Writers, NEW x \in BOOLEAN,
         PushBack(w, x) \/ PushFront(w, x) \/ \E g \in Groups : Insert(w, g, x)
  PROVE  Sequence!Next
<1>1. PICK n \in Node : n = fresh
  BY DEF PushBack, PushFront, Insert, MakeNode
<1>2. PICK k, g :
        /\ \/ k = "back" /\ g = 0
           \/ k = "front" /\ g = 0
           \/ k = "group" /\ g \in Groups
        /\ MakeNode(n, k, g, x)
  BY <1>1 DEF PushBack, PushFront, Insert
<1>3. UNCHANGED <<pc, owned, history>>
  BY DEF PushBack, PushFront, Insert, Connect, threadVars, trackVars
<1>4. /\ fresh' = n + 1
      /\ kind' = [kind EXCEPT ![n] = k] /\ group' = [group EXCEPT ![n] = g]
      /\ \E word \in InitialWords : unusable' = [unusable EXCEPT ![n] = word]
  BY <1>1, <1>2 DEF MakeNode
<1>5. /\ Known' = Known \cup {n} /\ n \notin Known /\ n \in Int
      /\ \A m \in Known : m < n /\ m \in Int
  BY <1>1, <1>4, NodeNumbers DEF Known
<1>6. /\ Connected(unusable'[n]) /\ kind'[n] = k /\ group'[n] = g
      /\ \A m \in Known : /\ unusable'[m] = unusable[m]
                          /\ kind'[m] = kind[m] /\ group'[m] = group[m]
  BY <1>4, <1>5, RefinedFacts DEF PlainWords, NodeTypeOK
<1>7. Live' = Live \cup {n} /\ n \notin Live /\ Gone' = Gone /\ Live \subseteq Known
  BY <1>5, <1>6 DEF Live, Gone
<1>8. Ready' \in {Ready, Ready \cup {n}}
  BY <1>3, <1>5, <1>6 DEF Ready, Callable
<1>9. \A m \in Known : kind[m] \in {"front", "group", "back"} /\ group[m] \in Int
  <2>1. Groups \cup {0} \subseteq Int
    BY DEF SlotListAssumption
  <2>2. /\ kind \in [Node -> Kinds] /\ group \in [Node -> Groups \cup {0}] /\ Known \subseteq Node
        /\ \A m \in Known : kind[m] # "none"
    BY RefinedFacts DEF NodeTypeOK
  <2> QED BY <2>1, <2>2 DEF Kinds
<1>10. \A l, m \in Live : Precedes(l, m)' <=> Precedes(l, m)
  BY <1>6, <1>7 DEF Precedes, Rank, Before
<1>11. g \in Int /\ k \in {"front", "group", "back"}
  <2>1. Groups \subseteq Int
    BY DEF SlotListAssumption
  <2>2. g = 0 \/ g \in Groups
    BY <1>2
  <2>3. g \in Int
    <3>1. CASE g = 0
      BY <3>1
    <3>2. CASE g \in Groups
      BY <2>1, <3>2
    <3> QED BY <2>2, <3>1, <3>2
  <2>4. k \in {"front", "group", "back"}
    BY <1>2
  <2> QED BY <2>3, <2>4
<1>12. ~Precedes(n, n)' /\ \A m \in Live : Precedes(n, m)' <=> ~Precedes(m, n)'
  BY <1>5, <1>6, <1>7, <1>9, <1>11 DEF Precedes, Rank, Before
<1>13. PICK F : F = {m \in Live : Precedes(m, n)'}
  OBVIOUS
<1>14. InOrder' = InOrder \cup (F \X {n}) \cup ({n} \X (Live \ F))
  <2>1. InOrder' = {p \in (Live \cup {n}) \X (Live \cup {n}) : Precedes(p[1], p[2])'}
    BY <1>7 DEF InOrder
  <2>2. ASSUME NEW a \in Live \cup {n}, NEW c \in Live \cup {n}
        PROVE  Precedes(a, c)' <=> \/ a \in Live /\ c \in Live /\ Precedes(a, c)
                                   \/ a \in F /\ c = n
                                   \/ a = n /\ c \in Live \ F
    BY <1>7, <1>10, <1>12, <1>13
  <2>3. InOrder' = {p \in (Live \cup {n}) \X (Live \cup {n}) :
                      \/ p[1] \in Live /\ p[2] \in Live /\ Precedes(p[1], p[2])
                      \/ p[1] \in F /\ p[2] = n
                      \/ p[1] = n /\ p[2] \in Live \ F}
    BY <2>1, <2>2
  <2> QED BY <1>13, <2>3 DEF InOrder
<1>15. UNCHANGED Sequence!emissions
  BY <1>3, EmissionsKept DEF Phase
<1>16. Sequence!Connect(n, k, g, F)
  BY <1>4, <1>5, <1>7, <1>8, <1>14, <1>15, RefinedFacts DEF Sequence!Connect
<1>17. CASE k = "back" /\ g = 0
  <2>1. F = Live
    BY <1>5, <1>6, <1>7, <1>9, <1>13, <1>17 DEF Precedes, Rank
  <2>2. Sequence!ConnectBack(n)
    BY <1>16, <1>17, <2>1, RefinedFacts DEF Sequence!ConnectBack
  <2> QED BY <2>2 DEF Sequence!Next
<1>18. CASE k = "front" /\ g = 0
  <2>1. F = {}
    BY <1>5, <1>6, <1>7, <1>9, <1>13, <1>18 DEF Precedes, Rank
  <2>2. Sequence!ConnectFront(n)
    BY <1>16, <1>18, <2>1 DEF Sequence!ConnectFront
  <2> QED BY <2>2 DEF Sequence!Next
<1>19. CASE k = "group" /\ g \in Groups
  <2>1. F = {m \in Live : kind[m] = "front" \/ (kind[m] = "group" /\ group[m] <= g)}
    BY <1>5, <1>6, <1>7, <1>9, <1>11, <1>13, <1>19 DEF Precedes, Rank, Before
  <2>2. Sequence!ConnectGroup(n, g)
    BY <1>16, <1>19, <2>1, RefinedFacts DEF Sequence!ConnectGroup
  <2> QED BY <1>19, <2>2 DEF Sequence!Next
<1> QED BY <1>2, <1>17, <1>18, <1>19

\* A mark removes a slot.
LEMMA RemoveRefines ==
  ASSUME Refined, Met' = Live' /\ MetBefore' = InOrder',
         NEW n \in Live, Mark(n), UNCHANGED <<nodeVars, owned>>,
         \A e \in Emitters : Phase(e)' = Phase(e)
  PROVE  Sequence!Next
<1>1. Known' = Known /\ UNCHANGED <<kind, group, called, dead>>
  BY DEF nodeVars, Known, Mark
<1>2. /\ n \in Known /\ n \in Node /\ Connected(unusable[n])
      /\ ~Connected(unusable'[n])
      /\ \A m \in Node : m # n => unusable'[m] = unusable[m]
      /\ must' = [e \in Emitters |-> must[e] \ {n}]
  BY RefinedFacts, MarkExcuses DEF Live, Mark, Excuse
<1>3. Live' = Live \ {n} /\ Gone' = Gone \cup {n} /\ n \notin Gone
  BY <1>1, <1>2, RefinedFacts DEF Live, Gone
<1>4. InOrder' = InOrder \cap (Live' \X Live')
  BY <1>1, <1>3, OrderKept DEF InOrder
<1>5. Ready' = Ready \ {n}
  BY <1>1, <1>2, RefinedFacts DEF Ready, Callable, Usable
<1>6. \A e \in Emitters : Seen(e)' = Seen(e) /\ must'[e] \ Seen(e)' = (must[e] \ Seen(e)) \ {n}
  BY <1>1, <1>2 DEF Seen
<1>7. Sequence!Remove({n})
  BY <1>1, <1>3, <1>4, <1>5, <1>6, RefinedFacts DEF Sequence!Remove, Sequence!Unready
<1>8. Sequence!Disconnect
  BY <1>7, RefinedFacts DEF Sequence!Disconnect
<1>9. Gone' # Gone
  BY <1>3
<1> QED BY <1>8, <1>9 DEF Sequence!Next

\* One slot may be called no longer.
LEMMA SuspendRefines ==
  ASSUME Refined, Met' = Live' /\ MetBefore' = InOrder',
         NEW n \in Known, Callable(n), ~Callable(n)', Excuse(n),
         Connected(unusable'[n]) <=> Connected(unusable[n]),
         \A m \in Known : m # n => unusable'[m] = unusable[m] /\ (m \in owned' <=> m \in owned),
         UNCHANGED <<nodeVars, pc, called, dead>>
  PROVE  Sequence!Next
<1>1. Known' = Known /\ UNCHANGED <<kind, group>> /\ n \in Node
  BY RefinedFacts DEF nodeVars, Known
<1>2. Live' = Live /\ Gone' = Gone
  BY <1>1 DEF Live, Gone
<1>3. InOrder' = InOrder
  BY <1>1, <1>2, OrderKept
<1>4. n \in Ready /\ Ready' = Ready \ {n}
  BY <1>1 DEF Ready, Callable
<1>5. \A e \in Emitters : Seen(e)' = Seen(e) /\ must'[e] \ Seen(e)' = (must[e] \ Seen(e)) \ {n}
  BY DEF Seen, Excuse
<1>6. \A e \in Emitters : Phase(e)' = Phase(e)
  BY DEF Phase
<1>7. Sequence!Suspend(n)
  BY <1>1, <1>2, <1>3, <1>4, <1>5, <1>6, RefinedFacts DEF Sequence!Suspend, Sequence!Unready
<1> QED BY <1>1, <1>7 DEF Sequence!Next

\* Or it may be called again.
LEMMA ResumeRefines ==
  ASSUME Refined, Met' = Live' /\ MetBefore' = InOrder',
         NEW n \in Live, ~Callable(n), Callable(n)',
         \A m \in Known : m # n => unusable'[m] = unusable[m],
         UNCHANGED <<nodeVars, pc, owned, history>>
  PROVE  Sequence!Next
<1>1. Known' = Known /\ UNCHANGED <<kind, group>> /\ n \in Node /\ n \in Known
  BY RefinedFacts DEF nodeVars, Known, Live
<1>2. Live' = Live /\ Gone' = Gone
  BY <1>1 DEF Live, Gone, Callable, Usable
<1>3. InOrder' = InOrder
  BY <1>1, <1>2, OrderKept
<1>4. n \notin Ready /\ Ready' = Ready \cup {n}
  BY <1>1 DEF Ready, Callable
<1>5. \A e \in Emitters : Phase(e)' = Phase(e)
  BY DEF Phase
<1>6. UNCHANGED Sequence!emissions
  BY <1>5, EmissionsKept
<1>7. Sequence!Resume(n)
  BY <1>1, <1>2, <1>3, <1>4, <1>6, RefinedFacts DEF Sequence!Resume
<1> QED BY <1>1, <1>7 DEF Sequence!Next

\* An emission finds slots, or none.
LEMMA BeginRefines ==
  ASSUME Refined, Met' = Live' /\ MetBefore' = InOrder', NEW e \in Emitters, Emit(e)
  PROVE  Sequence!Next
<1>1. /\ pc[e] = "idle" /\ UNCHANGED <<listVars, trackVars, called>>
      /\ pc' = [pc EXCEPT ![e] = IF head = Null THEN "done" ELSE "check"]
      /\ must' = [must EXCEPT ![e] = Ready] /\ dead' = [dead EXCEPT ![e] = Gone]
  BY DEF Emit, Goto, Ready, Gone
<1>2. UNCHANGED Sequence!listed
  BY <1>1, ListedKept DEF listVars, trackVars
<1>3. head = Null => Ready = {}
  BY RefinedList, ListedFacts DEF ListTypeOK, Ready, Callable, Usable
<1>4. \A f \in Emitters : Seen(f)' = Seen(f)
  BY <1>1 DEF Seen
<1>5. Seen(e) = {}
  <2>1. called[e] = <<>>
    BY <1>1, RefinedFacts DEF CalledBehind
  <2> QED BY <2>1 DEF Seen
<1>6. [f \in Emitters |-> must[f] \ Seen(f)]'
        = [[f \in Emitters |-> must[f] \ Seen(f)] EXCEPT ![e] = Ready]
  <2>1. \A f \in Emitters : must'[f] \ Seen(f)' = IF f = e THEN Ready ELSE must[f] \ Seen(f)
    BY <1>1, <1>4, <1>5, RefinedFacts DEF TypeOK, HistoryTypeOK
  <2> QED BY <2>1
<1>7. /\ Phase(e) = "idle"
      /\ Phase(e)' = IF head = Null THEN "complete" ELSE "running"
      /\ \A f \in Emitters : f # e => Phase(f)' = Phase(f)
  BY <1>1, RefinedFacts DEF Phase, TypeOK, ThreadTypeOK, Activations
<1>8. [f \in Emitters |-> Phase(f)]'
        = [[f \in Emitters |-> Phase(f)] EXCEPT
             ![e] = IF head = Null THEN "complete" ELSE "running"]
  BY <1>7
<1>9. Sequence!Begin(e)
  BY <1>1, <1>2, <1>3, <1>4, <1>6, <1>7, <1>8 DEF Sequence!Begin
<1> QED BY <1>9 DEF Sequence!Next

\* What an emission still has to call does not precede the slot it calls.
LEMMA OwedFollow ==
  ASSUME Refined, NEW e \in Emitters, pc[e] = "call", NEW m \in must[e], m # hand[e]
  PROVE  m \in Seen(e) \/ Precedes(hand[e], m)
<1>1. Called(e, m) => m \in Seen(e)
  BY DEF Called, Seen
<1>2. m \in Node /\ m \in Known /\ hand[e] \in Node /\ hand[e] \in Known
  <2>1. hand[e] # Null
    BY DEF Refined, SafetyInvariant, LocalsHold, OnNode, Activations
  <2> QED BY <2>1, RefinedFacts DEF MustCallable, CalledBehind
<1>3. CASE QueueClient
  <2>1. CallsOf(e) /\ QueueOnly
    BY <1>3 DEF Refined, ListInvariant, QueueInvariant, Queue, CalledSoFar
  <2>2. Called(e, m) \/ hand[e] <= m
    BY <2>1 DEF CallsOf, AtNode
  <2>3. kind[hand[e]] = "back" /\ kind[m] = "back"
    BY <1>2, <2>1 DEF QueueOnly
  <2>4. hand[e] \in Int /\ m \in Int
    BY <1>2 DEF Node
  <2>5. Called(e, m) \/ hand[e] < m
    BY <2>2, <2>4
  <2> QED BY <1>1, <2>3, <2>5 DEF Precedes
<1>4. CASE ForwardClient
  <2>1. AheadOf(e)
    BY <1>4 DEF Refined, ListInvariant, Forward, MustAhead
  <2>2. Called(e, m) \/ m \in Reach({hand[e]})
    BY <2>1 DEF AheadOf, AtNode, Ahead
  <2>3. LinkTypeOK /\ NodeTypeOK /\ Ordered
    BY RefinedList DEF ListTypeOK
  <2>4. PICK b \in 1..fresh : LinksInOrder(b)
    BY <2>3 DEF Ordered, OrderedSince
  <2>5. m \in Reach({hand[e]}) => Leads(b, hand[e], m)
    BY <1>2, <2>3, <2>4, ReachLeads
  <2> QED BY <1>1, <2>2, <2>5 DEF Leads
<1> QED BY <1>3, <1>4 DEF Refined, WholeClient

\* A slot is called in its turn.
LEMMA CallRefines ==
  ASSUME Refined, Met' = Live' /\ MetBefore' = InOrder', NEW e \in Emitters, CallSlot(e)
  PROVE  Sequence!Next
<1> USE NodeNumbers
<1>1. PICK n \in Known : n = hand[e]
  <2>1. hand[e] # Null
    BY DEF Refined, SafetyInvariant, LocalsHold, OnNode, CallSlot, Activations
  <2> QED BY <2>1, RefinedFacts DEF CalledBehind
<1>2. /\ pc[e] = "call" /\ pc' = [pc EXCEPT ![e] = "advance"]
      /\ called' = [called EXCEPT ![e] = Append(@, n)]
      /\ UNCHANGED <<linkVars, nodeVars, unusable, owned, must, dead>>
  BY <1>1 DEF CallSlot, Goto
<1>3. UNCHANGED Sequence!listed
  BY <1>2, ListedKept
<1>4. n \in Node /\ kind[n] # "none"
  BY RefinedFacts
<1>5. n \notin dead[e]
  BY <1>1, <1>2 DEF Refined, SafetyInvariant, PassedNodesLive
<1>6. /\ \A m \in Seen(e) : m \in Known /\ Precedes(m, n)
      /\ \A m \in must[e] \ Seen(e) : m = n \/ Precedes(n, m)
  <2>1. \A m \in Seen(e) : m \in Known /\ Precedes(m, n)
    BY <1>1, <1>2, RefinedFacts DEF CalledBehind, Seen
  <2> QED BY <1>1, <1>2, <2>1, OwedFollow
<1>7. n \notin Seen(e)
  BY <1>4, <1>6, RefinedFacts, PrecedesOrder
<1>8. /\ Seen(e)' = Seen(e) \cup {n}
      /\ \A f \in Emitters : f # e => Seen(f)' = Seen(f)
  <2>1. called[e] \in Seq(Node) /\ called'[e] = Append(called[e], n)
    BY <1>2, RefinedFacts DEF TypeOK, HistoryTypeOK
  <2>2. Seen(e)' = Seen(e) \cup {n}
    <3>1. PICK s \in Seq(Node) : s = called[e] /\ called'[e] = Append(s, n)
      BY <2>1
    <3>2. /\ DOMAIN s = 1..Len(s) /\ Len(s) \in Nat /\ DOMAIN Append(s, n) = 1..(Len(s) + 1)
          /\ Append(s, n)[Len(s) + 1] = n /\ Len(s) + 1 \in 1..(Len(s) + 1)
          /\ \A i \in 1..Len(s) : i \in 1..(Len(s) + 1) /\ Append(s, n)[i] = s[i]
      BY <1>4
    <3>3. \A i \in 1..(Len(s) + 1) : i \in 1..Len(s) \/ i = Len(s) + 1
      BY <3>2
    <3>4. {Append(s, n)[i] : i \in 1..(Len(s) + 1)} = {s[i] : i \in 1..Len(s)} \cup {n}
      BY <3>2, <3>3
    <3> QED BY <3>1, <3>2, <3>4 DEF Seen
  <2>3. \A f \in Emitters : f # e => called'[f] = called[f]
    BY <1>2, RefinedFacts DEF TypeOK, HistoryTypeOK
  <2> QED BY <2>2, <2>3 DEF Seen
<1>9. [f \in Emitters |-> Seen(f)]' = [[f \in Emitters |-> Seen(f)] EXCEPT ![e] = @ \cup {n}]
  BY <1>8
<1>10. [f \in Emitters |-> must[f] \ Seen(f)]'
         = [[f \in Emitters |-> must[f] \ Seen(f)] EXCEPT ![e] = @ \ {n}]
  <2>1. \A f \in Emitters : must'[f] \ Seen(f)' = IF f = e THEN (must[f] \ Seen(f)) \ {n}
                                                          ELSE must[f] \ Seen(f)
    BY <1>2, <1>8
  <2> QED BY <2>1
<1>11. /\ Phase(e) = "running"
       /\ \A f \in Emitters : Phase(f)' = Phase(f)
  BY <1>2, RefinedFacts DEF Phase, TypeOK, ThreadTypeOK, Activations
<1>12. \A m \in Seen(e) : Sequence!Precedes(m, n)
  BY <1>6, SameOrder
<1>13. \A m \in (must[e] \ Seen(e)) \ {n} : Sequence!Precedes(n, m)
  BY <1>6, SameOrder
<1>14. Sequence!Call(e, n)
  BY <1>2, <1>3, <1>4, <1>5, <1>7, <1>9, <1>10, <1>11, <1>12, <1>13 DEF Sequence!Call
<1> QED BY <1>4, <1>14 DEF Sequence!Next

\* An emission goes on, or it has called what it owes.
LEMMA AdvanceRefines ==
  ASSUME Refined, Refined', Met' = Live' /\ MetBefore' = InOrder',
         NEW e \in Emitters, Advance(e)
  PROVE  [Sequence!Next]_(Sequence!vars)
<1>1. /\ pc[e] = "advance" /\ UNCHANGED <<listVars, trackVars, history>>
      /\ pc' = [pc EXCEPT ![e] = IF next[hand[e]] = Null THEN "done" ELSE "check"]
  BY DEF Advance, Goto
<1>2. UNCHANGED Sequence!listed
  BY <1>1, ListedKept DEF listVars, trackVars
<1>3. /\ Phase(e) = "running"
      /\ Phase(e)' = IF next[hand[e]] = Null THEN "complete" ELSE "running"
      /\ \A f \in Emitters : f # e => Phase(f)' = Phase(f)
  BY <1>1, RefinedFacts DEF Phase, TypeOK, ThreadTypeOK, Activations
<1>4. \A f \in Emitters : Seen(f)' = Seen(f) /\ must'[f] = must[f] /\ dead' = dead
  BY <1>1 DEF Seen, history
<1>5. CASE next[hand[e]] = Null
  <2>1. must[e] \ Seen(e) = {}
    <3>1. pc'[e] = "done"
      BY <1>1, <1>5, RefinedFacts DEF TypeOK, ThreadTypeOK, Activations
    <3>2. CallsOf(e)' \/ AheadOf(e)'
      BY DEF Refined, WholeClient, ListInvariant, QueueInvariant, Queue, CalledSoFar, Forward,
         MustAhead
    <3>3. \A m \in must'[e] : Called(e, m)'
      BY <3>1, <3>2 DEF CallsOf, AheadOf
    <3>4. \A m \in must'[e] : m \in Seen(e)'
      BY <3>3 DEF Seen, Called
    <3> QED BY <1>4, <3>4
  <2>2. [f \in Emitters |-> Phase(f)]'
          = [[f \in Emitters |-> Phase(f)] EXCEPT ![e] = "complete"]
    BY <1>3, <1>5
  <2>3. Sequence!Complete(e)
    BY <1>2, <1>3, <1>4, <2>1, <2>2 DEF Sequence!Complete
  <2> QED BY <2>3 DEF Sequence!Next
<1>6. CASE next[hand[e]] # Null
  <2>1. \A f \in Emitters : Phase(f)' = Phase(f)
    BY <1>3, <1>6
  <2>2. UNCHANGED Sequence!emissions
    BY <1>1, <2>1, EmissionsKept
  <2> QED BY <1>2, <2>2 DEF Sequence!vars
<1> QED BY <1>5, <1>6

\* An emission returns, or a slot throws.
LEMMA LeaveRefines ==
  ASSUME Refined, Met' = Live' /\ MetBefore' = InOrder',
         NEW e \in Emitters, EmitReturns(e) \/ SlotThrows(e)
  PROVE  Sequence!Next
<1>1. /\ pc[e] \in {"done", "call"} /\ UNCHANGED <<listVars, owned>>
      /\ pc' = [pc EXCEPT ![e] = "idle"]
      /\ called' = [called EXCEPT ![e] = <<>>]
      /\ must' = [must EXCEPT ![e] = {}] /\ dead' = [dead EXCEPT ![e] = {}]
  BY DEF EmitReturns, SlotThrows, ForgetEmission, Goto, trackVars
<1>2. UNCHANGED Sequence!listed
  BY <1>1, ListedKept DEF listVars
<1>3. /\ Phase(e) # "idle" /\ Phase(e)' = "idle" /\ called'[e] = <<>> /\ must'[e] = {}
      /\ \A f \in Emitters : f # e =>
           Phase(f)' = Phase(f) /\ called'[f] = called[f] /\ must'[f] = must[f]
  BY <1>1, RefinedFacts DEF Phase, TypeOK, ThreadTypeOK, HistoryTypeOK, Activations
<1>4. \A f \in Emitters : Seen(f)' = IF f = e THEN {} ELSE Seen(f)
  BY <1>3 DEF Seen
<1>5. /\ [f \in Emitters |-> Phase(f)]' = [[f \in Emitters |-> Phase(f)] EXCEPT ![e] = "idle"]
      /\ [f \in Emitters |-> Seen(f)]' = [[f \in Emitters |-> Seen(f)] EXCEPT ![e] = {}]
      /\ [f \in Emitters |-> must[f] \ Seen(f)]'
           = [[f \in Emitters |-> must[f] \ Seen(f)] EXCEPT ![e] = {}]
  BY <1>3, <1>4
<1>6. Sequence!Leave(e)
  BY <1>1, <1>2, <1>3, <1>5 DEF Sequence!Leave
<1> QED BY <1>6 DEF Sequence!Next

\* The steps that mark a node mark a connected one.
LEMMA MarkRefines ==
  ASSUME Refined, Met' = Live' /\ MetBefore' = InOrder',
         \/ \E a \in Activations : DisconnectMark(a) /\ Connected(unusable[hand[a]])
         \/ \E w \in Writers : PopFront(w) \/ ClearMark(w)
  PROVE  Sequence!Next
<1> USE NodeNumbers
<1>1. SafetyInvariant /\ pc \in [Activations -> WriterSteps \cup EmitterSteps]
  BY DEF Refined, SafetyInvariant, TypeOK, ThreadTypeOK
<1>2. /\ LinkTypeOK /\ Listed \subseteq Known
      /\ mutex = Free => \A n \in Listed : Connected(unusable[n])
  BY RefinedList, RefinedFacts DEF ListTypeOK
<1>3. ASSUME NEW a \in Activations, DisconnectMark(a), Connected(unusable[hand[a]])
      PROVE  Sequence!Next
  <2>1. PICK n \in Known : n = hand[a]
    <3>1. hand[a] # Null
      BY <1>1, <1>3 DEF SafetyInvariant, LocalsHold, OnNode, DisconnectMark
    <3>2. QueueClient
      BY <1>3 DEF Refined, WholeClient, ListInvariant, Forward, ForwardOnly, DisconnectMark
    <3>3. QueueOnly
      BY <3>2 DEF Refined, ListInvariant, QueueInvariant, Queue
    <3> QED BY <3>1, <3>3 DEF QueueOnly
  <2>2. n \in Live
    BY <1>3, <2>1 DEF Live
  <2>3. /\ pc[a] = "disconnect" /\ pc' = [pc EXCEPT ![a] = "unlink"]
        /\ Mark(n) /\ UNCHANGED <<nodeVars, owned>>
    BY <1>3, <2>1 DEF DisconnectMark, Goto, trackVars
  <2>4. \A e \in Emitters : Phase(e)' = Phase(e)
    BY <1>1, <2>3 DEF Phase, Activations
  <2> QED BY <2>2, <2>3, <2>4, RemoveRefines
<1>4. ASSUME NEW w \in Writers, PopFront(w) PROVE \E n \in Live : Mark(n)
  <2>1. head # Null /\ mutex = Free /\ Mark(head)
    BY <1>4 DEF PopFront, Acquire
  <2>2. head \in Listed /\ Connected(unusable[head])
    BY <1>2, <2>1, ListedFacts
  <2> QED BY <1>2, <2>1, <2>2 DEF Live
<1>5. ASSUME NEW w \in Writers, ClearMark(w) PROVE \E n \in Live : Mark(n)
  <2>1. pc[w] = "clear" /\ hand[w] # Null /\ Mark(hand[w])
    BY <1>5 DEF ClearMark
  <2>2. hand[w] \in Listed /\ Connected(unusable[hand[w]])
    <3>1. CASE QueueClient
      <4>1. /\ Listed \subseteq Node /\ hand[w] \in Listed
            /\ \A n \in Listed : Connected(unusable[n]) <=> hand[w] # Null /\ hand[w] <= n
        BY <2>1, <3>1, <1>2, ListedFacts DEF Refined, ListInvariant, QueueInvariant, Queue,
           MarksMatch, MarksOf, Activations
      <4>2. hand[w] <= hand[w]
        <5>1. hand[w] \in Nat
          BY <4>1
        <5> QED BY <5>1
      <4> QED BY <2>1, <4>1, <4>2
    <3>2. CASE ForwardClient
      <4>1. /\ Listed \subseteq Node /\ hand[w] \in Listed
            /\ \A n \in Listed : Connected(unusable[n]) <=> n \in Reach({hand[w]})
        BY <2>1, <3>2, <1>2, ListedFacts DEF Refined, ListInvariant, Forward, MarksForward,
           HolderMarks
      <4>2. hand[w] \in Reach({hand[w]})
        BY <4>1, ReachRoots
      <4> QED BY <4>1, <4>2
    <3> QED BY <3>1, <3>2 DEF Refined, WholeClient
  <2> QED BY <1>2, <2>1, <2>2 DEF Live
<1>6. ASSUME NEW w \in Writers, PopFront(w) \/ ClearMark(w)
      PROVE  Sequence!Next
  <2>1. PICK n \in Live : Mark(n)
    BY <1>4, <1>5, <1>6
  <2>2. UNCHANGED <<nodeVars, owned>> /\ \A e \in Emitters : pc'[e] = pc[e]
    BY <1>1, <1>6, SignalAssumption DEF PopFront, ClearMark, Goto, trackVars, Activations
  <2>3. \A e \in Emitters : Phase(e)' = Phase(e)
    BY <2>2 DEF Phase
  <2> QED BY <2>1, <2>2, <2>3, RemoveRefines
<1> QED BY <1>3, <1>6

\* block(), unblock() and an expiry suspend a slot, resume it or change
\* nothing that anybody can see.
LEMMA UnreadyRefines ==
  ASSUME PlainWords, Refined, Met' = Live' /\ MetBefore' = InOrder', NEW n \in Node,
         Expire(n) \/ \E d \in {-1, 1} : Block(n, d)
  PROVE  [Sequence!Next]_(Sequence!vars)
<1>1. /\ n \in Known /\ UNCHANGED <<nodeVars, pc, called, dead>>
      /\ Connected(unusable'[n]) <=> Connected(unusable[n])
      /\ \A m \in Known : m # n => unusable'[m] = unusable[m] /\ (m \in owned' <=> m \in owned)
  BY RefinedFacts DEF Expire, Block, PlainWords, Connected, listVars, trackVars, NodeTypeOK
<1>2. \/ Excuse(n) /\ ~Callable(n)'
      \/ UNCHANGED must /\ Connected(unusable[n]) /\ UNCHANGED owned
           /\ Usable(unusable'[n])
  BY RefinedFacts DEF Expire, Block, Callable, Usable, trackVars, NodeTypeOK
<1>3. CASE Callable(n) /\ ~Callable(n)'
  <2>1. Excuse(n)
    BY <1>2, <1>3 DEF Callable
  <2> QED BY <1>1, <1>3, <2>1, SuspendRefines
<1>4. CASE ~Callable(n) /\ Callable(n)'
  <2>1. UNCHANGED <<must, owned>> /\ n \in Live
    BY <1>1, <1>2, <1>4 DEF Live
  <2> QED BY <1>1, <1>4, <2>1, ResumeRefines DEF history
<1>5. CASE Callable(n)' <=> Callable(n)
  <2>1. \A e \in Emitters : must[e] \ {n} = must[e] \/ Callable(n)
    BY RefinedFacts DEF MustCallable
  <2>2. UNCHANGED must
    BY <1>2, <1>5, <2>1, RefinedFacts DEF Excuse, TypeOK, HistoryTypeOK
  <2>3. Known' = Known /\ UNCHANGED <<kind, group>>
    BY <1>1 DEF nodeVars, Known
  <2>4. Live' = Live /\ Gone' = Gone
    BY <1>1, <2>3 DEF Live, Gone
  <2>5. Ready' = Ready
    BY <1>1, <1>5, <2>3 DEF Ready, Callable
  <2>6. InOrder' = InOrder
    BY <2>3, <2>4, OrderKept
  <2>7. UNCHANGED Sequence!listed
    BY <2>3, <2>4, <2>5, <2>6, RefinedFacts DEF Sequence!listed
  <2>8. UNCHANGED Sequence!emissions
    BY <1>1, <2>2, EmissionsKept DEF Phase, history
  <2> QED BY <2>7, <2>8 DEF Sequence!vars
<1> QED BY <1>3, <1>4, <1>5

\* The other steps are steps of the list and of its readers only.
LEMMA HiddenRefines ==
  ASSUME Refined, Met' = Live' /\ MetBefore' = InOrder',
         \/ \E w \in Writers :
              \/ Clear(w) \/ PopUnlink(w) \/ ClearUnlink(w)
              \/ \E n \in Node : Disconnect(w, n)
         \/ \E a \in Activations :
              \/ DisconnectUnlink(a)
              \/ DisconnectMark(a) /\ ~Connected(unusable[hand[a]])
         \/ \E e \in Emitters : CheckUsable(e) \/ TryLock(e)
         \/ UNCHANGED vars
  PROVE  UNCHANGED Sequence!vars
<1>1. /\ pc \in [Activations -> WriterSteps \cup EmitterSteps]
      /\ Writers \cap Emitters = {}
  BY DEF Refined, SafetyInvariant, TypeOK, ThreadTypeOK
<1>2. ASSUME NEW w \in Writers,
             \/ Clear(w) \/ PopUnlink(w) \/ ClearUnlink(w)
             \/ \E n \in Node : Disconnect(w, n)
      PROVE  UNCHANGED <<nodeVars, unusable, owned, history>> /\ \A e \in Emitters : pc'[e] = pc[e]
  BY <1>1, <1>2 DEF Clear, PopUnlink, ClearUnlink, Disconnect, Goto, listVars, trackVars,
     Activations
<1>3. ASSUME NEW a \in Activations,
             \/ DisconnectUnlink(a)
             \/ DisconnectMark(a) /\ ~Connected(unusable[hand[a]])
      PROVE  /\ UNCHANGED <<nodeVars, unusable, owned, history>>
             /\ \A e \in Emitters :
                  pc'[e] = pc[e] \/ (pc[e] \in {"disconnect", "unlink"} /\ pc'[e] = "advance")
  BY <1>1, <1>3 DEF DisconnectUnlink, DisconnectMark, DisconnectReturns, Goto, trackVars,
     Activations
<1>4. ASSUME NEW a \in Emitters, CheckUsable(a) \/ TryLock(a)
      PROVE  /\ UNCHANGED <<nodeVars, unusable, owned, history>>
             /\ \A e \in Emitters :
                  \/ pc'[e] = pc[e]
                  \/ /\ pc[e] \in {"check", "try_lock"}
                     /\ pc'[e] \in {"try_lock", "advance", "call", "disconnect"}
  BY <1>1, <1>4 DEF CheckUsable, TryLock, Goto, listVars, trackVars, Activations
<1>5. CASE UNCHANGED vars
  BY <1>5, ListedKept, EmissionsKept
     DEF Sequence!vars, vars, threadVars, listVars, trackVars, Phase, history
<1>6. CASE /\ UNCHANGED <<nodeVars, unusable, owned, history>>
           /\ \A e \in Emitters : Phase(e)' = Phase(e)
  BY <1>6, ListedKept, EmissionsKept DEF Sequence!vars
<1> QED BY <1>2, <1>3, <1>4, <1>5, <1>6 DEF Phase

\* Every step is one of the sequence, or none.
LEMMA StepRefines ==
  ASSUME PlainWords, Refined, Refined', Met' = Live' /\ MetBefore' = InOrder', [Next]_vars
  PROVE  [Sequence!Next]_(Sequence!vars)
<1>1. ASSUME NEW w \in Writers, StartWrite(w)
      PROVE  [Sequence!Next]_(Sequence!vars)
  <2>1. CASE \E x \in BOOLEAN :
               PushBack(w, x) \/ PushFront(w, x) \/ \E g \in Groups : Insert(w, g, x)
    BY <2>1, ConnectRefines
  <2>2. ~PopBack(w) /\ \A g \in Groups : ~Erase(w, g)
    BY DEF Refined, WholeClient, QueueClient, QueueOperations, ForwardClient, FrontOperations,
       GroupOperations, PopBack, Erase
  <2>3. CASE PopFront(w)
    BY <2>3, MarkRefines
  <2>4. CASE (\E n \in Node : Disconnect(w, n)) \/ Clear(w)
    BY <2>4, HiddenRefines
  <2> QED BY <1>1, <2>1, <2>2, <2>3, <2>4 DEF StartWrite
<1>2. ASSUME NEW a \in Activations, DisconnectMark(a) \/ DisconnectUnlink(a)
      PROVE  [Sequence!Next]_(Sequence!vars)
  BY <1>2, MarkRefines, HiddenRefines
<1>3. ASSUME NEW w \in Writers, PopUnlink(w) \/ ClearMark(w) \/ ClearUnlink(w)
      PROVE  [Sequence!Next]_(Sequence!vars)
  BY <1>3, MarkRefines, HiddenRefines
<1>4. \A w \in Writers : ~EraseMark(w) /\ ~EraseRelink(w)
  BY RefinedEmissions DEF EraseMark, EraseRelink
<1>5. ASSUME NEW e \in Emitters,
             \/ Emit(e) \/ CheckUsable(e) \/ TryLock(e) \/ CallSlot(e) \/ SlotThrows(e)
             \/ Advance(e) \/ EmitReturns(e)
      PROVE  [Sequence!Next]_(Sequence!vars)
  BY <1>5, BeginRefines, HiddenRefines, CallRefines, AdvanceRefines, LeaveRefines
<1>6. ASSUME NEW n \in Node, Expire(n) \/ \E d \in {-1, 1} : Block(n, d)
      PROVE  [Sequence!Next]_(Sequence!vars)
  BY <1>6, UnreadyRefines
<1>7. CASE UNCHANGED vars
  BY <1>7, HiddenRefines
<1> QED BY <1>1, <1>2, <1>3, <1>4, <1>5, <1>6, <1>7
        DEF Next, FinishWrite, EmitStep, Activations

\* A new signal is an empty sequence.
LEMMA InitRefines == Init /\ Refined => Sequence!Init
<1> SUFFICES ASSUME Init, Refined PROVE Sequence!Init
  OBVIOUS
<1>1. Known = {} /\ kind = [n \in Node |-> "none"] /\ group = [n \in Node |-> 0]
  BY DEF Init, ListInit, Known
<1>2. Live = {} /\ Gone = {} /\ Ready = {}
  BY <1>1 DEF Live, Gone, Ready
<1>3. InOrder = {}
  BY <1>2 DEF InOrder
<1>4. \A e \in Emitters : Phase(e) = "idle" /\ Seen(e) = {} /\ must[e] = {} /\ dead[e] = {}
  BY DEF Init, Phase, Seen, Activations
<1>5. dead = [e \in Emitters |-> {}]
  BY DEF Init
<1> QED BY <1>1, <1>2, <1>3, <1>4, <1>5, RefinedFacts DEF Sequence!Init

\* A signal whose list stays whole looks like one sequence of slots on which
\* every call acts at once, for any number of nodes, threads and groups.
THEOREM WholeIsSequence ==
  ASSUME PlainWords
  PROVE  Spec /\ WholeClient => ImplementsSlotSequence
<1>1. WholeClient /\ [Next]_vars => WholeClient'
  BY ApiStays DEF WholeClient, QueueClient, ForwardClient
<1>2. Init => Unmade
  BY DEF Init, ListInit, Unmade
<1>3. SafetyInvariant /\ Unmade /\ [Next]_vars => Unmade'
  BY UnmadeKept
<1>4. SafetyInvariant /\ OrderInvariant /\ ListInvariant /\ WholeClient /\ Unmade => Refined
  BY DEF Refined
<1>5. Spec /\ WholeClient => []Refined
  BY <1>1, <1>2, <1>3, <1>4, Safety, OrderHolds, ListHolds, PTL DEF Spec
<1>6. (Refined => Met = Live /\ MetBefore = InOrder)'
  BY RefinedMeets, PTL
<1>7. Refined /\ Refined' /\ [Next]_vars => [Sequence!Next]_(Sequence!vars)
  BY <1>6, StepRefines
<1> QED BY <1>5, <1>7, InitRefines, PTL DEF Spec, ImplementsSlotSequence, Sequence!Spec
=============================================================================
