------------------------ MODULE ConnectionQueueProofs ------------------------
(***************************************************************************)
(* A thread whose slots are connected at the back meets no fault, keeps no *)
(* functor for ever, and sees one sequence of slots, for every number of   *)
(* nodes, handles and nested emissions.                                    *)
(***************************************************************************)
EXTENDS ConnectionQueue, ConnectionProofs

USE DisconnectedAssumption, SlotListAssumption, SignalUnsafeAssumption, ConnectionsAssumption

-----------------------------------------------------------------------------
(* What a step does to the list                                            *)

\* What Mark writes, read through connected().
LEMMA MarkedWords ==
  ASSUME TypeOK, NEW S, Mark(S)
  PROVE  \A n \in Node : Connected(unusable'[n]) <=> n \notin S /\ Connected(unusable[n])
BY DEF Mark, Connected

\* The list is made of nodes that are known,
LEMMA ListingFacts ==
  ASSUME TypeOK, NEW L \in SUBSET Node, Listing(L)
  PROVE  /\ L \subseteq Known /\ Known \subseteq Node
         /\ head # Null => head \in L /\ tail \in L
         /\ tail # Null => head \in L /\ tail \in L
         /\ \A n \in Node : next[n] # n
<1>1. Known \subseteq Node
  BY KnownNumbers DEF TypeOK, ListTypeOK
<1>2. \A n \in Node : next[n] # n
  BY NodeNumbers DEF Listing, Current, NextPasses
<1> QED BY <1>1, <1>2, ChainEnds DEF Listing, Current

\* ... and stays what it is when nothing that it is made of changes.
LEMMA ListingStays ==
  ASSUME NEW L \in SUBSET Node, Listing(L), UNCHANGED <<linkVars, nodeVars, fault, live>>,
         \A n \in Known : Connected(unusable'[n]) <=> Connected(unusable[n])
  PROVE  Listing(L)'
BY DEF Listing, Current, Chain, NextPasses, Known, linkVars, nodeVars

\* A node is marked and unlinked.
LEMMA UnlinkedListing ==
  ASSUME TypeOK, NEW L \in SUBSET Node, Listing(L), NEW n \in L, Mark({n}),
         (\E held : UnlinkNode(n, held)) \/ (n = head /\ UnlinkFront),
         UNCHANGED <<nodeVars, live>>
  PROVE  Listing(L \ {n})'
<1>1. PICK M \in SUBSET Node : M = L \ {n}
  OBVIOUS
<1>2. UNCHANGED <<fresh, kind, extended>> /\ Known' = Known /\ Known \subseteq Node
  BY ListingFacts DEF nodeVars, Known
<1>3. /\ Chain(M)' /\ NextPasses(M)' /\ UNCHANGED fault
      /\ groupHead = Null => groupHead' = Null
  BY <1>1, <1>2, UnlinkChain DEF Listing, Current, TypeOK
<1>4. M = {m \in Known' : live' /\ Connected(unusable'[m])}
  BY <1>1, <1>2, MarkedWords DEF Listing, Current
<1> QED BY <1>1, <1>2, <1>3, <1>4 DEF Listing, Current

\* The list is emptied: by clear(), or with its signal.
LEMMA ClearedListing ==
  ASSUME TypeOK, NEW L \in SUBSET Node, Listing(L), UnlinkAll, UNCHANGED nodeVars,
         \A n \in Known : ~(live' /\ Connected(unusable'[n]))
  PROVE  Listing({})'
<1>1. Known' = Known /\ UNCHANGED <<kind, extended>>
  BY DEF nodeVars, Known
<1>2. Chain({})' /\ UNCHANGED <<next, fault>> /\ groupHead' = Null
  BY UnlinkAllChain
<1>3. NextPasses({})'
  BY <1>1, <1>2 DEF Listing, Current, NextPasses
<1> QED BY <1>1, <1>2, <1>3 DEF Listing, Current

\* A slot is connected at the back.
LEMMA PushedListing ==
  ASSUME PlainWords, TypeOK, QueueClient, NEW L \in SUBSET Node, Listing(L), live, live',
         NEW x \in BOOLEAN, PushBackUnsafe(x)
  PROVE  /\ \E M \in SUBSET Node : Listing(M)'
         /\ fresh \in Node \ Known /\ Known' = Known \cup {fresh}
<1>1. PICK n \in Node : n = fresh
  BY DEF PushBackUnsafe, MakeNode
<1>2. /\ fresh' = n + 1 /\ PushBackImpl(n) /\ extended' = extended
      /\ kind' = [kind EXCEPT ![n] = "back"]
      /\ \E word \in InitialWords : unusable' = [unusable EXCEPT ![n] = word]
  BY <1>1 DEF PushBackUnsafe, PushBackImplUnsafe, MakeNode, IsExtended, QueueClient, QueueOperations
<1>3. n \notin Known /\ Known' = Known \cup {n} /\ Known \subseteq Node
  BY <1>1, <1>2, KnownNumbers, NodeNumbers DEF Known, TypeOK, ListTypeOK
<1>4. Connected(unusable'[n]) /\ \A m \in Known : unusable'[m] = unusable[m]
  BY <1>2, <1>3 DEF PlainWords, TypeOK, ListTypeOK, NodeTypeOK
<1>5. PICK M \in SUBSET Node : M = L \cup {n}
  OBVIOUS
<1>6. Chain(M)' /\ NextPasses(M)'
  BY <1>1, <1>2, <1>5, PushBackChain DEF Listing, Current, TypeOK
<1>7. M = {m \in Known' : live' /\ Connected(unusable'[m])}
  BY <1>3, <1>4, <1>5 DEF Listing, Current
<1>8. UNCHANGED <<fault, groupHead>>
  BY <1>2 DEF PushBackImpl
<1>9. \A m \in Node : kind'[m] = IF m \in Known' THEN "back" ELSE "none"
  BY <1>2, <1>3 DEF Listing, TypeOK, ListTypeOK, NodeTypeOK
<1> QED BY <1>1, <1>2, <1>3, <1>6, <1>7, <1>8, <1>9 DEF Listing, Current

\* The chain is the set of connected slots.
LEMMA ListingCurrent ==
  ASSUME TypeOK, NEW L \in SUBSET Node, Listing(L)
  PROVE  L = Current /\ Met = Current /\ MetBefore = {p \in Current \X Current : p[1] < p[2]}
<1>1. L = {n \in L : Connected(unusable[n])}
  BY DEF Listing, Current
<1> QED BY <1>1, ChainMeets DEF Listing, TypeOK, ListTypeOK

\* Nothing of a signal that is gone can be locked.
LEMMA GoneNotAlive ==
  ASSUME TypeOK, NEW L \in SUBSET Node, Listing(L), HandlesApart, ~live
  PROVE  Alive(Held) = {}
<1>1. L = {} /\ head = Null /\ tail = Null /\ groupHead = Null
  BY ChainEnds DEF Listing, Current
<1>2. Held = {}
  BY DEF HandlesApart, Held, Depth, TypeOK, ThreadTypeOK
<1> QED BY <1>1, <1>2, ListingFacts, AliveWithin DEF Closed

\* A handle lets go of its slot.
LEMMA LetGoListing ==
  ASSUME TypeOK, OwnersLive, NEW L \in SUBSET Node, Listing(L), ~locked,
         NEW n, NEW held, held \subseteq Existing \cup {Null}, DisconnectThrough(n, held),
         live \/ n \notin Alive(held), live' = live
  PROVE  \E M \in SUBSET Node : Listing(M)'
<1>1. CASE UNCHANGED <<listVars, threadVars>>
  BY <1>1, ListingStays DEF listVars
<1>2. CASE n \in Alive(held) /\ live /\ Unhook(n, held)
  <2>1. n \in Existing
    BY <1>2, ExistingClosed DEF OwnersLive, TypeOK
  <2>2. n \in L
    BY <1>2, <2>1 DEF Listing, Current, Unhook, Existing
  <2>3. Listing(L \ {n})'
    BY <1>2, <2>2, UnlinkedListing DEF Unhook
  <2> QED BY <2>3
<1> QED BY <1>1, <1>2 DEF DisconnectThrough

\* The last slot is popped: it has a prev, or is the only one.
LEMMA PoppedBack ==
  ASSUME TypeOK, NEW L \in SUBSET Node, Listing(L), HeadHasNoPrev, PopBackUnsafe
  PROVE  /\ tail \in L /\ head \in L /\ tail # Null
         /\ UnlinkNode(tail, Held) \/ (tail = head /\ UnlinkFront)
         /\ tail # head => Locked(prev[tail], Held) = prev[tail] /\ prev[tail] \in L
         /\ tail = head => Locked(prev[tail], Held) = Null
<1> USE NodeNumbers
<1>1. "pop_back" \in api /\ tail # Null /\ UnlinkBack(Held)
  BY DEF PopBackUnsafe
<1>2. tail \in L /\ head \in L
  BY <1>1, ListingFacts
<1>3. tail # head => Locked(prev[tail], Held) = prev[tail] /\ prev[tail] \in L
  <2>1. tail # head => prev[tail] \in L
    BY <1>2 DEF Listing, Chain
  <2>2. prev[tail] \in L => Locked(prev[tail], Held) = prev[tail]
    BY ChainLocked DEF Listing, TypeOK, ListTypeOK
  <2> QED BY <2>1, <2>2
<1>4. tail = head => Locked(prev[tail], Held) = Null
  BY <1>1, <1>2 DEF HeadHasNoPrev, Locked
<1>5. UnlinkNode(tail, Held) \/ (tail = head /\ UnlinkFront)
  BY <1>1, <1>3, <1>4 DEF UnlinkNode, UnlinkBack, UnlinkFront
<1> QED BY <1>1, <1>2, <1>3, <1>4, <1>5

\* So the list stays a chain, and head without a prev.
LEMMA PoppedBackListing ==
  ASSUME TypeOK, NEW L \in SUBSET Node, Listing(L), HeadHasNoPrev, PopBackUnsafe, live' = live
  PROVE  /\ \E M \in SUBSET Node : Listing(M)'
         /\ head' \in {head, Null} /\ (head' = Null \/ prev'[head] = prev[head])
<1> USE NodeNumbers
<1>1. Mark({tail}) /\ UnlinkBack(Held) /\ UNCHANGED nodeVars
  BY DEF PopBackUnsafe
<1>2. PICK n \in L : n = tail
  BY PoppedBack
<1>3. UnlinkNode(n, Held) \/ (n = head /\ UnlinkFront)
  BY <1>2, PoppedBack
<1>4. Listing(L \ {n})'
  BY <1>1, <1>2, <1>3, UnlinkedListing
<1>5. PICK p : p = Locked(prev[tail], Held)
  OBVIOUS
<1>6. head \in L /\ (tail # head => p = prev[tail] /\ p \in L) /\ (tail = head => p = Null)
  BY <1>5, PoppedBack
<1>7. head' \in {head, Null} /\ (head' = Null \/ prev'[head] = prev[head])
  BY <1>1, <1>2, <1>5, <1>6 DEF UnlinkBack, UnlinkOnly, TypeOK, ListTypeOK, LinkTypeOK
<1> QED BY <1>4, <1>7

\* block(), unblock() and an expiry leave who is connected.
LEMMA DisturbedWords ==
  ASSUME PlainWords, TypeOK, NEW n \in Node, Expire(n) \/ \E d \in {-1, 1} : Block(n, d)
  PROVE  \A m \in Known : Connected(unusable'[m]) <=> Connected(unusable[m])
<1>1. CASE Expire(n)
  BY <1>1 DEF Expire, listVars
<1>2. CASE \E d \in {-1, 1} : Block(n, d)
  <2>1. PICK d \in {-1, 1} :
          /\ Connected(unusable[n]) /\ unusable[n] + d \in (-MaxBlock)..MaxBlock
          /\ unusable' = [unusable EXCEPT ![n] = @ + d]
    BY <1>2 DEF Block
  <2>2. Connected(unusable[n] + d)
    BY <2>1 DEF PlainWords, Connected
  <2> QED BY <2>1, <2>2, KnownNumbers DEF TypeOK, ListTypeOK, NodeTypeOK
<1> QED BY <1>1, <1>2

-----------------------------------------------------------------------------
(* What a step does to the emissions                                       *)

\* No emission gets on, and those of S need not be called any more.
Excuses(S) ==
  /\ Depth' = Depth
  /\ \A i \in 1..Depth :
       /\ frames'[i].at = frames[i].at /\ frames'[i].step = frames[i].step
       /\ frames'[i].seen = frames[i].seen /\ frames'[i].barred = frames[i].barred
       /\ frames'[i].owed = frames[i].owed \ S

\* That is what Excused does,
LEMMA ExcusedExcuses ==
  ASSUME ThreadTypeOK, NEW S, frames' = Excused(S)
  PROVE  Excuses(S)
<1>1. frames \in Seq(Frame) /\ Depth' = Depth
  BY ExcusedFrames DEF ThreadTypeOK
<1>2. ASSUME NEW i \in 1..Depth
      PROVE  /\ frames'[i].at = frames[i].at /\ frames'[i].step = frames[i].step
             /\ frames'[i].seen = frames[i].seen /\ frames'[i].barred = frames[i].barred
             /\ frames'[i].owed = frames[i].owed \ S
  <2>1. PICK f \in Frame : f = frames[i]
    BY <1>1 DEF Depth
  <2>2. frames'[i] = [f EXCEPT !.owed = @ \ S]
    BY <2>1 DEF Excused
  <2> QED BY <2>1, <2>2 DEF Frame
<1> QED BY <1>1, <1>2 DEF Excuses

\* ... and a step that does not touch the frames.
LEMMA StillExcuses ==
  ASSUME UNCHANGED frames
  PROVE  Excuses({})
BY DEF Excuses, Depth

\* What emissions owe is on the list.
LEMMA OwedListed ==
  ASSUME TypeOK, live, NEW f, InTurn(f)
  PROVE  f.owed \subseteq Current /\ Current \subseteq Known /\ Known \subseteq Node
BY KnownNumbers DEF InTurn, Callable, Usable, Connected, Current, TypeOK, ListTypeOK, DisconnectedAssumption

\* The ways before all emissions get no longer when no link leads out of a
\* set that was closed.
LEMMA WaysShrink ==
  ASSUME NEW a, \A S \in SUBSET Node : Closed(S) => Closed(S)'
  PROVE  Reach({a})' \subseteq Reach({a})
<1> SUFFICES ASSUME NEW n \in Reach({a})', NEW S \in SUBSET Node, {a} \ {Null} \subseteq S, Closed(S)
             PROVE  n \in S
  BY DEF Reach
<1> QED BY DEF Reach

\* The emissions stay in turn while others work on the list, whose connected
\* nodes L become M.
LEMMA StayInTurn ==
  ASSUME TypeOK, EmissionsInTurn, live \/ frames = <<>>,
         NEW L, L = Current, NEW M, M = Current', NEW S, Excuses(S), Known \subseteq Known',
         \A n \in L \ S : Callable(n) => Callable(n)',
         \A n \in Known : Connected(unusable'[n]) => Connected(unusable[n]),
         \A a \in Link : Reach({a})' \subseteq Reach({a}) \cup M,
         \A k \in Node \ M : next'[k] = next[k],
         \A k \in L \ M : next[k] = Null => \A m \in L \ S : m <= k
  PROVE  EmissionsInTurn'
<1> SUFFICES ASSUME NEW i \in 1..Depth PROVE InTurn(frames[i])' /\ WayEnds(frames[i])'
  BY DEF EmissionsInTurn, Excuses
<1>1. live /\ frames \in Seq(Frame)
  BY DEF TypeOK, ThreadTypeOK, Depth
<1>2. PICK f \in Frame : f = frames[i] /\ InTurn(f) /\ WayEnds(f)
  BY <1>1 DEF EmissionsInTurn, Depth
<1>3. PICK g : /\ g = frames'[i] /\ g.at = f.at /\ g.step = f.step /\ g.seen = f.seen
               /\ g.barred = f.barred /\ g.owed = f.owed \ S
  BY <1>2 DEF Excuses
<1>4. f.owed \subseteq L /\ L \subseteq Known /\ Known \subseteq Node /\ f.at \in Link
  BY <1>1, <1>2, OwedListed DEF Frame
<1>5. InTurn(g)'
  BY <1>2, <1>3, <1>4 DEF InTurn
<1>6. WayEnds(g)'
  <2> SUFFICES ASSUME NEW n \in Reach({g.at})' \ M, next'[n] = Null, NEW m \in g.owed
               PROVE  m <= n
    BY DEF WayEnds
  <2>1. n \in Reach({f.at}) /\ n \in Node /\ next[n] = Null
    BY <1>3, <1>4 DEF Reach
  <2>2. CASE n \in L
    BY <1>3, <1>4, <2>1, <2>2
  <2>3. CASE n \notin L
    BY <1>2, <1>3, <2>1, <2>3 DEF WayEnds
  <2> QED BY <2>2, <2>3
<1> QED BY <1>3, <1>5, <1>6

\* A step that touches neither links nor words.
LEMMA NothingMoves ==
  ASSUME TypeOK, EmissionsInTurn, UNCHANGED <<next, fresh, unusable, owned, live, frames>>
  PROVE  EmissionsInTurn'
BY DEF EmissionsInTurn, InTurn, WayEnds, Reach, Closed, Current, Known, Callable, Depth

\* A frame that is in turn stays so.
LEMMA StillInTurn ==
  ASSUME NEW f, InTurn(f), WayEnds(f), UNCHANGED <<next, fresh, unusable, owned, live>>
  PROVE  InTurn(f)' /\ WayEnds(f)'
BY DEF InTurn, WayEnds, Reach, Closed, Current, Known, Callable

\* A node is marked and unlinked.
LEMMA UnlinkedInTurn ==
  ASSUME TypeOK, EmissionsInTurn, live, NEW L \in SUBSET Node, Listing(L),
         NEW n \in L, Mark({n}),
         (\E held : UnlinkNode(n, held)) \/ (n = head /\ UnlinkFront),
         UNCHANGED <<nodeVars, owned, live>>
  PROVE  EmissionsInTurn'
<1>1. PICK M \in SUBSET Node : M = L \ {n}
  OBVIOUS
<1>2. Listing(M)'
  BY <1>1, UnlinkedListing
<1>3. L = Current /\ M = Current' /\ Known' = Known /\ Known \subseteq Node
  BY <1>2, ListingFacts DEF Listing, nodeVars, Known
<1>4. /\ \A S \in SUBSET Node : Closed(S) => Closed(S)'
      /\ \A k \in Node \ M : next'[k] = next[k]
      /\ next[n] = Null => n = tail
  <2>1. fresh' = fresh
    BY DEF nodeVars
  <2> QED BY <1>1, <2>1, UnlinkChain DEF Listing, TypeOK
<1>5. Excuses({n})
  BY ExcusedExcuses DEF Mark, TypeOK
<1>6. \A m \in Node : m # n => unusable'[m] = unusable[m]
  BY DEF Mark
<1>7. \A m \in L \ {n} : Callable(m) => Callable(m)'
  BY <1>6 DEF Callable
<1>8. \A m \in Known : Connected(unusable'[m]) => Connected(unusable[m])
  BY <1>3, MarkedWords
<1>9. \A a \in Link : Reach({a})' \subseteq Reach({a}) \cup M
  BY <1>4, WaysShrink
<1>10. \A k \in L \ M : next[k] = Null => \A m \in L \ {n} : m <= k
  BY <1>1, <1>4, ChainEnds DEF Listing
<1> QED BY <1>3, <1>4, <1>5, <1>7, <1>8, <1>9, <1>10, StayInTurn

\* The list is emptied by clear(): nothing is owed any more.
LEMMA ClearedInTurn ==
  ASSUME TypeOK, EmissionsInTurn, live, NEW L \in SUBSET Node, Listing(L), Mark(L), UnlinkAll,
         UNCHANGED <<nodeVars, owned, live>>
  PROVE  EmissionsInTurn'
<1>1. UNCHANGED <<next, fresh>> /\ Known' = Known /\ Known \subseteq Node
  BY ListingFacts DEF UnlinkAll, UnlinkOnly, nodeVars, Known
<1>2. \A n \in Known : ~Connected(unusable'[n])
  BY <1>1, MarkedWords DEF Listing, Current
<1>3. PICK M \in SUBSET Node : M = {}
  OBVIOUS
<1>4. L = Current /\ M = Current'
  BY <1>1, <1>2, <1>3 DEF Listing, Current
<1>5. Excuses(L)
  BY ExcusedExcuses DEF Mark, TypeOK
<1>6. \A a \in Link : Reach({a})' \subseteq Reach({a}) \cup M
  BY <1>1, WaysShrink DEF Closed
<1> QED BY <1>1, <1>2, <1>3, <1>4, <1>5, <1>6, StayInTurn

\* A slot is connected behind the others, which no emission owes.
LEMMA PushedInTurn ==
  ASSUME PlainWords, TypeOK, QueueClient, EmissionsInTurn, NEW L \in SUBSET Node, Listing(L),
         live, live', NEW x \in BOOLEAN, PushBackUnsafe(x)
  PROVE  EmissionsInTurn'
<1>1. PICK n \in Node : n = fresh /\ n \notin Known /\ Known' = Known \cup {n}
  BY PushedListing
<1>2. /\ fresh' = n + 1 /\ PushBackImpl(n) /\ UNCHANGED <<frames, owned>>
      /\ \E word \in InitialWords : unusable' = [unusable EXCEPT ![n] = word]
  BY <1>1 DEF PushBackUnsafe, PushBackImplUnsafe, MakeNode, threadVars
<1>3. \A m \in Known : unusable'[m] = unusable[m]
  BY <1>1, <1>2, KnownNumbers DEF TypeOK, ListTypeOK, NodeTypeOK
<1>4. PICK M \in SUBSET Node : M = L \cup {n}
  OBVIOUS
<1>5. L = Current /\ M = Current'
  <2>1. Connected(unusable'[n])
    BY <1>2 DEF PlainWords, TypeOK, ListTypeOK, NodeTypeOK
  <2> QED BY <1>1, <1>3, <1>4, <2>1 DEF Listing, Current
<1>6. /\ \A S \in SUBSET Node : Closed(S) => Closed(S \cup {n})'
      /\ \A k \in Node \ M : next'[k] = next[k]
  BY <1>1, <1>2, <1>4, PushBackChain DEF Listing, TypeOK
<1>7. ASSUME NEW a \in Link PROVE Reach({a})' \subseteq Reach({a}) \cup M
  <2> SUFFICES ASSUME NEW m \in Reach({a})', m # n,
                      NEW S \in SUBSET Node, {a} \ {Null} \subseteq S, Closed(S)
               PROVE  m \in S
    BY <1>4 DEF Reach
  <2>1. Closed(S \cup {n})' /\ S \cup {n} \in SUBSET Node
    BY <1>6
  <2> QED BY <2>1 DEF Reach
<1>8. Excuses({})
  BY <1>2, StillExcuses
<1>9. /\ \A m \in L : Callable(m) => Callable(m)'
      /\ \A m \in Known : Connected(unusable'[m]) => Connected(unusable[m])
      /\ \A k \in L \ M : FALSE
  BY <1>2, <1>3, <1>4, <1>5 DEF Callable, Current
<1> QED BY <1>1, <1>5, <1>6, <1>7, <1>8, <1>9, StayInTurn

\* block(), unblock() and an expiry: who cannot be called is not owed.
LEMMA DisturbedInTurn ==
  ASSUME TypeOK, EmissionsInTurn, live \/ frames = <<>>, NEW n \in Node,
         Expire(n) \/ \E d \in {-1, 1} : Block(n, d), UNCHANGED live,
         \A m \in Known : Connected(unusable'[m]) <=> Connected(unusable[m])
  PROVE  EmissionsInTurn'
<1>1. UNCHANGED <<linkVars, nodeVars>> /\ Known' = Known /\ Known \subseteq Node
  BY KnownNumbers DEF Expire, Block, listVars, nodeVars, Known, TypeOK, ListTypeOK
<1>2. Current' = Current /\ Current \subseteq Known
  BY <1>1 DEF Current
<1>3. \E S : /\ frames' = Excused(S)
             /\ \A m \in Known \ S : Callable(m) => Callable(m)'
  <2>1. CASE Expire(n)
    <3>1. frames' = Excused({n}) /\ owned' = owned \ {n} /\ unusable' = unusable
      BY <2>1 DEF Expire, listVars
    <3>2. \A m \in Known \ {n} : Callable(m) => Callable(m)'
      BY <3>1 DEF Callable
    <3> QED BY <3>1, <3>2
  <2>2. CASE \E d \in {-1, 1} : Block(n, d)
    <3>1. PICK d \in {-1, 1} :
            /\ unusable' = [unusable EXCEPT ![n] = @ + d] /\ owned' = owned
            /\ frames' = Excused(IF Usable(unusable[n] + d) THEN {} ELSE {n})
      BY <2>2 DEF Block
    <3>2. PICK S : S = IF Usable(unusable[n] + d) THEN {} ELSE {n}
      OBVIOUS
    <3>3. \A m \in Known \ S : Usable(unusable[m]) => Usable(unusable'[m])
      BY <1>1, <3>1, <3>2 DEF TypeOK, ListTypeOK, NodeTypeOK
    <3>4. \A m \in Known \ S : Callable(m) => Callable(m)'
      BY <3>1, <3>3 DEF Callable
    <3> QED BY <3>1, <3>2, <3>4
  <2> QED BY <2>1, <2>2
<1>4. PICK S : Excuses(S) /\ \A m \in Known \ S : Callable(m) => Callable(m)'
  BY <1>3, ExcusedExcuses DEF TypeOK
<1>5. PICK L : L = Current
  OBVIOUS
<1>6. \A a \in Link : Reach({a})' \subseteq Reach({a}) \cup L
  BY <1>1, WaysShrink DEF linkVars, Closed
<1>7. UNCHANGED next
  BY <1>1 DEF linkVars
<1> QED BY <1>1, <1>2, <1>4, <1>5, <1>6, <1>7, StayInTurn

\* An emission goes on from a node that it need not call any more: it passes
\* over nothing that it owes, and where its way ends nothing is left.
LEMMA GoesOn ==
  ASSUME TypeOK, live, NEW L \in SUBSET Node, Listing(L), NEW t \in Frame, InTurn(t), WayEnds(t),
         t.at \in Known, \A n \in t.seen : n <= t.at, \A n \in t.owed : t.at < n,
         NEW f, f = GoneTo(t, next[t.at])
  PROVE  /\ InTurn(f) /\ WayEnds(f) /\ f.seen = t.seen /\ f.owed = t.owed /\ f.barred = t.barred
         /\ f.step = IF next[t.at] = Null THEN "done" ELSE "walk"
<1> USE NodeNumbers
<1>1. PICK q \in Link : q = next[t.at]
  BY ListingFacts DEF TypeOK, ListTypeOK, LinkTypeOK
<1>2. /\ f = [t EXCEPT !.at = q, !.step = IF q = Null THEN "done" ELSE "walk"]
      /\ f.at = q /\ f.step = (IF q = Null THEN "done" ELSE "walk")
      /\ f.seen = t.seen /\ f.owed = t.owed /\ f.barred = t.barred
  BY <1>1 DEF GoneTo, Frame
<1>3. t.owed \subseteq L /\ L \subseteq Node /\ Known \subseteq Node /\ t.seen \subseteq Known
  BY OwedListed, ListingFacts DEF Listing, InTurn
<1>4. ASSUME q = Null PROVE t.owed = {}
  <2>1. \A m \in t.owed : m <= t.at
    <3>1. CASE t.at \in L
      <4>1. t.at = tail
        BY <1>1, <1>4, <3>1, ChainNext DEF Listing
      <4> QED BY <1>3, <4>1, ChainEnds DEF Listing
    <3>2. CASE t.at \notin L
      <4>1. t.at \in Reach({t.at})
        BY <1>3, ReachRoots
      <4> QED BY <1>1, <1>4, <3>2, <4>1 DEF WayEnds, Listing
    <3> QED BY <3>1, <3>2
  <2>2. \A m \in t.owed : m \in Nat /\ t.at \in Nat
    BY <1>3
  <2> QED BY <2>1, <2>2
<1>5. ASSUME q # Null
      PROVE  (\A n \in t.seen : n < q) /\ (\A n \in t.owed : q <= n)
  <2>1. t.at < q /\ t.at \in Nat /\ q \in Nat /\ \A m \in L : m <= t.at \/ q <= m
    BY <1>1, <1>3, <1>5 DEF Listing, NextPasses
  <2>2. \A n \in t.seen : n \in Nat /\ n <= t.at
    BY <1>3
  <2>3. \A n \in t.owed : n \in Nat /\ t.at < n /\ n \in L
    BY <1>3
  <2> QED BY <2>1, <2>2, <2>3
<1>6. InTurn(f)
  BY <1>2, <1>4, <1>5 DEF InTurn
<1>7. Reach({q}) \subseteq Reach({t.at})
  <2> SUFFICES ASSUME NEW n \in Reach({q}), NEW S \in SUBSET Node, t.at \in S, Closed(S)
               PROVE  n \in S
    BY <1>3 DEF Reach
  <2>1. {q} \ {Null} \subseteq S
    BY <1>1 DEF Closed
  <2> QED BY <2>1 DEF Reach
<1>8. WayEnds(f)
  BY <1>2, <1>7 DEF WayEnds
<1> QED BY <1>1, <1>2, <1>6, <1>8

\* The frame that goes on, of an emission that skips a node or comes back
\* from a slot.
LEMMA TopGoesOn ==
  ASSUME TypeOK, OwnersLive, EmissionsInTurn, live, NEW L \in SUBSET Node, Listing(L), Skip \/ Return
  PROVE  \E f \in Frame :
           /\ SetTop(f) /\ InTurn(f) /\ WayEnds(f)
           /\ f.seen = Top.seen /\ f.owed = Top.owed /\ f.barred = Top.barred
           /\ f.step = IF next[Top.at] = Null THEN "done" ELSE "walk"
<1>1. frames # <<>> /\ Top.step # "done" /\ UnsafeTypeOK
  BY DEF Skip, Walking, Return, Control, TypeOK, UnsafeTypeOK
<1>2. PICK t \in Frame : t = Top /\ t.at \in Node /\ t.at \in Known
  BY <1>1, TopOnNode, NodeNumbers DEF OwnersLive, Existing
<1>3. InTurn(t) /\ WayEnds(t)
  <2>1. Depth \in 1..Depth
    BY <1>1 DEF TypeOK, ThreadTypeOK, Depth
  <2> QED BY <1>2, <2>1 DEF EmissionsInTurn, Top
<1>4. t.owed \subseteq Node /\ t.seen \subseteq Node
  BY DEF Frame
<1>5. (\A n \in t.seen : n <= t.at) /\ (\A n \in t.owed : t.at < n)
  <2>1. CASE Return
    BY <1>2, <1>3, <2>1 DEF Return, Control, InTurn
  <2>2. CASE Skip
    <3>1. t.step = "walk" /\ t.at \notin t.owed
      BY <1>2, <1>3, <2>2 DEF Skip, Walking, InTurn, Callable
    <3>2. \A n \in t.seen \cup t.owed : n \in Nat /\ t.at \in Nat
      BY <1>2, <1>4, NodeNumbers
    <3>3. (\A n \in t.seen : n < t.at) /\ (\A n \in t.owed : t.at <= n)
      BY <1>3, <3>1 DEF InTurn
    <3> QED BY <3>1, <3>2, <3>3
  <2> QED BY <2>1, <2>2
<1>6. PICK f : f = GoneTo(Top, next[Top.at])
  OBVIOUS
<1>7. f \in Frame /\ SetTop(f)
  BY <1>1, <1>6, GoneToFrame DEF Skip, Return
<1> QED BY <1>2, <1>3, <1>5, <1>6, <1>7, GoesOn

\* The innermost emission moves.
LEMMA TopInTurn ==
  ASSUME TypeOK, EmissionsInTurn, frames # <<>>, NEW f \in Frame, SetTop(f), InTurn(f), WayEnds(f),
         UNCHANGED <<next, fresh, unusable, owned, live>>
  PROVE  EmissionsInTurn'
<1>1. /\ Depth' = Depth
      /\ \A i \in 1..Depth : frames'[i] = IF i = Depth THEN f ELSE frames[i]
  BY TopFrame DEF TypeOK
<1> SUFFICES ASSUME NEW i \in 1..Depth PROVE InTurn(frames[i])' /\ WayEnds(frames[i])'
  BY <1>1 DEF EmissionsInTurn
<1>2. PICK g : g = IF i = Depth THEN f ELSE frames[i]
  OBVIOUS
<1>3. InTurn(g) /\ WayEnds(g)
  BY <1>2 DEF EmissionsInTurn
<1> QED BY <1>1, <1>2, <1>3, StillInTurn

\* A slot is called in its turn.
LEMMA EnteredInTurn ==
  ASSUME TypeOK, EmissionsInTurn, Enter, OwnersLive, UNCHANGED live
  PROVE  EmissionsInTurn'
<1>1. frames # <<>> /\ Top.step = "walk" /\ UnsafeTypeOK
  BY DEF Enter, Walking, TypeOK, UnsafeTypeOK
<1>2. PICK t \in Frame : t = Top /\ t.at \in Node /\ t.at \in Known
  BY <1>1, TopOnNode, NodeNumbers DEF OwnersLive, Existing
<1>3. InTurn(t) /\ WayEnds(t)
  <2>1. Depth \in 1..Depth
    BY <1>1 DEF TypeOK, ThreadTypeOK, Depth
  <2> QED BY <1>2, <2>1 DEF EmissionsInTurn, Top
<1>4. PICK f : f = [t EXCEPT !.step = "call", !.seen = @ \cup {t.at}, !.owed = @ \ {t.at}]
  OBVIOUS
<1>5. /\ f \in Frame /\ f.at = t.at /\ f.step = "call" /\ f.barred = t.barred
      /\ f.seen = t.seen \cup {t.at} /\ f.owed = t.owed \ {t.at}
  BY <1>2, <1>4 DEF Frame
<1>6. /\ (\A n \in t.seen : n < t.at) /\ (\A n \in t.owed : t.at <= n)
      /\ \A n \in t.seen \cup t.owed \cup {t.at} : n \in Nat
  BY <1>1, <1>2, <1>3, NodeNumbers DEF InTurn, Frame
<1>7. InTurn(f)
  <2>1. (\A n \in f.seen : n <= f.at) /\ (\A n \in f.owed : f.at < n)
    BY <1>5, <1>6
  <2> QED BY <1>2, <1>3, <1>5, <2>1 DEF InTurn
<1>8. WayEnds(f)
  BY <1>3, <1>5 DEF WayEnds
<1>9. SetTop(f)
  BY <1>2, <1>4 DEF Enter
<1>10. UNCHANGED <<next, fresh, unusable, owned>>
  BY DEF Enter, linkVars, nodeVars
<1> QED BY <1>1, <1>5, <1>7, <1>8, <1>9, <1>10, TopInTurn

\* An emission begins at head: it owes what is on its way.
LEMMA BegunInTurn ==
  ASSUME TypeOK, EmissionsInTurn, live, NEW L \in SUBSET Node, Listing(L), EmitUnsafe, UNCHANGED live
  PROVE  EmissionsInTurn'
<1>1. Known \subseteq Node /\ head \in L /\ UNCHANGED <<next, fresh, unusable, owned>>
  BY ListingFacts DEF EmitUnsafe, listVars, linkVars, nodeVars
<1>2. PICK f : f = [at |-> head, step |-> "walk", seen |-> {},
                    owed |-> {n \in Known : Callable(n)},
                    barred |-> {n \in Known : ~Connected(unusable[n])}]
  OBVIOUS
<1>3. /\ f \in Frame /\ f.at = head /\ f.step = "walk" /\ f.seen = {}
      /\ f.owed = {n \in Known : Callable(n)} /\ f.barred = {n \in Known : ~Connected(unusable[n])}
  BY <1>1, <1>2 DEF Frame, Link
<1>4. f.owed \subseteq L
  BY <1>3 DEF Callable, Usable, Connected, Listing, Current
<1>5. InTurn(f)
  <2>1. \A n \in f.owed : head <= n
    BY <1>4, ChainEnds DEF Listing
  <2> QED BY <1>3, <2>1 DEF InTurn
<1>6. WayEnds(f)
  <2>1. Reach({head}) = L
    BY ChainIsListed DEF Listed, Listing, TypeOK, ListTypeOK
  <2> QED BY <1>3, <2>1 DEF WayEnds, Listing
<1>7. frames' = Append(frames, f)
  BY <1>2 DEF EmitUnsafe
<1>8. /\ Depth' = Depth + 1 /\ \A i \in 1..Depth : frames'[i] = frames[i]
      /\ frames'[Depth + 1] = f
  BY <1>3, <1>7, PushedFrame DEF TypeOK
<1> SUFFICES ASSUME NEW i \in 1..(Depth + 1) PROVE InTurn(frames[i])' /\ WayEnds(frames[i])'
  BY <1>8 DEF EmissionsInTurn
<1>9. i \in 1..Depth \/ i = Depth + 1
  BY DEF TypeOK, ThreadTypeOK, Depth
<1>10. PICK g : g = frames'[i] /\ InTurn(g) /\ WayEnds(g)
  BY <1>5, <1>6, <1>8, <1>9 DEF EmissionsInTurn
<1> QED BY <1>1, <1>10, StillInTurn

\* An emission ends.
LEMMA LeftInTurn ==
  ASSUME TypeOK, EmissionsInTurn, EmitReturns \/ SlotThrows, UNCHANGED live
  PROVE  EmissionsInTurn'
<1>1. frames # <<>> /\ Pop /\ UNCHANGED <<next, fresh, unusable, owned>>
  BY DEF EmitReturns, SlotThrows, listVars, linkVars, nodeVars
<1>2. Depth' = Depth - 1 /\ Depth > 0 /\ \A i \in 1..(Depth - 1) : frames'[i] = frames[i]
  BY <1>1, PoppedFrame DEF TypeOK
<1> SUFFICES ASSUME NEW i \in 1..(Depth - 1) PROVE InTurn(frames[i])' /\ WayEnds(frames[i])'
  BY <1>2 DEF EmissionsInTurn
<1>3. i \in 1..Depth
  BY DEF TypeOK, ThreadTypeOK, Depth
<1>4. PICK g : g = frames'[i] /\ InTurn(g) /\ WayEnds(g)
  BY <1>2, <1>3 DEF EmissionsInTurn
<1> QED BY <1>1, <1>4, StillInTurn

\* A handle lets go of its slot.
LEMMA LetGoInTurn ==
  ASSUME TypeOK, OwnersLive, EmissionsInTurn, NEW L \in SUBSET Node, Listing(L), ~locked,
         NEW n, NEW held, held \subseteq Existing \cup {Null}, DisconnectThrough(n, held),
         live \/ n \notin Alive(held), live' = live
  PROVE  EmissionsInTurn'
<1>1. CASE UNCHANGED <<listVars, threadVars>>
  BY <1>1, NothingMoves DEF listVars, linkVars, nodeVars, threadVars
<1>2. CASE n \in Alive(held) /\ live /\ Unhook(n, held)
  <2>1. n \in Existing
    BY <1>2, ExistingClosed DEF OwnersLive, TypeOK
  <2>2. n \in L
    BY <1>2, <2>1 DEF Listing, Current, Unhook, Existing
  <2> QED BY <1>2, <2>2, UnlinkedInTurn DEF Unhook
<1> QED BY <1>1, <1>2 DEF DisconnectThrough

-----------------------------------------------------------------------------
(* Every step                                                              *)

\* What a step leaves of the conditions that say nothing of the list.
LEMMA HeadKept ==
  ASSUME HeadHasNoPrev, api' = api, "pop_back" \in api => UNCHANGED <<head, prev, fresh, owned>>
  PROVE  HeadHasNoPrev'
BY DEF HeadHasNoPrev, Known

\* Every step a client of a queue can take.
LEMMA NextQueue ==
  ASSUME PlainWords, TypeOK, OwnersLive, QueueClient, NEW L \in SUBSET Node, Listing(L),
         HeadHasNoPrev, HandlesApart, Next
  PROVE  (\E M \in SUBSET Node : Listing(M)') /\ HeadHasNoPrev' /\ HandlesApart'
<1> USE NodeNumbers
<1>a. api' = api
  BY NextRuns
<1>t. UnsafeTypeOK
  BY DEF TypeOK, UnsafeTypeOK
<1>e. Held \subseteq Existing \cup {Null} /\ HeldYet \subseteq Existing \cup {Null}
  BY HeldYetExists DEF OwnersLive
<1>s. Settled => ~locked
  BY DEF HandlesApart
<1>1. ASSUME NEW h \in Scoped, FunctorDrops(h)
      PROVE  (\E M \in SUBSET Node : Listing(M)') /\ HeadHasNoPrev' /\ HandlesApart'
  <2>1. home[h] # Null
    BY <1>1, KnownNumbers DEF FunctorDrops, Dying, Doomed, TypeOK, ListTypeOK
  <2>2. "own" \in api /\ live /\ ~locked /\ "pop_back" \notin api
    BY <2>1 DEF HandlesApart, QueueClient
  <2>3. UNCHANGED <<live, locked>>
    BY <1>1 DEF FunctorDrops
  <2>5. DisconnectThrough(holds[h], HeldYet)
    BY <1>1, NoneAssignedDies DEF QueueClient, QueueOperations
  <2>4. \E M \in SUBSET Node : Listing(M)'
    BY <1>1, <1>e, <2>2, <2>3, <2>5, LetGoListing
  <2> QED BY <1>a, <2>2, <2>3, <2>4, <2>5, HeadKept DEF HandlesApart
<1>2. ASSUME NEW n \in Node, Bury(n)
      PROVE  (\E M \in SUBSET Node : Listing(M)') /\ HeadHasNoPrev' /\ HandlesApart'
  <2>1. /\ UNCHANGED <<listVars, threadVars, live, home>> /\ locked' = (locked /\ Doomed' # {})
    BY <1>2 DEF Bury, Locks
  <2>2. Listing(L)' /\ HeadHasNoPrev'
    BY <1>a, <2>1, ListingStays, HeadKept DEF listVars, linkVars, nodeVars, threadVars
  <2> QED BY <2>1, <2>2 DEF HandlesApart, Settled, threadVars
<1>3. CASE Settled /\ Connect
  <2>1. PICK x \in BOOLEAN : PushBackUnsafe(x)
    BY <1>3 DEF Connect, PushFrontUnsafe, InsertUnsafe, QueueClient, QueueOperations
  <2>2. live /\ live' = live /\ locked' = FALSE /\ UNCHANGED <<frames, owned>>
    BY <1>3, <2>1 DEF Connect, PushBackUnsafe, threadVars
  <2>3. \E M \in SUBSET Node : Listing(M)'
    BY <2>1, <2>2, PushedListing
  <2>4. HeadHasNoPrev'
    <3> SUFFICES ASSUME "pop_back" \in api'
                 PROVE  /\ head' # Null => prev'[head'] = Null
                        /\ \A n \in Node \ Known' : prev'[n] = Null
                        /\ owned' = Node
      BY DEF HeadHasNoPrev
    <3>1. /\ head # Null => prev[head] = Null /\ head \in Known
          /\ \A n \in Node \ Known : prev[n] = Null
          /\ owned' = Node
      BY <1>a, <2>2, ListingFacts DEF HeadHasNoPrev
    <3>2. fresh \in Node \ Known /\ Known' = Known \cup {fresh}
      BY <2>1, <2>2, PushedListing
    <3>3. \/ head' = fresh /\ prev' = prev
          \/ head' = head /\ prev' = [prev EXCEPT ![fresh] = tail]
      BY <2>1 DEF PushBackUnsafe, PushBackImplUnsafe, PushBackImpl
    <3> QED BY <3>1, <3>2, <3>3 DEF TypeOK, ListTypeOK, LinkTypeOK
  <2>5. "own" \notin api => home' = home
    BY <1>3 DEF Connect, Own
  <2> QED BY <1>a, <2>2, <2>3, <2>4, <2>5 DEF HandlesApart
<1>4. CASE Settled /\ DisconnectSlot
  <2>1. PICK n \in Node : n \in Known /\ Unhook(n, Held) /\ "disconnect" \in api
    BY <1>4 DEF DisconnectSlot, DisconnectUnsafe
  <2>2. live /\ UNCHANGED <<live, home>> /\ locked' = FALSE
    BY <1>4 DEF DisconnectSlot, handleVars
  <2>3. n \in L
    BY <2>1, <2>2 DEF Listing, Current, Unhook
  <2>4. Listing(L \ {n})'
    BY <2>1, <2>2, <2>3, UnlinkedListing DEF Unhook
  <2>5. HeadHasNoPrev'
    BY <1>a, <2>1, HeadKept DEF QueueClient
  <2> QED BY <1>a, <2>2, <2>4, <2>5 DEF HandlesApart
<1>5. ASSUME Settled, NEW l \in BOOLEAN, RemoveSlots(l)
      PROVE  (\E M \in SUBSET Node : Listing(M)') /\ HeadHasNoPrev' /\ HandlesApart'
  <2>1. live /\ UNCHANGED <<live, home, nodeVars, owned>> /\ locked' = (l /\ Doomed' # {})
    BY <1>5 DEF RemoveSlots, Locks, handleVars, PopBackUnsafe, PopFrontUnsafe, ClearUnsafe, EraseUnsafe
  <2>2. HandlesApart'
    <3>1. "own" \in api => ~l
      BY <1>5 DEF RemoveSlots, Variant, PopBackUnsafe, PopFrontUnsafe, ClearUnsafe, EraseUnsafe,
         QueueClient, QueueOperations
    <3> QED BY <1>a, <2>1, <3>1 DEF HandlesApart, Settled
  <2>3. CASE PopBackUnsafe
    <3>1. /\ \E M \in SUBSET Node : Listing(M)'
          /\ head' \in {head, Null} /\ (head' = Null \/ prev'[head] = prev[head])
      BY <2>1, <2>3, PoppedBackListing
    <3>2. \A n \in Node \ Known : prev[n] = Null => prev'[n] = Null
      BY <2>3 DEF PopBackUnsafe, UnlinkBack, UnlinkOnly, TypeOK, ListTypeOK, LinkTypeOK
    <3>3. HeadHasNoPrev'
      BY <1>a, <2>1, <3>1, <3>2 DEF HeadHasNoPrev, nodeVars, Known
    <3> QED BY <2>2, <3>1, <3>3
  <2>4. CASE PopFrontUnsafe
    <3>1. PICK n \in L : n = head /\ "pop_front" \in api /\ Mark({n}) /\ UnlinkFront
      BY <2>4, ListingFacts DEF PopFrontUnsafe
    <3>2. Listing(L \ {n})'
      BY <2>1, <3>1, UnlinkedListing
    <3>3. HeadHasNoPrev'
      BY <1>a, <3>1, HeadKept DEF QueueClient
    <3> QED BY <2>2, <3>2, <3>3
  <2>5. CASE ClearUnsafe
    <3>1. Mark(Listed) /\ UnlinkAll /\ Listed = L
      BY <2>5, ChainIsListed DEF ClearUnsafe, Listing, TypeOK, ListTypeOK
    <3>2. \A n \in Known : ~Connected(unusable'[n])
      <4>1. \A n \in Known : Connected(unusable[n]) => n \in L
        BY <2>1 DEF Listing, Current
      <4>2. Known \subseteq Node
        BY KnownNumbers DEF TypeOK, ListTypeOK
      <4> QED BY <3>1, <4>1, <4>2, MarkedWords
    <3>3. Listing({})'
      BY <2>1, <3>1, <3>2, ClearedListing
    <3>4. HeadHasNoPrev'
      BY <1>a, <2>1, <3>1 DEF HeadHasNoPrev, UnlinkAll, UnlinkOnly, nodeVars, Known
    <3> QED BY <2>2, <3>3, <3>4
  <2>6. ~\E g \in Groups : EraseUnsafe(g)
    BY DEF EraseUnsafe, QueueClient, QueueOperations
  <2>7. PopBackUnsafe \/ PopFrontUnsafe \/ ClearUnsafe
    BY <1>5, <2>6 DEF RemoveSlots
  <2> QED BY <2>3, <2>4, <2>5, <2>7
<1>6. CASE Settled /\ Disturb
  <2>1. UNCHANGED <<linkVars, nodeVars, fault, live, home, locked>>
    BY <1>6 DEF Disturb, Expire, Block, listVars, handleVars
  <2>2. \A n \in Known : Connected(unusable'[n]) <=> Connected(unusable[n])
    BY <1>6, DisturbedWords DEF Disturb
  <2>3. frames = <<>> => frames' = <<>>
    <3>1. \E S : frames' = Excused(S)
      BY <1>6 DEF Disturb, Expire, Block
    <3>2. frames' \in Seq(Frame) /\ Len(frames') = Len(frames)
      BY <3>1, ExcusedFrames DEF TypeOK, Depth
    <3> QED BY <3>2
  <2>4. HeadHasNoPrev'
    <3>1. "expire" \notin api => owned' = owned
      BY <1>6 DEF Disturb, Expire, Block
    <3> QED BY <1>a, <2>1, <3>1, HeadKept DEF linkVars, nodeVars, QueueClient
  <2> QED BY <1>6, <1>a, <1>s, <2>1, <2>2, <2>3, <2>4, ListingStays DEF HandlesApart
<1>7. CASE Settled /\ EmissionStep
  <2>1. live /\ UNCHANGED <<live, home, locked>>
    BY <1>7 DEF EmissionStep, handleVars
  <2>2. HandlesApart'
    BY <1>7, <1>a, <1>s, <2>1 DEF HandlesApart
  <2>3. CASE AutoDisconnect
    <3>1. PICK n : n = Top.at
      OBVIOUS
    <3>2. n \in Node /\ n \in Held /\ n \in Known
      BY <1>t, <1>e, <2>3, <3>1, TopOnNode DEF AutoDisconnect, Walking, Existing
    <3>3. Unhook(n, Held) /\ n \notin owned
      BY <2>3, <3>1 DEF AutoDisconnect, Lockable
    <3>4. n \in L
      BY <2>1, <3>2, <3>3 DEF Listing, Current, Unhook
    <3>5. Listing(L \ {n})'
      BY <2>1, <3>3, <3>4, UnlinkedListing DEF Unhook
    <3>6. HeadHasNoPrev'
      BY <1>a, <3>2, <3>3, HeadKept DEF HeadHasNoPrev
    <3> QED BY <2>2, <3>5, <3>6
  <2>4. CASE EmitUnsafe \/ Skip \/ Enter \/ Return \/ EmitReturns \/ SlotThrows
    <3>1. UNCHANGED <<linkVars, nodeVars, unusable, owned>>
      BY <1>t, <2>4, EmissionTyped
    <3>2. fault' = fault
      BY <2>4 DEF EmitUnsafe, Skip, Enter, Return, EmitReturns, SlotThrows, listVars, Listing
    <3>3. Listing(L)'
      BY <2>1, <3>1, <3>2, ListingStays
    <3>4. HeadHasNoPrev'
      BY <1>a, <3>1, HeadKept DEF linkVars, nodeVars
    <3> QED BY <2>2, <3>3, <3>4
  <2> QED BY <1>7, <2>3, <2>4 DEF EmissionStep, Emission
<1>8. CASE Settled /\ DestroySignal
  <2>1. /\ live' = FALSE /\ frames = <<>> /\ "destroy_signal" \in api /\ UnlinkAll
        /\ UNCHANGED <<nodeVars, frames, owned, home, locked>>
    BY <1>8 DEF DestroySignal, threadVars, handleVars
  <2>2. Listing({})'
    BY <2>1, ClearedListing
  <2>3. HeadHasNoPrev'
    BY <1>a, <2>1 DEF HeadHasNoPrev, UnlinkAll, UnlinkOnly, nodeVars, Known
  <2>4. HandlesApart'
    BY <1>8, <1>a, <1>s, <2>1 DEF HandlesApart, QueueClient
  <2> QED BY <2>2, <2>3, <2>4
<1>9. ASSUME Settled, NEW h \in Scoped,
             DestroyScoped(h) \/ \E n \in Link : AssignScoped(h, n)
      PROVE  (\E M \in SUBSET Node : Listing(M)') /\ HeadHasNoPrev' /\ HandlesApart'
  <2>1. /\ "scoped" \in api /\ DisconnectThrough(holds[h], Held)
        /\ UNCHANGED <<live, home, locked>>
    BY <1>9 DEF DestroyScoped, AssignScoped, UsesScoped
  <2>2. live \/ holds[h] \notin Alive(Held)
    BY GoneNotAlive
  <2>3. \E M \in SUBSET Node : Listing(M)'
    BY <1>9, <1>e, <1>s, <2>1, <2>2, LetGoListing
  <2>4. HeadHasNoPrev'
    BY <1>a, <2>1, HeadKept DEF QueueClient
  <2>5. ~live => frames' = <<>>
    <3>1. ~live => UNCHANGED threadVars
      BY <2>1, <2>2 DEF DisconnectThrough
    <3> QED BY <3>1 DEF HandlesApart, threadVars
  <2> QED BY <1>9, <1>a, <1>s, <2>1, <2>3, <2>4, <2>5 DEF HandlesApart
<1>10. ASSUME Settled, NEW h \in Scoped, Release(h) \/ \E k \in Scoped \ {h} : CopyScoped(h, k)
       PROVE  (\E M \in SUBSET Node : Listing(M)') /\ HeadHasNoPrev' /\ HandlesApart'
  <2>1. UNCHANGED <<listVars, threadVars, live, home, locked>>
    BY <1>10 DEF Release, CopyScoped
  <2>2. Listing(L)' /\ HeadHasNoPrev'
    BY <1>a, <2>1, ListingStays, HeadKept DEF listVars, linkVars, nodeVars, threadVars
  <2> QED BY <1>10, <1>a, <1>s, <2>1, <2>2 DEF HandlesApart, threadVars
<1>11. ASSUME Settled, NEW h \in Scoped, NEW n \in Link, TakeOver(h, n)
       PROVE  (\E M \in SUBSET Node : Listing(M)') /\ HeadHasNoPrev' /\ HandlesApart'
  <2>1. UNCHANGED <<listVars, threadVars, live, home, locked>>
    BY <1>11 DEF TakeOver
  <2>2. Listing(L)' /\ HeadHasNoPrev'
    BY <1>a, <2>1, ListingStays, HeadKept DEF listVars, linkVars, nodeVars, threadVars
  <2> QED BY <1>11, <1>a, <1>s, <2>1, <2>2 DEF HandlesApart, threadVars
<1> QED BY <1>1, <1>2, <1>3, <1>4, <1>5, <1>6, <1>7, <1>8, <1>9, <1>10, <1>11 DEF Next, ScopedStep

\* The emissions of such a client stay in turn.
LEMMA NextInTurn ==
  ASSUME PlainWords, TypeOK, OwnersLive, QueueClient, NEW L \in SUBSET Node, Listing(L),
         HeadHasNoPrev, HandlesApart, EmissionsInTurn, Next
  PROVE  EmissionsInTurn'
<1>t. UnsafeTypeOK
  BY DEF TypeOK, UnsafeTypeOK
<1>e. Held \subseteq Existing \cup {Null} /\ HeldYet \subseteq Existing \cup {Null}
  BY HeldYetExists DEF OwnersLive
<1>s. Settled => ~locked
  BY DEF HandlesApart
<1>l. live \/ frames = <<>>
  BY DEF HandlesApart
<1>1. ASSUME NEW h \in Scoped, FunctorDrops(h)
      PROVE  EmissionsInTurn'
  <2>1. home[h] # Null
    BY <1>1, KnownNumbers, NodeNumbers DEF FunctorDrops, Dying, Doomed, TypeOK, ListTypeOK
  <2>2. live /\ ~locked /\ live' = live /\ DisconnectThrough(holds[h], HeldYet)
    BY <1>1, <2>1, NoneAssignedDies DEF HandlesApart, FunctorDrops, QueueClient, QueueOperations
  <2> QED BY <1>e, <2>2, LetGoInTurn
<1>2. ASSUME NEW n \in Node, Bury(n)
      PROVE  EmissionsInTurn'
  BY <1>2, NothingMoves DEF Bury, listVars, linkVars, nodeVars, threadVars
<1>3. CASE Settled /\ Connect
  <2>1. PICK x \in BOOLEAN : PushBackUnsafe(x)
    BY <1>3 DEF Connect, PushFrontUnsafe, InsertUnsafe, QueueClient, QueueOperations
  <2>2. live /\ live'
    BY <1>3 DEF Connect
  <2> QED BY <2>1, <2>2, PushedInTurn
<1>4. CASE Settled /\ DisconnectSlot
  <2>1. PICK n \in Node : n \in Known /\ Unhook(n, Held)
    BY <1>4 DEF DisconnectSlot, DisconnectUnsafe
  <2>2. live /\ live' = live
    BY <1>4 DEF DisconnectSlot
  <2>3. n \in L
    BY <2>1, <2>2 DEF Listing, Current, Unhook
  <2> QED BY <2>1, <2>2, <2>3, UnlinkedInTurn DEF Unhook
<1>5. ASSUME Settled, NEW l \in BOOLEAN, RemoveSlots(l)
      PROVE  EmissionsInTurn'
  <2>1. live /\ live' = live
    BY <1>5 DEF RemoveSlots
  <2>2. CASE PopBackUnsafe
    <3>1. PICK n \in L : /\ n = tail /\ Mark({n}) /\ UNCHANGED <<nodeVars, owned>>
                         /\ UnlinkNode(n, Held) \/ (n = head /\ UnlinkFront)
      BY <2>2, PoppedBack DEF PopBackUnsafe
    <3> QED BY <2>1, <3>1, UnlinkedInTurn
  <2>3. CASE PopFrontUnsafe
    <3>1. PICK n \in L : n = head /\ Mark({n}) /\ UnlinkFront /\ UNCHANGED <<nodeVars, owned>>
      BY <2>3, ListingFacts DEF PopFrontUnsafe
    <3> QED BY <2>1, <3>1, UnlinkedInTurn
  <2>4. CASE ClearUnsafe
    <3>1. Mark(L) /\ UnlinkAll /\ UNCHANGED <<nodeVars, owned>>
      BY <2>4, ChainIsListed DEF ClearUnsafe, Listing, TypeOK, ListTypeOK
    <3> QED BY <2>1, <3>1, ClearedInTurn
  <2>5. ~\E g \in Groups : EraseUnsafe(g)
    BY DEF EraseUnsafe, QueueClient, QueueOperations
  <2> QED BY <1>5, <2>2, <2>3, <2>4, <2>5 DEF RemoveSlots
<1>6. CASE Settled /\ Disturb
  <2>1. PICK n \in Node : Expire(n) \/ \E d \in {-1, 1} : Block(n, d)
    BY <1>6 DEF Disturb
  <2>2. \A m \in Known : Connected(unusable'[m]) <=> Connected(unusable[m])
    BY <2>1, DisturbedWords
  <2> QED BY <1>6, <1>l, <2>1, <2>2, DisturbedInTurn DEF Disturb
<1>7. CASE Settled /\ EmissionStep
  <2>1. live /\ live' = live
    BY <1>7 DEF EmissionStep
  <2>2. CASE AutoDisconnect
    <3>1. PICK n \in Node : n = Top.at /\ n \in Known /\ Unhook(n, Held)
      BY <1>t, <1>e, <2>2, TopOnNode, NodeNumbers DEF AutoDisconnect, Walking, Existing
    <3>2. n \in L
      BY <2>1, <3>1 DEF Listing, Current, Unhook
    <3> QED BY <2>1, <3>1, <3>2, UnlinkedInTurn DEF Unhook
  <2>3. CASE Skip \/ Return
    <3>1. PICK f \in Frame : SetTop(f) /\ InTurn(f) /\ WayEnds(f)
      BY <2>1, <2>3, TopGoesOn
    <3>2. frames # <<>> /\ UNCHANGED <<next, fresh, unusable, owned>>
      BY <2>3 DEF Skip, Return, Walking, listVars, linkVars, nodeVars
    <3> QED BY <2>1, <3>1, <3>2, TopInTurn
  <2> QED BY <1>7, <2>1, <2>2, <2>3, BegunInTurn, EnteredInTurn, LeftInTurn DEF EmissionStep, Emission
<1>8. CASE Settled /\ DestroySignal
  <2>1. frames' = <<>>
    BY <1>8 DEF DestroySignal, threadVars
  <2> QED BY <2>1 DEF EmissionsInTurn, Depth
<1>9. ASSUME Settled, NEW h \in Scoped,
             DestroyScoped(h) \/ \E n \in Link : AssignScoped(h, n)
      PROVE  EmissionsInTurn'
  <2>1. DisconnectThrough(holds[h], Held) /\ UNCHANGED live
    BY <1>9 DEF DestroyScoped, AssignScoped
  <2>2. live \/ holds[h] \notin Alive(Held)
    BY GoneNotAlive
  <2> QED BY <1>9, <1>e, <1>s, <2>1, <2>2, LetGoInTurn
<1>10. ASSUME Settled, NEW h \in Scoped, Release(h) \/ \E k \in Scoped \ {h} : CopyScoped(h, k)
       PROVE  EmissionsInTurn'
  BY <1>10, NothingMoves DEF Release, CopyScoped, listVars, linkVars, nodeVars, threadVars
<1>11. ASSUME NEW h \in Scoped, NEW n \in Link, TakeOver(h, n)
       PROVE  EmissionsInTurn'
  BY <1>11, NothingMoves DEF TakeOver, listVars, linkVars, nodeVars, threadVars
<1> QED BY <1>1, <1>2, <1>3, <1>4, <1>5, <1>6, <1>7, <1>8, <1>9, <1>10, <1>11 DEF Next, ScopedStep

\* The first list is empty.
LEMMA InitQueue == Init => QueueInvariant
<1> SUFFICES ASSUME Init PROVE QueueInvariant
  OBVIOUS
<1>1. Listing({})
  BY DEF Init, ListInit, Listing, Current, Chain, NextPasses, Known
<1>2. HeadHasNoPrev /\ HandlesApart /\ EmissionsInTurn
  BY DEF Init, ListInit, ThreadInit, HeadHasNoPrev, HandlesApart, EmissionsInTurn, Depth
<1> QED BY <1>1, <1>2 DEF QueueInvariant

\* Every step of such a client keeps the invariant.
LEMMA InvariantKept ==
  PlainWords /\ TypeOK /\ OwnersLive /\ QueueInvariant /\ [Next]_vars => QueueInvariant'
<1> SUFFICES ASSUME PlainWords, TypeOK, OwnersLive, QueueInvariant, [Next]_vars, QueueClient'
             PROVE  /\ \E M \in SUBSET Node : Listing(M)'
                    /\ HeadHasNoPrev' /\ HandlesApart' /\ EmissionsInTurn'
  BY DEF QueueInvariant
<1>1. CASE Next
  <2>1. QueueClient
    BY <1>1, NextRuns DEF QueueClient
  <2>2. PICK L \in SUBSET Node : Listing(L)
    BY <2>1 DEF QueueInvariant
  <2> QED BY <1>1, <2>1, <2>2, NextQueue, NextInTurn DEF QueueInvariant
<1>2. CASE UNCHANGED vars
  <2>1. UNCHANGED <<linkVars, nodeVars, fault, live, unusable, api, frames, owned, home,
                    locked, buried>>
    BY <1>2 DEF vars, listVars, threadVars, handleVars
  <2>2. /\ QueueClient /\ HeadHasNoPrev /\ HandlesApart /\ EmissionsInTurn
        /\ \E L \in SUBSET Node : Listing(L)
    BY <2>1 DEF QueueClient, QueueInvariant
  <2>3. PICK L \in SUBSET Node : Listing(L)
    BY <2>2
  <2>4. Listing(L)' /\ HeadHasNoPrev' /\ EmissionsInTurn'
    BY <2>1, <2>2, <2>3, ListingStays, HeadKept, NothingMoves DEF linkVars, nodeVars
  <2>5. Settled' = Settled
    BY <2>1 DEF Settled, Doomed, Known, Alive, Reach, Closed, Held, Depth, linkVars, nodeVars
  <2> QED BY <2>1, <2>2, <2>4, <2>5 DEF HandlesApart
<1> QED BY <1>1, <1>2

\* In every behaviour of such a client the list is a chain of what is
\* connected, its emissions are in turn, and no handle is in the way.
THEOREM QueueHolds ==
  ASSUME PlainWords
  PROVE  Spec => []QueueInvariant
BY InvariantKept, InitQueue, TypeCorrect, OwnersAreLive, PTL DEF Spec

-----------------------------------------------------------------------------
(* What it gives                                                           *)

\* No call dereferences null, no handle follows a pointer to a signal that is
\* gone, no functor locks the mutex it dies under (connection.hpp:124-144,
\* signal.hpp:354, 389, 882).
THEOREM QueueNoFault ==
  ASSUME PlainWords
  PROVE  Spec => [](QueueClient => NoFault)
<1>1. QueueInvariant => (QueueClient => NoFault)
  BY DEF QueueInvariant, Listing, NoFault
<1> QED BY <1>1, QueueHolds, PTL

\* What dies has a front: the least of the nodes without an owner.
LEMMA DoomedHasFront ==
  ASSUME TypeOK, NEW L, NextPasses(L), Doomed # {}
  PROVE  Dying # {}
<1>1. Doomed \in SUBSET Nat /\ Doomed \subseteq Node
  BY KnownNumbers, NodeNumbers DEF Doomed, TypeOK, ListTypeOK
<1>2. PICK d \in Doomed : \A m \in Doomed : d <= m
  BY <1>1, LeastNumber
<1>3. ASSUME NEW m \in Doomed, next[m] = d
      PROVE  FALSE
  <2>1. m < d /\ d <= m /\ m \in Nat /\ d \in Nat
    BY <1>1, <1>2, <1>3, NodeNumbers DEF NextPasses
  <2> QED BY <2>1
<1> QED BY <1>3 DEF Dying

\* Once no emission runs, a disconnected slot is gone (signal.hpp:354-416).
THEOREM QueueReclaims ==
  ASSUME PlainWords
  PROVE  Spec => [](QueueClient => FunctorsReclaimed)
<1>1. TypeOK /\ QueueInvariant => (QueueClient => FunctorsReclaimed)
  <2> SUFFICES ASSUME TypeOK, QueueInvariant, QueueClient, frames = <<>>, Dying = {},
                      NEW n \in Known, ~Connected(unusable[n]), n \notin buried
               PROVE  FALSE
    BY DEF FunctorsReclaimed
  <2>1. PICK L \in SUBSET Node : Listing(L)
    BY DEF QueueInvariant
  <2>2. n \in Alive(Held)
    BY <2>1, DoomedHasFront DEF Listing, Current, Doomed
  <2>3. Held = {}
    BY DEF Held, Depth
  <2>4. {head, tail, groupHead} \subseteq L \cup {Null} /\ Closed(L)
    BY <2>1, ListingFacts DEF Listing, Current, Chain, Closed
  <2>5. Alive(Held) \subseteq L
    BY <2>1, <2>3, <2>4, ListingFacts, AliveWithin
  <2> QED BY <2>1, <2>2, <2>5 DEF Listing, Current
<1> QED BY <1>1, QueueHolds, TypeCorrect, PTL

-----------------------------------------------------------------------------
(* To such a client the signal is one sequence of slots                    *)

InOrder == {p \in Current \X Current : p[1] < p[2]}

\* The states that refine a state of the sequence.
Refined == TypeOK /\ OwnersLive /\ QueueInvariant /\ QueueClient

\* In short.
LEMMA RefinedMeets == Refined => Met = Current /\ MetBefore = InOrder
<1> SUFFICES ASSUME Refined PROVE Met = Current /\ MetBefore = InOrder
  OBVIOUS
<1>1. PICK L \in SUBSET Node : Listing(L)
  BY DEF Refined, QueueInvariant
<1> QED BY <1>1, ListingCurrent DEF Refined, InOrder

\* What such a state is known to be.
LEMMA RefinedFacts ==
  ASSUME Refined
  PROVE  /\ TypeOK /\ ThreadTypeOK /\ NodeTypeOK /\ EmissionsInTurn /\ Known \subseteq Node
         /\ Met = Current /\ MetBefore = InOrder
         /\ Current \subseteq Known /\ Ready \subseteq Current
         /\ \A n \in Node : kind[n] = IF n \in Known THEN "back" ELSE "none"
         /\ frames \in Seq(Frame) /\ Depth \in 0..MaxDepth
         /\ live \/ (frames = <<>> /\ Depth = 0)
<1>1. TypeOK /\ ThreadTypeOK /\ NodeTypeOK /\ Known \subseteq Node /\ EmissionsInTurn
  BY KnownNumbers DEF Refined, QueueInvariant, TypeOK, ListTypeOK
<1>2. Current \subseteq Known /\ Ready \subseteq Current
  BY DEF Current, Ready, Callable, Usable, Connected, DisconnectedAssumption
<1>3. PICK L \in SUBSET Node : Listing(L)
  BY DEF Refined, QueueInvariant
<1>4. live \/ (frames = <<>> /\ Depth = 0)
  BY DEF Refined, QueueInvariant, HandlesApart, Depth
<1>5. frames \in Seq(Frame) /\ Depth \in 0..MaxDepth
  BY <1>1 DEF ThreadTypeOK, Depth
<1> QED BY <1>1, <1>2, <1>3, <1>4, <1>5, RefinedMeets DEF Listing

\* An emission that only gets rid of slots it owes.
LEMMA EmissionsExcused ==
  ASSUME Refined, NEW S, Excuses(S)
  PROVE  \A e \in 1..MaxDepth :
           /\ Phase(e)' = Phase(e)
           /\ InFrame(e)'.seen = InFrame(e).seen /\ InFrame(e)'.barred = InFrame(e).barred
           /\ InFrame(e)'.owed = InFrame(e).owed \ S
<1> TAKE e \in 1..MaxDepth
<1>1. Depth' = Depth /\ Depth \in Nat
  BY RefinedFacts DEF Excuses
<1>2. CASE e <= Depth
  <2>1. e \in 1..Depth /\ ~(e > Depth)
    BY <1>1, <1>2
  <2> QED BY <1>1, <2>1 DEF Excuses, Phase, InFrame
<1>3. CASE ~(e <= Depth)
  <2>1. e > Depth
    BY <1>1, <1>3
  <2> QED BY <1>1, <1>3, <2>1 DEF Phase, InFrame
<1> QED BY <1>2, <1>3

\* Nobody sees a step that changes neither who is connected nor who is ready.
LEMMA SequenceKept ==
  ASSUME Refined, Met' = Current' /\ MetBefore' = InOrder',
         UNCHANGED nodeVars, Current' = Current, Ready' = Ready
  PROVE  /\ UNCHANGED Sequence!listed
         /\ Excuses({}) => UNCHANGED Sequence!vars
<1>1. UNCHANGED <<kind, group>> /\ Gone' = Gone /\ InOrder' = InOrder
  BY DEF nodeVars, Known, Gone, Current, InOrder
<1>2. UNCHANGED Sequence!listed
  BY <1>1, RefinedFacts DEF Sequence!listed
<1>3. ASSUME Excuses({}) PROVE UNCHANGED Sequence!emissions
  <2>1. \A e \in 1..MaxDepth :
          /\ Phase(e)' = Phase(e)
          /\ InFrame(e)'.seen = InFrame(e).seen /\ InFrame(e)'.barred = InFrame(e).barred
          /\ InFrame(e)'.owed = InFrame(e).owed \ {}
    BY <1>3, EmissionsExcused
  <2>2. \A e \in 1..MaxDepth : InFrame(e).owed \ {} = InFrame(e).owed
    OBVIOUS
  <2> QED BY <2>1, <2>2 DEF Sequence!emissions
<1> QED BY <1>2, <1>3 DEF Sequence!vars

\* The slot that is connected comes behind all others.
LEMMA ConnectRefines ==
  ASSUME PlainWords, Refined, Met' = Current' /\ MetBefore' = InOrder',
         live, live', NEW x \in BOOLEAN, PushBackUnsafe(x)
  PROVE  Sequence!Next
<1>1. PICK n \in Node : n = fresh /\ n \notin Known /\ Known' = Known \cup {n}
  BY PushedListing DEF Refined, QueueInvariant
<1>2. /\ kind' = [kind EXCEPT ![n] = "back"] /\ group' = [group EXCEPT ![n] = 0]
      /\ \E word \in InitialWords : unusable' = [unusable EXCEPT ![n] = word]
      /\ UNCHANGED <<frames, owned>>
  BY <1>1 DEF PushBackUnsafe, MakeNode, threadVars
<1>3. Connected(unusable'[n]) /\ \A m \in Known : unusable'[m] = unusable[m]
  BY <1>1, <1>2, RefinedFacts DEF PlainWords, NodeTypeOK
<1>4. Current' = Current \cup {n} /\ n \notin Current /\ Gone' = Gone
  BY <1>1, <1>3 DEF Current, Gone
<1>5. Ready' \in {Ready, Ready \cup {n}}
  <2>1. \A m \in Known : Callable(m)' = Callable(m)
    BY <1>2, <1>3 DEF Callable
  <2> QED BY <1>1, <2>1 DEF Ready
<1>6. InOrder' = InOrder \cup (Current \X {n})
  <2>1. ~(n < n) /\ \A m \in Current : m < n /\ ~(n < m)
    BY <1>1, RefinedFacts, NodeNumbers DEF Known
  <2>2. InOrder' = {p \in (Current \cup {n}) \X (Current \cup {n}) : p[1] < p[2]}
    BY <1>4 DEF InOrder
  <2>3. ASSUME NEW p \in InOrder' PROVE p \in InOrder \/ p \in Current \X {n}
    <3>1. PICK a \in Current \cup {n}, b \in Current \cup {n} : p = <<a, b>> /\ a < b
      BY <2>2, <2>3
    <3>2. a \in Current
      BY <2>1, <3>1
    <3> QED BY <3>1, <3>2 DEF InOrder
  <2>4. ASSUME NEW a \in Current, NEW b \in Current, a < b PROVE <<a, b>> \in InOrder'
    BY <2>2, <2>4
  <2>5. \A a \in Current : <<a, n>> \in InOrder'
    BY <2>1, <2>2
  <2>6. InOrder \subseteq InOrder'
    BY <2>4 DEF InOrder
  <2> QED BY <2>3, <2>5, <2>6
<1>7. {n} \X (Current \ Current) = {}
  OBVIOUS
<1>8. UNCHANGED Sequence!emissions
  BY <1>2 DEF Sequence!emissions, Phase, InFrame, Depth
<1>9. Sequence!ConnectBack(n)
  BY <1>1, <1>2, <1>4, <1>5, <1>6, <1>7, <1>8, RefinedFacts
     DEF Sequence!ConnectBack, Sequence!Connect
<1> QED BY <1>9 DEF Sequence!Next

\* Connected slots are marked, or all go with the signal.
LEMMA RemoveRefines ==
  ASSUME Refined, Met' = Current' /\ MetBefore' = InOrder',
         NEW S \in SUBSET Current, S # {}, UNCHANGED nodeVars, Excuses(S),
         Current' = Current \ S, Ready' = Ready \ S
  PROVE  Sequence!Remove(S) /\ Gone' # Gone
<1>1. Known' = Known /\ UNCHANGED <<kind, group>>
  BY DEF nodeVars, Known
<1>2. Gone = Known \ Current /\ Gone' = Known \ Current'
  BY <1>1 DEF Gone, Current
<1>3. Gone' = Gone \cup S /\ Gone' # Gone
  BY <1>2, RefinedFacts
<1>4. InOrder' = InOrder \cap (Current' \X Current')
  BY DEF InOrder
<1>5. \A e \in 1..MaxDepth :
        /\ Phase(e)' = Phase(e)
        /\ InFrame(e)'.seen = InFrame(e).seen /\ InFrame(e)'.barred = InFrame(e).barred
        /\ InFrame(e)'.owed = InFrame(e).owed \ S
  BY EmissionsExcused
<1> QED BY <1>1, <1>3, <1>4, <1>5, RefinedFacts DEF Sequence!Remove, Sequence!Unready

\* A node is marked and unlinked.
LEMMA UnlinkRefines ==
  ASSUME Refined, Met' = Current' /\ MetBefore' = InOrder', live, live' = live,
         NEW n \in Known, Connected(unusable[n]), Mark({n}), UNCHANGED <<nodeVars, owned>>
  PROVE  Sequence!Next
<1>1. n \in Current /\ {n} \in SUBSET Current /\ {n} # {}
  BY DEF Current
<1>2. Known' = Known
  BY DEF nodeVars, Known
<1>3. \A m \in Known : /\ Connected(unusable'[m]) <=> m # n /\ Connected(unusable[m])
                       /\ m # n => unusable'[m] = unusable[m]
  BY RefinedFacts, MarkedWords DEF Mark
<1>4. Current' = Current \ {n}
  BY <1>2, <1>3 DEF Current
<1>5. Ready' = Ready \ {n}
  BY <1>2, <1>3 DEF Ready, Callable, Usable
<1>6. Excuses({n})
  BY RefinedFacts, ExcusedExcuses DEF Mark
<1>7. Sequence!Remove({n}) /\ Gone' # Gone
  BY <1>1, <1>4, <1>5, <1>6, RemoveRefines
<1>8. Sequence!Disconnect
  BY <1>1, <1>7, RefinedFacts DEF Sequence!Disconnect
<1> QED BY <1>7, <1>8 DEF Sequence!Next

\* The list is emptied, by clear() or with its signal.
LEMMA ClearRefines ==
  ASSUME Refined, Met' = Current' /\ MetBefore' = InOrder', UNCHANGED nodeVars,
         Current' = {}, Ready' = {}, Excuses(Current)
  PROVE  [Sequence!Next]_(Sequence!vars)
<1>1. CASE Current = {}
  <2>1. Current' = Current /\ Ready' = Ready
    BY <1>1, RefinedFacts
  <2> QED BY <1>1, <2>1, SequenceKept
<1>2. CASE Current # {}
  <2>1. Current' = Current \ Current /\ Ready' = Ready \ Current
    BY RefinedFacts
  <2>2. Sequence!Remove(Current) /\ Gone' # Gone
    BY <1>2, <2>1, RemoveRefines
  <2>3. Sequence!DisconnectAll
    BY <2>2, RefinedFacts DEF Sequence!DisconnectAll
  <2> QED BY <2>2, <2>3 DEF Sequence!Next
<1> QED BY <1>1, <1>2

\* block(), unblock() and an expiry suspend a slot, resume it or change
\* nothing that anybody can see.
LEMMA DisturbRefines ==
  ASSUME PlainWords, Refined, Met' = Current' /\ MetBefore' = InOrder', live' = live,
         NEW n \in Node, Expire(n) \/ \E d \in {-1, 1} : Block(n, d)
  PROVE  [Sequence!Next]_(Sequence!vars)
<1>1. /\ n \in Known /\ UNCHANGED nodeVars
      /\ \A m \in Known : m # n => unusable'[m] = unusable[m] /\ (m \in owned' <=> m \in owned)
  BY RefinedFacts DEF Expire, Block, listVars, NodeTypeOK
<1>2. \A m \in Known : Connected(unusable'[m]) <=> Connected(unusable[m])
  BY RefinedFacts, DisturbedWords
<1>3. Known' = Known /\ Current' = Current /\ UNCHANGED <<kind, group>> /\ Gone' = Gone
  BY <1>1, <1>2 DEF nodeVars, Known, Current, Gone
<1>4. \/ Excuses({n}) /\ ~Callable(n)'
      \/ Excuses({}) /\ Connected(unusable[n]) /\ UNCHANGED owned /\ Usable(unusable'[n])
  <2>1. CASE Expire(n)
    BY <2>1, RefinedFacts, ExcusedExcuses DEF Expire, Callable
  <2>2. CASE \E d \in {-1, 1} : Block(n, d)
    <3>1. PICK d \in {-1, 1} :
            /\ Connected(unusable[n]) /\ UNCHANGED owned
            /\ unusable' = [unusable EXCEPT ![n] = @ + d]
            /\ frames' = Excused(IF Usable(unusable[n] + d) THEN {} ELSE {n})
      BY <2>2 DEF Block
    <3>2. Usable(unusable[n] + d) <=> Usable(unusable'[n])
      BY <3>1, RefinedFacts DEF NodeTypeOK
    <3> QED BY <3>1, <3>2, RefinedFacts, ExcusedExcuses DEF Callable
  <2> QED BY <2>1, <2>2
<1>5. InOrder' = InOrder /\ \A m \in Known : m # n => (Callable(m)' <=> Callable(m))
  BY <1>1, <1>3 DEF InOrder, Callable
<1>6. CASE n \in Ready /\ n \notin Ready'
  <2>1. Excuses({n})
    BY <1>3, <1>4, <1>6 DEF Ready, Callable, Current
  <2>2. Ready' = Ready \ {n}
    BY <1>3, <1>5, <1>6 DEF Ready
  <2>3. \A e \in 1..MaxDepth :
          /\ Phase(e)' = Phase(e)
          /\ InFrame(e)'.seen = InFrame(e).seen /\ InFrame(e)'.barred = InFrame(e).barred
          /\ InFrame(e)'.owed = InFrame(e).owed \ {n}
    BY <2>1, EmissionsExcused
  <2>4. Sequence!Suspend(n)
    BY <1>3, <1>5, <1>6, <2>2, <2>3, RefinedFacts DEF Sequence!Suspend, Sequence!Unready
  <2> QED BY <2>4 DEF Sequence!Next
<1>7. CASE n \notin Ready /\ n \in Ready'
  <2>1. Excuses({}) /\ n \in Current
    BY <1>3, <1>4, <1>7 DEF Ready, Current
  <2>2. Ready' = Ready \cup {n}
    BY <1>3, <1>5, <1>7 DEF Ready
  <2>3. \A e \in 1..MaxDepth :
          /\ Phase(e)' = Phase(e)
          /\ InFrame(e)'.seen = InFrame(e).seen /\ InFrame(e)'.barred = InFrame(e).barred
          /\ InFrame(e)'.owed = InFrame(e).owed \ {}
    BY <2>1, EmissionsExcused
  <2>4. \A e \in 1..MaxDepth : InFrame(e).owed \ {} = InFrame(e).owed
    OBVIOUS
  <2>5. UNCHANGED Sequence!emissions
    BY <2>3, <2>4 DEF Sequence!emissions
  <2>6. Sequence!Resume(n)
    BY <1>3, <1>5, <1>7, <2>1, <2>2, <2>5, RefinedFacts DEF Sequence!Resume
  <2> QED BY <2>6 DEF Sequence!Next
<1>8. CASE n \in Ready <=> n \in Ready'
  <2>1. Ready' = Ready
    BY <1>3, <1>5, <1>8 DEF Ready
  <2>2. Excuses({})
    <3>1. CASE live
      <4>1. ~Callable(n)' => ~Callable(n)
        BY <1>1, <1>3, <1>8, <3>1 DEF Ready
      <4>2. ASSUME Excuses({n}), ~Callable(n) PROVE Excuses({})
        <5>1. \A i \in 1..Depth : n \notin frames[i].owed
          BY <4>2, RefinedFacts DEF EmissionsInTurn, InTurn
        <5>2. \A i \in 1..Depth : frames[i].owed \ {n} = frames[i].owed \ {}
          BY <5>1
        <5> QED BY <4>2, <5>2 DEF Excuses
      <4> QED BY <1>4, <4>1, <4>2
    <3>2. CASE ~live
      BY <1>4, <3>2, RefinedFacts DEF Excuses
    <3> QED BY <3>1, <3>2
  <2> QED BY <1>1, <1>3, <2>1, <2>2, SequenceKept
<1> QED BY <1>6, <1>7, <1>8

\* An emission begins.
LEMMA BeginRefines ==
  ASSUME Refined, Met' = Current' /\ MetBefore' = InOrder', live, live' = live, EmitUnsafe
  PROVE  Sequence!Next
<1>1. PICK f : f = [at |-> head, step |-> "walk", seen |-> {},
                    owed |-> {n \in Known : Callable(n)},
                    barred |-> {n \in Known : ~Connected(unusable[n])}]
  OBVIOUS
<1>2. /\ Depth < MaxDepth /\ frames' = Append(frames, f) /\ head # Null
      /\ UNCHANGED <<linkVars, nodeVars, unusable, owned>>
  BY <1>1 DEF EmitUnsafe, listVars
<1>3. f \in Frame /\ f.step = "walk" /\ f.seen = {} /\ f.owed = Ready /\ f.barred = Gone
  <2>1. head \in Node
    BY <1>2, RefinedFacts DEF TypeOK, ListTypeOK, LinkTypeOK, Link
  <2> QED BY <1>1, <2>1, RefinedFacts DEF Frame, Link, Ready, Gone
<1>4. UNCHANGED Sequence!listed
  <2>1. Current' = Current /\ Ready' = Ready
    BY <1>2 DEF nodeVars, Known, Current, Ready, Callable
  <2> QED BY <1>2, <2>1, SequenceKept
<1>5. PICK e \in 1..MaxDepth : e = Depth + 1
  BY <1>2, RefinedFacts DEF SignalUnsafeAssumption
<1>6. Depth' = e /\ frames'[e] = f /\ \A i \in 1..Depth : frames'[i] = frames[i]
  BY <1>2, <1>3, <1>5, PushedFrame, RefinedFacts
<1>7. \A i \in 1..MaxDepth :
        /\ InFrame(i)' = IF i = e THEN f ELSE InFrame(i)
        /\ Phase(i)' = IF i = e THEN "running" ELSE Phase(i)
  <2> TAKE i \in 1..MaxDepth
  <2>1. CASE i <= Depth
    <3>1. i # e /\ i <= Depth' /\ ~(i > Depth) /\ ~(i > Depth') /\ frames'[i] = frames[i]
      BY <1>5, <1>6, <2>1, RefinedFacts
    <3> QED BY <2>1, <3>1 DEF InFrame, Phase
  <2>2. CASE i = e
    <3>1. i <= Depth' /\ ~(i > Depth')
      BY <1>5, <1>6, <2>2, RefinedFacts
    <3> QED BY <1>3, <1>6, <2>2, <3>1 DEF InFrame, Phase
  <2>3. CASE ~(i <= Depth) /\ i # e
    <3>1. ~(i <= Depth') /\ i > Depth /\ i > Depth'
      BY <1>5, <1>6, <2>3, RefinedFacts
    <3> QED BY <2>3, <3>1 DEF InFrame, Phase
  <2> QED BY <2>1, <2>2, <2>3
<1>8. Phase(e) = "idle" /\ InFrame(e).seen = {}
  <2>1. e > Depth /\ ~(e <= Depth)
    BY <1>5, RefinedFacts
  <2> QED BY <2>1 DEF Phase, InFrame
<1>9. Sequence!Begin(e)
  BY <1>3, <1>4, <1>7, <1>8 DEF Sequence!Begin
<1> QED BY <1>9 DEF Sequence!Next

\* The innermost emission moves, and the others do not.
LEMMA TopMoves ==
  ASSUME Refined, frames # <<>>, NEW f \in Frame, SetTop(f)
  PROVE  /\ Depth \in 1..MaxDepth /\ Top \in Frame /\ InFrame(Depth) = Top
         /\ InTurn(Top) /\ WayEnds(Top)
         /\ Phase(Depth) = IF Top.step = "done" THEN "complete" ELSE "running"
         /\ \A i \in 1..MaxDepth :
              /\ InFrame(i)' = IF i = Depth THEN f ELSE InFrame(i)
              /\ Phase(i)' = IF i # Depth THEN Phase(i)
                             ELSE IF f.step = "done" THEN "complete" ELSE "running"
<1>1. Depth \in 1..MaxDepth /\ Depth \in 1..Depth /\ ~(Depth > Depth) /\ Depth <= Depth
  BY RefinedFacts DEF Depth
<1>2. Top \in Frame /\ InTurn(Top) /\ WayEnds(Top)
  BY <1>1, RefinedFacts DEF EmissionsInTurn, Top, Depth
<1>3. InFrame(Depth) = Top /\ Phase(Depth) = IF Top.step = "done" THEN "complete" ELSE "running"
  BY <1>1 DEF InFrame, Phase, Top
<1>4. Depth' = Depth /\ \A i \in 1..Depth : frames'[i] = IF i = Depth THEN f ELSE frames[i]
  BY TopFrame, RefinedFacts
<1>5. ASSUME NEW i \in 1..MaxDepth
      PROVE  /\ InFrame(i)' = IF i = Depth THEN f ELSE InFrame(i)
             /\ Phase(i)' = IF i # Depth THEN Phase(i)
                            ELSE IF f.step = "done" THEN "complete" ELSE "running"
  <2>1. CASE i <= Depth
    <3>1. i \in 1..Depth /\ ~(i > Depth)
      BY <1>1, <2>1
    <3> QED BY <1>4, <2>1, <3>1 DEF InFrame, Phase
  <2>2. CASE ~(i <= Depth)
    <3>1. i > Depth /\ i # Depth
      BY <1>1, <2>2
    <3> QED BY <1>4, <2>2, <3>1 DEF InFrame, Phase
  <2> QED BY <2>1, <2>2
<1> QED BY <1>1, <1>2, <1>3, <1>5

\* A slot is called in its turn, and once.
LEMMA CallRefines ==
  ASSUME Refined, Met' = Current' /\ MetBefore' = InOrder', live' = live, Enter
  PROVE  Sequence!Next
<1> USE NodeNumbers
<1>1. /\ frames # <<>> /\ Top.step = "walk" /\ Usable(unusable[Top.at])
      /\ UNCHANGED <<nodeVars, unusable, owned>>
  BY DEF Enter, Walking
<1>2. PICK t \in Frame : t = Top /\ t.at \in Node /\ t.at \in Known
  <2>1. UnsafeTypeOK /\ Held \subseteq Existing \cup {Null}
    BY DEF Refined, OwnersLive, TypeOK, UnsafeTypeOK
  <2> QED BY <1>1, <2>1, TopOnNode DEF Existing
<1>3. PICK n \in Node : n = t.at
  BY <1>2
<1>4. PICK f : f = [t EXCEPT !.step = "call", !.seen = @ \cup {t.at}, !.owed = @ \ {t.at}]
  OBVIOUS
<1>5. /\ f \in Frame /\ f.step = "call" /\ f.barred = t.barred
      /\ f.seen = t.seen \cup {n} /\ f.owed = t.owed \ {n} /\ SetTop(f)
  BY <1>2, <1>3, <1>4 DEF Frame, Enter
<1>6. PICK e \in 1..MaxDepth : e = Depth
  BY <1>1, <1>5, TopMoves
<1>7. /\ InFrame(e) = t /\ InTurn(t) /\ Phase(e) = "running"
      /\ \A i \in 1..MaxDepth : /\ InFrame(i)' = IF i = e THEN f ELSE InFrame(i)
                                /\ Phase(i)' = Phase(i)
  BY <1>1, <1>2, <1>5, <1>6, TopMoves
<1>8. UNCHANGED Sequence!listed
  <2>1. Current' = Current /\ Ready' = Ready
    BY <1>1 DEF nodeVars, Known, Current, Ready, Callable
  <2> QED BY <1>1, <2>1, SequenceKept
<1>9. /\ \A m \in t.seen : m \in Known /\ m \in Nat /\ m < n
      /\ \A m \in t.owed : m \in Known /\ m \in Nat /\ n <= m
      /\ n \notin t.barred /\ n \in Nat
  BY <1>1, <1>2, <1>3, <1>7, RefinedFacts DEF InTurn, Usable, Connected
<1>10. kind[n] = "back" /\ \A m \in Known : kind[m] = "back"
  BY <1>2, <1>3, RefinedFacts
<1>11. n \notin t.seen
  BY <1>9
<1>12. \A m \in t.seen : Sequence!Precedes(m, n)
  BY <1>9, <1>10 DEF Sequence!Precedes
<1>13. \A m \in t.owed \ {n} : Sequence!Precedes(n, m)
  <2> TAKE m \in t.owed \ {n}
  <2>1. n < m /\ m \in Known
    BY <1>9
  <2> QED BY <1>10, <2>1 DEF Sequence!Precedes
<1>14. Sequence!Call(e, n)
  BY <1>5, <1>7, <1>8, <1>9, <1>10, <1>11, <1>12, <1>13 DEF Sequence!Call
<1> QED BY <1>14 DEF Sequence!Next

\* An emission goes on, or it has called what it owes.
LEMMA GoesOnRefines ==
  ASSUME Refined, Met' = Current' /\ MetBefore' = InOrder', live, live' = live, Skip \/ Return
  PROVE  [Sequence!Next]_(Sequence!vars)
<1>1. /\ frames # <<>> /\ Top.step # "done" /\ UNCHANGED <<nodeVars, unusable, owned>>
  BY DEF Skip, Return, Walking, Control, listVars
<1>2. PICK L \in SUBSET Node : Listing(L)
  BY DEF Refined, QueueInvariant
<1>3. PICK f \in Frame :
           /\ SetTop(f) /\ InTurn(f)
           /\ f.seen = Top.seen /\ f.owed = Top.owed /\ f.barred = Top.barred
           /\ f.step = IF next[Top.at] = Null THEN "done" ELSE "walk"
  BY <1>2, RefinedFacts, TopGoesOn DEF Refined
<1>4. PICK e \in 1..MaxDepth : e = Depth
  BY <1>1, <1>3, TopMoves
<1>5. /\ Phase(e) = "running" /\ InFrame(e) = Top
      /\ \A i \in 1..MaxDepth :
           /\ InFrame(i)' = IF i = e THEN f ELSE InFrame(i)
           /\ Phase(i)' = IF i = e /\ f.step = "done" THEN "complete" ELSE Phase(i)
  BY <1>1, <1>3, <1>4, TopMoves
<1>6. \A i \in 1..MaxDepth :
        /\ InFrame(i)'.seen = InFrame(i).seen /\ InFrame(i)'.owed = InFrame(i).owed
        /\ InFrame(i)'.barred = InFrame(i).barred
  BY <1>3, <1>5
<1>7. UNCHANGED Sequence!listed
  <2>1. Current' = Current /\ Ready' = Ready
    BY <1>1 DEF nodeVars, Known, Current, Ready, Callable
  <2> QED BY <1>1, <2>1, SequenceKept
<1>8. CASE f.step = "done"
  <2>1. InFrame(e).owed = {}
    BY <1>3, <1>5, <1>8 DEF InTurn
  <2>2. Sequence!Complete(e)
    BY <1>5, <1>6, <1>7, <1>8, <2>1 DEF Sequence!Complete
  <2> QED BY <2>2 DEF Sequence!Next
<1>9. CASE f.step # "done"
  <2>1. UNCHANGED Sequence!emissions
    BY <1>5, <1>6, <1>9 DEF Sequence!emissions
  <2> QED BY <1>7, <2>1 DEF Sequence!vars
<1> QED BY <1>8, <1>9

\* An emission returns, or a slot throws.
LEMMA LeaveRefines ==
  ASSUME Refined, Met' = Current' /\ MetBefore' = InOrder', live' = live,
         EmitReturns \/ SlotThrows
  PROVE  Sequence!Next
<1>1. frames # <<>> /\ Pop /\ UNCHANGED <<nodeVars, unusable, owned>>
  BY DEF EmitReturns, SlotThrows, listVars
<1>2. PICK e \in 1..MaxDepth : e = Depth
  BY <1>1, RefinedFacts DEF Depth
<1>3. Depth' = e - 1 /\ \A i \in 1..(e - 1) : frames'[i] = frames[i]
  BY <1>1, <1>2, RefinedFacts, PoppedFrame
<1>4. PICK r : r = [seen |-> {}, owed |-> {}, barred |-> {}]
  OBVIOUS
<1>5. \A i \in 1..MaxDepth :
        /\ InFrame(i)' = IF i = e THEN r ELSE InFrame(i)
        /\ Phase(i)' = IF i = e THEN "idle" ELSE Phase(i)
  <2> TAKE i \in 1..MaxDepth
  <2>1. CASE i < e
    <3>1. /\ i # e /\ i <= Depth /\ ~(i > Depth) /\ i <= Depth' /\ ~(i > Depth')
          /\ frames'[i] = frames[i]
      BY <1>2, <1>3, <2>1
    <3> QED BY <3>1 DEF InFrame, Phase
  <2>2. CASE i = e
    <3>1. ~(i <= Depth') /\ i > Depth'
      BY <1>3, <2>2
    <3> QED BY <1>4, <2>2, <3>1 DEF InFrame, Phase
  <2>3. CASE i > e
    <3>1. i # e /\ ~(i <= Depth) /\ i > Depth /\ ~(i <= Depth') /\ i > Depth'
      BY <1>2, <1>3, <2>3
    <3> QED BY <3>1 DEF InFrame, Phase
  <2> QED BY <2>1, <2>2, <2>3
<1>6. Phase(e) # "idle"
  <2>1. ~(e > Depth)
    BY <1>2
  <2> QED BY <2>1 DEF Phase
<1>7. UNCHANGED Sequence!listed
  <2>1. Current' = Current /\ Ready' = Ready
    BY <1>1 DEF nodeVars, Known, Current, Ready, Callable
  <2> QED BY <1>1, <2>1, SequenceKept
<1>8. r.seen = {} /\ r.owed = {} /\ r.barred = {}
  BY <1>4
<1>9. Sequence!Leave(e)
  BY <1>5, <1>6, <1>7, <1>8 DEF Sequence!Leave
<1> QED BY <1>9 DEF Sequence!Next

\* A handle lets go of its slot.
LEMMA LetGoRefines ==
  ASSUME Refined, Met' = Current' /\ MetBefore' = InOrder', ~locked, live' = live,
         NEW n, NEW held, held \subseteq Existing \cup {Null}, DisconnectThrough(n, held),
         live \/ n \notin Alive(held)
  PROVE  [Sequence!Next]_(Sequence!vars)
<1>1. CASE UNCHANGED <<listVars, threadVars>>
  <2>1. UNCHANGED <<nodeVars, unusable, owned, frames>>
    BY <1>1 DEF listVars, threadVars
  <2>2. Current' = Current /\ Ready' = Ready
    BY <2>1 DEF nodeVars, Known, Current, Ready, Callable
  <2> QED BY <2>1, <2>2, SequenceKept, StillExcuses
<1>2. CASE n \in Alive(held) /\ live /\ Unhook(n, held)
  <2>1. n \in Known
    BY <1>2, ExistingClosed DEF Refined, OwnersLive, TypeOK, Existing
  <2> QED BY <1>2, <2>1, UnlinkRefines DEF Unhook
<1> QED BY <1>1, <1>2 DEF DisconnectThrough

\* Every step is one of the sequence, or none.
LEMMA StepRefines ==
  ASSUME PlainWords, Refined, Met' = Current' /\ MetBefore' = InOrder', [Next]_vars
  PROVE  [Sequence!Next]_(Sequence!vars)
<1>r. TypeOK /\ OwnersLive /\ QueueClient /\ HandlesApart /\ HeadHasNoPrev
  BY DEF Refined, QueueInvariant
<1>t. UnsafeTypeOK
  BY <1>r DEF TypeOK, UnsafeTypeOK
<1>e. Held \subseteq Existing \cup {Null} /\ HeldYet \subseteq Existing \cup {Null}
  BY <1>r, HeldYetExists DEF OwnersLive
<1>s. Settled => ~locked
  BY <1>r DEF HandlesApart
<1>p. PICK L \in SUBSET Node : Listing(L)
  BY DEF Refined, QueueInvariant
<1>h. ASSUME UNCHANGED <<listVars, threadVars, live>>
      PROVE  [Sequence!Next]_(Sequence!vars)
  <2>1. UNCHANGED <<nodeVars, unusable, owned, frames>>
    BY <1>h DEF listVars, threadVars
  <2>2. Current' = Current /\ Ready' = Ready
    BY <1>h, <2>1 DEF nodeVars, Known, Current, Ready, Callable
  <2> QED BY <2>1, <2>2, SequenceKept, StillExcuses
<1>1. ASSUME NEW h \in Scoped, FunctorDrops(h)
      PROVE  [Sequence!Next]_(Sequence!vars)
  <2>1. home[h] # Null
    BY <1>1, <1>r, KnownNumbers, NodeNumbers DEF FunctorDrops, Dying, Doomed, TypeOK, ListTypeOK
  <2>2. live /\ ~locked /\ live' = live /\ DisconnectThrough(holds[h], HeldYet)
    BY <1>1, <1>r, <2>1, NoneAssignedDies DEF HandlesApart, FunctorDrops, QueueClient, QueueOperations
  <2> QED BY <1>e, <2>2, LetGoRefines
<1>2. CASE Settled /\ Connect
  <2>1. PICK x \in BOOLEAN : PushBackUnsafe(x)
    BY <1>2, <1>r DEF Connect, PushFrontUnsafe, InsertUnsafe, QueueClient, QueueOperations
  <2>2. live /\ live'
    BY <1>2 DEF Connect
  <2> QED BY <2>1, <2>2, ConnectRefines
<1>3. CASE Settled /\ DisconnectSlot
  <2>1. PICK n \in Node : n \in Known /\ Unhook(n, Held)
    BY <1>3 DEF DisconnectSlot, DisconnectUnsafe
  <2>2. live /\ live' = live
    BY <1>3 DEF DisconnectSlot
  <2> QED BY <2>1, <2>2, UnlinkRefines DEF Unhook
<1>4. ASSUME NEW l \in BOOLEAN, RemoveSlots(l)
      PROVE  [Sequence!Next]_(Sequence!vars)
  <2>1. live /\ live' = live
    BY <1>4 DEF RemoveSlots
  <2>2. CASE PopBackUnsafe \/ PopFrontUnsafe
    <3>1. PICK n \in L : Mark({n}) /\ UNCHANGED <<nodeVars, owned>>
      BY <2>2, <1>p, <1>r, ListingFacts DEF PopBackUnsafe, PopFrontUnsafe
    <3>2. n \in Known /\ Connected(unusable[n])
      BY <1>p DEF Listing, Current
    <3> QED BY <2>1, <3>1, <3>2, UnlinkRefines
  <2>3. CASE ClearUnsafe
    <3>1. Mark(Current) /\ UNCHANGED <<nodeVars, owned>>
      BY <2>3, <1>p, <1>r, ChainIsListed DEF ClearUnsafe, Listing, TypeOK, ListTypeOK
    <3>2. \A n \in Known : ~Connected(unusable'[n])
      BY <1>r, <2>1, <3>1, RefinedFacts, MarkedWords DEF Current
    <3>3. Current' = {} /\ Ready' = {}
      BY <3>1, <3>2 DEF nodeVars, Known, Current, Ready, Callable, Usable, Connected,
         DisconnectedAssumption
    <3>4. Excuses(Current)
      BY <3>1, RefinedFacts, ExcusedExcuses DEF Mark
    <3> QED BY <3>1, <3>3, <3>4, ClearRefines
  <2>4. ~\E g \in Groups : EraseUnsafe(g)
    BY <1>r DEF EraseUnsafe, QueueClient, QueueOperations
  <2> QED BY <1>4, <2>2, <2>3, <2>4 DEF RemoveSlots
<1>5. CASE Disturb
  <2>1. PICK n \in Node : Expire(n) \/ \E d \in {-1, 1} : Block(n, d)
    BY <1>5 DEF Disturb
  <2> QED BY <1>5, <2>1, DisturbRefines DEF Disturb
<1>6. CASE EmissionStep
  <2>1. live /\ live' = live
    BY <1>6 DEF EmissionStep
  <2>2. CASE AutoDisconnect
    <3>1. PICK n \in Node : n \in Known /\ Unhook(n, Held)
      BY <1>t, <1>e, <2>2, TopOnNode, NodeNumbers DEF AutoDisconnect, Walking, Existing
    <3> QED BY <2>1, <3>1, UnlinkRefines DEF Unhook
  <2> QED BY <1>6, <2>1, <2>2, BeginRefines, CallRefines, GoesOnRefines, LeaveRefines
          DEF EmissionStep, Emission
<1>7. CASE DestroySignal
  <2>1. live' = FALSE /\ frames = <<>> /\ UNCHANGED <<nodeVars, frames>>
    BY <1>7 DEF DestroySignal, threadVars
  <2>2. Current' = {} /\ Ready' = {}
    BY <2>1 DEF Current, Ready
  <2>3. Excuses(Current)
    BY <2>1 DEF Excuses, Depth
  <2> QED BY <2>1, <2>2, <2>3, ClearRefines
<1>8. ASSUME Settled, NEW h \in Scoped,
             DestroyScoped(h) \/ \E n \in Link : AssignScoped(h, n)
      PROVE  [Sequence!Next]_(Sequence!vars)
  <2>1. DisconnectThrough(holds[h], Held) /\ live' = live
    BY <1>8 DEF DestroyScoped, AssignScoped
  <2>2. live \/ holds[h] \notin Alive(Held)
    BY <1>p, <1>r, GoneNotAlive
  <2> QED BY <1>8, <1>e, <1>s, <2>1, <2>2, LetGoRefines
<1>9. ASSUME NEW h \in Scoped, Release(h) \/ \E k \in Scoped \ {h} : CopyScoped(h, k)
      PROVE  [Sequence!Next]_(Sequence!vars)
  BY <1>9, <1>h DEF Release, CopyScoped
<1>10. ASSUME NEW n \in Node, Bury(n)
       PROVE  [Sequence!Next]_(Sequence!vars)
  BY <1>10, <1>h DEF Bury
<1>11. CASE UNCHANGED vars
  BY <1>11, <1>h DEF vars
<1>12. ASSUME NEW h \in Scoped, NEW n \in Link, TakeOver(h, n)
       PROVE  [Sequence!Next]_(Sequence!vars)
  BY <1>12, <1>h DEF TakeOver
<1> QED BY <1>1, <1>2, <1>3, <1>4, <1>5, <1>6, <1>7, <1>8, <1>9, <1>10, <1>11, <1>12
        DEF Next, ScopedStep

\* A new signal is an empty sequence.
LEMMA InitRefines == Init /\ QueueClient => Refined /\ Sequence!Init
<1> SUFFICES ASSUME Init, QueueClient PROVE Refined /\ Sequence!Init
  OBVIOUS
<1>1. Known = {} /\ kind = [n \in Node |-> "none"] /\ group = [n \in Node |-> 0]
  BY DEF Init, ListInit, Known
<1>2. Refined
  BY InitQueue, InitTyped, InitOwners DEF Refined
<1>3. Current = {} /\ Gone = {} /\ Ready = {}
  BY <1>1 DEF Current, Gone, Ready
<1>4. InOrder = {}
  BY <1>3 DEF InOrder
<1>5. \A e \in 1..MaxDepth :
        /\ Phase(e) = "idle" /\ InFrame(e).seen = {} /\ InFrame(e).owed = {}
        /\ InFrame(e).barred = {}
  <2> TAKE e \in 1..MaxDepth
  <2>1. e > Depth /\ ~(e <= Depth)
    BY DEF Init, ThreadInit, Depth
  <2> QED BY <2>1 DEF Phase, InFrame
<1> QED BY <1>1, <1>2, <1>3, <1>4, <1>5, RefinedFacts DEF Sequence!Init

\* To a thread that calls back, a signal whose slots it connects at the back
\* is one sequence of slots on which every call acts at once, however deep
\* its emissions are nested and whatever its handles do: an interrupted
\* emission calls what it owes, once and in order, and nothing that was gone
\* when it began (signal.hpp:285-322, 354-416, 803-1048, 1189-1219).
THEOREM QueueIsSequence ==
  ASSUME PlainWords
  PROVE  Spec /\ QueueClient => ImplementsSlotSequence
<1>1. Refined /\ [Next]_vars => Refined'
  <2>1. QueueClient /\ [Next]_vars => QueueClient'
    BY NextRuns DEF QueueClient, vars, threadVars
  <2> QED BY <2>1, NextTyped, NextOwners, InvariantKept DEF Refined
<1>2. Spec /\ QueueClient => []Refined
  BY <1>1, InitRefines, PTL DEF Spec
<1>3. (Refined => Met = Current /\ MetBefore = InOrder)'
  BY RefinedMeets, PTL
<1>4. Refined /\ Refined' /\ [Next]_vars => [Sequence!Next]_(Sequence!vars)
  BY <1>3, StepRefines
<1> QED BY <1>2, <1>4, InitRefines, PTL DEF Spec, ImplementsSlotSequence, Sequence!Spec
=============================================================================
