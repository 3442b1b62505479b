---------------------------- MODULE SignalProofs ----------------------------
(***************************************************************************)
(* What holds of a signal for every number of nodes, threads and groups    *)
(* and for every set of operations its client may use.                     *)
(***************************************************************************)
EXTENDS SignalProperties, ListProofs

USE DisconnectedAssumption, SlotListAssumption, SignalAssumption

-----------------------------------------------------------------------------
(* The threads                                                             *)

\* Exactly the holder of the mutex is in a critical section, so whoever
\* finds the mutex free may change what the critical sections rely on.
LEMMA FreeMutex ==
  ASSUME SafetyInvariant, mutex = Free
  PROVE  \A a \in Activations : pc[a] \notin Critical
BY DEF SafetyInvariant, MutexProtectsLinks

\* What the functions that connect a slot have in common.
LEMMA ConnectStep ==
  ASSUME SafetyInvariant, NEW w \in Writers, NEW k \in Kinds, NEW g \in Groups \cup {0},
         NEW x \in BOOLEAN, Connect(w), MakeNode(fresh, k, g, x), LinkTypeOK'
  PROVE  SafetyInvariant'
<1> USE DEF SafetyInvariant, TypeOK, ListTypeOK
<1>1. NodeTypeOK'
  BY MakeNodeTyped
<1>2. UNCHANGED threadVars
  BY DEF Connect
<1> USE <1>2 DEF threadVars, writerVars, trackVars, history
<1>3. TypeOK'
  BY <1>1 DEF ThreadTypeOK, TrackTypeOK, HistoryTypeOK
<1>4. MutexProtectsLinks'
  BY DEF MutexProtectsLinks
<1>5. LocalsHold'
  BY FreeMutex DEF LocalsHold, Connect, Critical, Activations
<1>6. DeadStaysMarked'
  <2>1. \A n \in Known : n \in Known' /\ unusable'[n] = unusable[n]
    BY DEF Known, MakeNode, NodeTypeOK, Node
  <2> QED BY <2>1 DEF DeadStaysMarked
<1>7. PassedNodesLive' /\ CalledNodesLocked'
  BY DEF PassedNodesLive, CalledNodesLocked
<1> QED BY <1>3, <1>4, <1>5, <1>6, <1>7

\* push_back, push_front and insert.
LEMMA PushStep ==
  ASSUME SafetyInvariant, NEW w \in Writers, NEW x \in BOOLEAN,
         PushBack(w, x) \/ PushFront(w, x) \/ \E g \in Groups : Insert(w, g, x)
  PROVE  SafetyInvariant'
<1>1. ListTypeOK /\ LinkTypeOK
  BY DEF SafetyInvariant, TypeOK, ListTypeOK
<1>2. CASE PushBack(w, x)
  <2>1. LinkTypeOK'
    BY <1>1, <1>2, PushBackTyped DEF PushBack, MakeNode
  <2> QED BY <1>2, <2>1, ConnectStep DEF PushBack, Kinds
<1>3. CASE PushFront(w, x)
  <2>1. LinkTypeOK'
    BY <1>1, <1>3, PushFrontTyped DEF PushFront, MakeNode
  <2> QED BY <1>3, <2>1, ConnectStep DEF PushFront, Kinds
<1>4. ASSUME NEW g \in Groups, Insert(w, g, x)
      PROVE  SafetyInvariant'
  <2>1. LinkTypeOK'
    BY <1>1, <1>4, InsertTyped DEF Insert, MakeNode
  <2> QED BY <1>4, <2>1, ConnectStep DEF Insert, Kinds
<1> QED BY <1>2, <1>3, <1>4

\* Marking a node.
LEMMA MarkTyped ==
  ASSUME TypeOK, NEW n \in Link, Mark(n)
  PROVE  /\ unusable' \in [Node -> Int]
         /\ HistoryTypeOK'
BY DEF TypeOK, ListTypeOK, NodeTypeOK, HistoryTypeOK, Mark, Marked, Excuse

\* Marking a node makes no node connected again.
LEMMA MarkKeepsDead ==
  ASSUME SafetyInvariant, NEW n, Mark(n), UNCHANGED fresh
  PROVE  DeadStaysMarked'
BY DEF SafetyInvariant, TypeOK, ListTypeOK, NodeTypeOK, DeadStaysMarked, Mark, Marked,
       Known, Connected, Node

\* A connection enters disconnect().
LEMMA DisconnectStep ==
  ASSUME SafetyInvariant, NEW w \in Writers, NEW n \in Node, Disconnect(w, n)
  PROVE  SafetyInvariant'
<1> USE DEF SafetyInvariant, TypeOK, ThreadTypeOK, Disconnect, Goto, Take, Activations
<1>1. TypeOK'
  BY DEF ListTypeOK, LinkTypeOK, NodeTypeOK, TrackTypeOK, HistoryTypeOK, listVars, linkVars,
         nodeVars, writerVars, trackVars, history, WriterSteps, Link
<1>2. MutexProtectsLinks'
  BY DEF MutexProtectsLinks, Critical
<1>3. LocalsHold'
  BY DEF LocalsHold, Null, Node, listVars, linkVars
<1>4. DeadStaysMarked'
  BY DEF DeadStaysMarked, Known, listVars, nodeVars, history
<1>5. PassedNodesLive' /\ CalledNodesLocked'
  BY DEF PassedNodesLive, CalledNodesLocked, trackVars, history
<1> QED BY <1>1, <1>2, <1>3, <1>4, <1>5

\* A connection is idle again and an emission goes on.
LEMMA ReturnTyped ==
  ASSUME ThreadTypeOK, NEW a \in Activations, DisconnectReturns(a),
         mutex' \in Activations \cup {Free}, UNCHANGED writerVars
  PROVE  ThreadTypeOK'
<1> USE DEF ThreadTypeOK, DisconnectReturns, Goto, Take, Activations, WriterSteps, EmitterSteps
<1>1. pc' \in [Activations -> WriterSteps \cup EmitterSteps]
  OBVIOUS
<1>2. hand' \in [Activations -> Link]
  BY DEF Link
<1>3. \A w \in Writers : pc'[w] \in WriterSteps
  OBVIOUS
<1>4. \A e \in Emitters : pc'[e] \in EmitterSteps
  OBVIOUS
<1> QED BY <1>1, <1>2, <1>3, <1>4 DEF writerVars

\* A connection or an emission marks its node, or learns that it was marked.
LEMMA DisconnectMarkStep ==
  ASSUME SafetyInvariant, NEW a \in Activations, DisconnectMark(a)
  PROVE  SafetyInvariant'
<1> USE DEF SafetyInvariant, TypeOK, ThreadTypeOK, DisconnectMark, Goto, Take, Activations
<1>1. CASE Connected(unusable[hand[a]])
  <2> USE <1>1 DEF Acquire
  <2>1. TypeOK'
    <3>1. unusable' \in [Node -> Int] /\ HistoryTypeOK'
      BY MarkTyped
    <3> QED BY <3>1 DEF ListTypeOK, LinkTypeOK, NodeTypeOK, TrackTypeOK, linkVars, nodeVars,
               writerVars, trackVars, WriterSteps, EmitterSteps
  <2>2. MutexProtectsLinks'
    BY DEF MutexProtectsLinks, Critical
  <2>3. LocalsHold'
    BY FreeMutex DEF LocalsHold, OnNode, Critical, linkVars
  <2>4. DeadStaysMarked'
    BY MarkKeepsDead DEF nodeVars
  <2>5. PassedNodesLive' /\ CalledNodesLocked'
    BY DEF PassedNodesLive, CalledNodesLocked, Mark, trackVars
  <2> QED BY <2>1, <2>2, <2>3, <2>4, <2>5
<1>2. CASE ~Connected(unusable[hand[a]])
  <2> USE <1>2 DEF DisconnectReturns
  <2>1. TypeOK'
    <3>1. ThreadTypeOK'
      BY ReturnTyped
    <3> HIDE DEF ThreadTypeOK, DisconnectReturns
    <3> QED BY <3>1 DEF ListTypeOK, LinkTypeOK, NodeTypeOK, TrackTypeOK, HistoryTypeOK,
               linkVars, nodeVars, trackVars, history
  <2>2. MutexProtectsLinks'
    BY DEF MutexProtectsLinks, Critical
  <2>3. LocalsHold'
    BY DEF LocalsHold, OnNode, linkVars
  <2>4. DeadStaysMarked'
    BY DEF DeadStaysMarked, Known, nodeVars, history
  <2>5. PassedNodesLive' /\ CalledNodesLocked'
    BY DEF PassedNodesLive, CalledNodesLocked, trackVars, history
  <2> QED BY <2>1, <2>2, <2>3, <2>4, <2>5
<1> QED BY <1>1, <1>2

\* The holder of the mutex unlinks its node.
LEMMA DisconnectUnlinkStep ==
  ASSUME SafetyInvariant, NEW a \in Activations, DisconnectUnlink(a)
  PROVE  SafetyInvariant'
<1> USE DEF SafetyInvariant, TypeOK, ThreadTypeOK, DisconnectUnlink, DisconnectReturns,
            Goto, Take, Release, Activations
<1>1. TypeOK'
  <2>1. hand[a] \in Node
    BY DEF LocalsHold, OnNode, Link
  <2>2. LinkTypeOK'
    BY <2>1, UnlinkNodeTyped DEF ListTypeOK
  <2>3. ThreadTypeOK'
    BY ReturnTyped
  <2> HIDE DEF ThreadTypeOK, DisconnectReturns
  <2> QED BY <2>2, <2>3 DEF ListTypeOK, NodeTypeOK, TrackTypeOK, HistoryTypeOK, nodeVars,
             trackVars, history
<1>2. MutexProtectsLinks'
  BY DEF MutexProtectsLinks, Critical
<1>3. LocalsHold'
  BY DEF LocalsHold, MutexProtectsLinks, OnNode, Critical
<1>4. DeadStaysMarked'
  BY DEF DeadStaysMarked, Known, nodeVars, history
<1>5. PassedNodesLive' /\ CalledNodesLocked'
  BY DEF PassedNodesLive, CalledNodesLocked, trackVars, history
<1> QED BY <1>1, <1>2, <1>3, <1>4, <1>5

\* pop_back or pop_front marks the last or the first node.
LEMMA PopStep ==
  ASSUME SafetyInvariant, NEW w \in Writers, PopBack(w) \/ PopFront(w)
  PROVE  SafetyInvariant'
<1> USE DEF SafetyInvariant, TypeOK, ThreadTypeOK, PopBack, PopFront, Goto, Acquire, Activations
<1>1. TypeOK'
  <2>1. unusable' \in [Node -> Int] /\ HistoryTypeOK'
    BY MarkTyped DEF ListTypeOK, LinkTypeOK
  <2> QED BY <2>1 DEF ListTypeOK, LinkTypeOK, NodeTypeOK, TrackTypeOK, linkVars, nodeVars,
             writerVars, trackVars, WriterSteps
<1>2. MutexProtectsLinks'
  BY DEF MutexProtectsLinks, Critical
<1>3. LocalsHold'
  BY FreeMutex DEF LocalsHold, OnNode, Critical, linkVars
<1>4. DeadStaysMarked'
  BY MarkKeepsDead DEF nodeVars
<1>5. PassedNodesLive' /\ CalledNodesLocked'
  BY DEF PassedNodesLive, CalledNodesLocked, Mark, trackVars
<1> QED BY <1>1, <1>2, <1>3, <1>4, <1>5

\* ... and unlinks it.
LEMMA PopUnlinkStep ==
  ASSUME SafetyInvariant, NEW w \in Writers, PopUnlink(w)
  PROVE  SafetyInvariant'
<1> USE DEF SafetyInvariant, TypeOK, ThreadTypeOK, PopUnlink, Goto, Release, Activations
<1>1. TypeOK'
  <2>1. LinkTypeOK'
    BY UnlinkBackTyped, UnlinkFrontTyped DEF ListTypeOK, LocalsHold
  <2> QED BY <2>1 DEF ListTypeOK, NodeTypeOK, TrackTypeOK, HistoryTypeOK, nodeVars,
             writerVars, trackVars, history, WriterSteps
<1>2. MutexProtectsLinks'
  BY DEF MutexProtectsLinks, Critical
<1>3. LocalsHold'
  BY DEF LocalsHold, MutexProtectsLinks, OnNode, Critical
<1>4. DeadStaysMarked'
  BY DEF DeadStaysMarked, Known, nodeVars, history
<1>5. PassedNodesLive' /\ CalledNodesLocked'
  BY DEF PassedNodesLive, CalledNodesLocked, trackVars, history
<1> QED BY <1>1, <1>2, <1>3, <1>4, <1>5

\* clear() starts, marks one node, and drops the list.
LEMMA ClearStep ==
  ASSUME SafetyInvariant, NEW w \in Writers, Clear(w)
  PROVE  SafetyInvariant'
<1> USE DEF SafetyInvariant, TypeOK, ThreadTypeOK, Clear, Goto, Take, Acquire, Activations
<1>1. TypeOK'
  BY DEF ListTypeOK, LinkTypeOK, NodeTypeOK, TrackTypeOK, HistoryTypeOK,
         listVars, linkVars, nodeVars, writerVars, trackVars, history, WriterSteps
<1>2. MutexProtectsLinks'
  BY DEF MutexProtectsLinks, Critical
<1>3. LocalsHold'
  BY FreeMutex DEF LocalsHold, OnNode, Critical, listVars, linkVars
<1>4. DeadStaysMarked'
  BY DEF DeadStaysMarked, Known, listVars, nodeVars, history
<1>5. PassedNodesLive' /\ CalledNodesLocked'
  BY DEF PassedNodesLive, CalledNodesLocked, trackVars, history
<1> QED BY <1>1, <1>2, <1>3, <1>4, <1>5

\* clear() marks a node and moves on,
LEMMA ClearMarkStep ==
  ASSUME SafetyInvariant, NEW w \in Writers, ClearMark(w)
  PROVE  SafetyInvariant'
<1> USE DEF SafetyInvariant, TypeOK, ThreadTypeOK, ClearMark, Take, Activations
<1>1. TypeOK'
  <2>1. hand[w] \in Node
    BY DEF Link
  <2>2. next[hand[w]] \in Link
    BY <2>1 DEF ListTypeOK, LinkTypeOK
  <2>3. unusable' \in [Node -> Int] /\ HistoryTypeOK'
    BY MarkTyped
  <2> QED BY <2>2, <2>3 DEF ListTypeOK, LinkTypeOK, NodeTypeOK, TrackTypeOK, linkVars,
             nodeVars, writerVars, trackVars
<1>2. MutexProtectsLinks'
  BY DEF MutexProtectsLinks, Critical
<1>3. LocalsHold'
  BY DEF LocalsHold, OnNode, linkVars
<1>4. DeadStaysMarked'
  BY MarkKeepsDead DEF nodeVars
<1>5. PassedNodesLive' /\ CalledNodesLocked'
  BY DEF PassedNodesLive, CalledNodesLocked, Mark, trackVars
<1> QED BY <1>1, <1>2, <1>3, <1>4, <1>5

\* ... and drops the list.
LEMMA ClearUnlinkStep ==
  ASSUME SafetyInvariant, NEW w \in Writers, ClearUnlink(w)
  PROVE  SafetyInvariant'
<1> USE DEF SafetyInvariant, TypeOK, ThreadTypeOK, ClearUnlink, Goto, Release, Activations
<1>1. TypeOK'
  <2>1. LinkTypeOK'
    BY UnlinkAllTyped DEF ListTypeOK
  <2> QED BY <2>1 DEF ListTypeOK, NodeTypeOK, TrackTypeOK, HistoryTypeOK, nodeVars,
             writerVars, trackVars, history, WriterSteps
<1>2. MutexProtectsLinks'
  BY DEF MutexProtectsLinks, Critical
<1>3. LocalsHold'
  BY DEF LocalsHold, MutexProtectsLinks, OnNode, Critical
<1>4. DeadStaysMarked'
  BY DEF DeadStaysMarked, Known, nodeVars, history
<1>5. PassedNodesLive' /\ CalledNodesLocked'
  BY DEF PassedNodesLive, CalledNodesLocked, trackVars, history
<1> QED BY <1>1, <1>2, <1>3, <1>4, <1>5

\* erase() starts, marks one node, and relinks it.
LEMMA EraseStep ==
  ASSUME SafetyInvariant, NEW w \in Writers, NEW g \in Groups, Erase(w, g)
  PROVE  SafetyInvariant'
<1> USE DEF SafetyInvariant, TypeOK, ThreadTypeOK, Erase, Goto, Take, Acquire, Activations
<1>1. TypeOK'
  <2> DEFINE iter   == Locked(LowerBound(g), Held)
             endPos == Locked(UpperBound(g), Held)
  <2>1. /\ iter \in Link /\ endPos \in Link
        /\ iter # Null => iter \in Node
    BY LockedLink
  <2>2. LowerBound(g) \in Link
    BY SearchLink
  <2>3. head' \in Link /\ tail' \in Link
    <3>1. iter # Null => Locked(prev[iter], Held) \in Link
      BY LockedLink
    <3> QED BY <2>1, <3>1 DEF ListTypeOK, LinkTypeOK
  <2>4. fault' \in Faults
    BY DEF ListTypeOK, LinkTypeOK, Faults
  <2>5. LinkTypeOK'
    BY <2>3, <2>4 DEF ListTypeOK, LinkTypeOK
  <2>6. ThreadTypeOK'
    BY <2>1, <2>2 DEF WriterSteps
  <2> QED BY <2>5, <2>6 DEF ListTypeOK, NodeTypeOK, TrackTypeOK, HistoryTypeOK, nodeVars,
             trackVars, history
<1>2. MutexProtectsLinks'
  BY DEF MutexProtectsLinks, Critical
<1>3. LocalsHold'
  BY FreeMutex DEF LocalsHold, OnNode, Critical
<1>4. DeadStaysMarked'
  BY DEF DeadStaysMarked, Known, nodeVars, history
<1>5. PassedNodesLive' /\ CalledNodesLocked'
  BY DEF PassedNodesLive, CalledNodesLocked, trackVars, history
<1> QED BY <1>1, <1>2, <1>3, <1>4, <1>5

\* erase() marks a node,
LEMMA EraseMarkStep ==
  ASSUME SafetyInvariant, NEW w \in Writers, EraseMark(w)
  PROVE  SafetyInvariant'
<1> USE DEF SafetyInvariant, TypeOK, ThreadTypeOK, EraseMark, Goto, Activations
<1>1. TypeOK'
  <2>1. unusable' \in [Node -> Int] /\ HistoryTypeOK'
    <3>1. hand[w] # Null => unusable' \in [Node -> Int] /\ HistoryTypeOK'
      BY MarkTyped
    <3> QED BY <3>1 DEF ListTypeOK, NodeTypeOK, HistoryTypeOK, history
  <2> QED BY <2>1 DEF ListTypeOK, LinkTypeOK, NodeTypeOK, TrackTypeOK, Faults, linkVars,
             nodeVars, writerVars, trackVars, WriterSteps
<1>2. MutexProtectsLinks'
  BY DEF MutexProtectsLinks, Critical
<1>3. LocalsHold'
  BY DEF LocalsHold, OnNode, linkVars
<1>4. DeadStaysMarked'
  <2>1. CASE hand[w] # Null
    BY <2>1, MarkKeepsDead DEF nodeVars
  <2>2. CASE hand[w] = Null
    BY <2>2 DEF DeadStaysMarked, Known, nodeVars, history
  <2> QED BY <2>1, <2>2
<1>5. PassedNodesLive' /\ CalledNodesLocked'
  BY DEF PassedNodesLive, CalledNodesLocked, Mark, trackVars, history
<1> QED BY <1>1, <1>2, <1>3, <1>4, <1>5

\* ... and stores its next.
LEMMA EraseRelinkStep ==
  ASSUME SafetyInvariant, NEW w \in Writers, EraseRelink(w)
  PROVE  SafetyInvariant'
<1> USE DEF SafetyInvariant, TypeOK, ThreadTypeOK, EraseRelink, Goto, Take, Release, Activations
<1>1. TypeOK'
  <2>1. hand[w] \in Node
    BY DEF LocalsHold, OnNode, Link
  <2>2. next[hand[w]] \in Link /\ next' \in [Node -> Link]
    BY <2>1 DEF ListTypeOK, LinkTypeOK
  <2>3. LinkTypeOK'
    BY <2>2 DEF ListTypeOK, LinkTypeOK, Faults
  <2>4. Successor(pos[w]) \in Link
    BY SearchLink
  <2>5. ThreadTypeOK'
    BY <2>2, <2>4 DEF WriterSteps, Link
  <2> QED BY <2>3, <2>5 DEF ListTypeOK, NodeTypeOK, TrackTypeOK, HistoryTypeOK, nodeVars,
             trackVars, history
<1>2. MutexProtectsLinks'
  BY DEF MutexProtectsLinks, Critical
<1>3. LocalsHold'
  BY DEF LocalsHold, MutexProtectsLinks, OnNode, Critical
<1>4. DeadStaysMarked'
  BY DEF DeadStaysMarked, Known, nodeVars, history
<1>5. PassedNodesLive' /\ CalledNodesLocked'
  BY DEF PassedNodesLive, CalledNodesLocked, trackVars, history
<1> QED BY <1>1, <1>2, <1>3, <1>4, <1>5

\* block() and unblock().
LEMMA BlockStep ==
  ASSUME SafetyInvariant, NEW n \in Node, NEW d \in {-1, 1}, Block(n, d)
  PROVE  SafetyInvariant'
<1> USE DEF SafetyInvariant, Block
<1>1. must' \in [Emitters -> SUBSET Node]
  BY DEF TypeOK, HistoryTypeOK, history, Excuse
<1>2. unusable' \in [Node -> Int]
  BY DEF TypeOK, ListTypeOK, NodeTypeOK
<1>3. TypeOK'
  BY <1>1, <1>2 DEF TypeOK, ListTypeOK, LinkTypeOK, NodeTypeOK, ThreadTypeOK, TrackTypeOK,
     HistoryTypeOK, linkVars, nodeVars, writerVars, trackVars
<1>4. MutexProtectsLinks' /\ LocalsHold'
  BY DEF MutexProtectsLinks, LocalsHold, linkVars
<1>5. DeadStaysMarked'
  BY DEF DeadStaysMarked, Known, nodeVars, TypeOK, ListTypeOK, NodeTypeOK, Connected
<1>6. PassedNodesLive' /\ CalledNodesLocked'
  BY DEF PassedNodesLive, CalledNodesLocked, trackVars
<1> QED BY <1>3, <1>4, <1>5, <1>6

\* The last owner of a tracked object lets it go.
LEMMA ExpireStep ==
  ASSUME SafetyInvariant, NEW n \in Node, Expire(n)
  PROVE  SafetyInvariant'
<1> USE DEF SafetyInvariant, Expire
<1>1. must' \in [Emitters -> SUBSET Node]
  BY DEF TypeOK, HistoryTypeOK, Excuse
<1>2. TypeOK'
  BY <1>1 DEF TypeOK, ListTypeOK, LinkTypeOK, NodeTypeOK, ThreadTypeOK, TrackTypeOK,
     HistoryTypeOK, listVars, linkVars, nodeVars, writerVars
<1>3. MutexProtectsLinks' /\ LocalsHold'
  BY DEF MutexProtectsLinks, LocalsHold, listVars, linkVars
<1>4. DeadStaysMarked'
  BY DEF DeadStaysMarked, Known, listVars, nodeVars
<1>5. PassedNodesLive' /\ CalledNodesLocked'
  BY DEF PassedNodesLive, CalledNodesLocked
<1> QED BY <1>2, <1>3, <1>4, <1>5

-----------------------------------------------------------------------------
(* The emissions                                                           *)

\* emit() loads head.
LEMMA EmitStarts ==
  ASSUME SafetyInvariant, NEW e \in Emitters, Emit(e)
  PROVE  SafetyInvariant'
<1> USE DEF SafetyInvariant, TypeOK, ThreadTypeOK, Emit, Goto, Take, Activations
<1>1. TypeOK'
  <2>1. Known \subseteq Node
    BY DEF Known, Node, ListTypeOK, NodeTypeOK
  <2>2. /\ must' \in [Emitters -> SUBSET Node] /\ dead' \in [Emitters -> SUBSET Node]
    BY <2>1 DEF HistoryTypeOK
  <2>3. HistoryTypeOK'
    BY <2>2 DEF HistoryTypeOK
  <2>4. ThreadTypeOK'
    BY DEF ListTypeOK, LinkTypeOK, writerVars, EmitterSteps
  <2>5. ListTypeOK' /\ TrackTypeOK'
    BY DEF ListTypeOK, LinkTypeOK, NodeTypeOK, TrackTypeOK, listVars, linkVars, nodeVars, trackVars
  <2> QED BY <2>3, <2>4, <2>5
<1>2. MutexProtectsLinks' /\ LocalsHold'
  BY DEF MutexProtectsLinks, LocalsHold, Critical, OnNode, listVars, linkVars
<1>3. DeadStaysMarked'
  BY DEF DeadStaysMarked, Known, listVars, nodeVars, HistoryTypeOK
<1>4. PassedNodesLive' /\ CalledNodesLocked'
  BY DEF PassedNodesLive, CalledNodesLocked, trackVars, HistoryTypeOK
<1> QED BY <1>1, <1>2, <1>3, <1>4

\* usable() lets only a connected node pass.
LEMMA CheckUsableStep ==
  ASSUME SafetyInvariant, NEW e \in Emitters, CheckUsable(e)
  PROVE  SafetyInvariant'
<1> USE DEF SafetyInvariant, TypeOK, ThreadTypeOK, CheckUsable, Goto, Activations
<1>1. TypeOK'
  BY DEF ListTypeOK, LinkTypeOK, NodeTypeOK, TrackTypeOK, HistoryTypeOK, listVars, linkVars,
         nodeVars, writerVars, trackVars, history, EmitterSteps
<1>2. MutexProtectsLinks' /\ LocalsHold'
  BY DEF MutexProtectsLinks, LocalsHold, Critical, OnNode, listVars, linkVars
<1>3. DeadStaysMarked'
  BY DEF DeadStaysMarked, Known, listVars, nodeVars, history
<1>4. PassedNodesLive' /\ CalledNodesLocked'
  BY DEF PassedNodesLive, CalledNodesLocked, trackVars, history, DeadStaysMarked, Usable, listVars
<1> QED BY <1>1, <1>2, <1>3, <1>4

\* A slot is called only with its object locked.
LEMMA TryLockStep ==
  ASSUME SafetyInvariant, NEW e \in Emitters, TryLock(e)
  PROVE  SafetyInvariant'
<1> USE DEF SafetyInvariant, TypeOK, ThreadTypeOK, TryLock, Goto, Activations
<1>1. TypeOK'
  <2>1. hand[e] \in Node
    BY DEF LocalsHold, OnNode, Link
  <2>2. locks' \in [Emitters -> SUBSET Node]
    BY <2>1 DEF TrackTypeOK
  <2> QED BY <2>2 DEF ListTypeOK, LinkTypeOK, NodeTypeOK, TrackTypeOK, HistoryTypeOK, listVars,
             linkVars, nodeVars, writerVars, history, EmitterSteps
<1>2. MutexProtectsLinks' /\ LocalsHold'
  BY DEF MutexProtectsLinks, LocalsHold, Critical, OnNode, listVars, linkVars
<1>3. DeadStaysMarked'
  BY DEF DeadStaysMarked, Known, listVars, nodeVars, history
<1>4. PassedNodesLive' /\ CalledNodesLocked'
  BY DEF PassedNodesLive, CalledNodesLocked, TrackTypeOK, history
<1> QED BY <1>1, <1>2, <1>3, <1>4

\* The slot is called,
LEMMA CallSlotStep ==
  ASSUME SafetyInvariant, NEW e \in Emitters, CallSlot(e)
  PROVE  SafetyInvariant'
<1> USE DEF SafetyInvariant, TypeOK, ThreadTypeOK, CallSlot, Goto, Activations
<1>1. TypeOK'
  <2>1. hand[e] \in Node
    BY DEF LocalsHold, OnNode, Link
  <2>2. called[e] \in Seq(Node) /\ Append(called[e], hand[e]) \in Seq(Node)
    BY <2>1 DEF HistoryTypeOK
  <2>3. HistoryTypeOK'
    BY <2>2 DEF HistoryTypeOK
  <2>4. fault' \in Faults
    BY DEF ListTypeOK, LinkTypeOK, Faults
  <2>5. locks' \in [Emitters -> SUBSET Node]
    BY DEF TrackTypeOK
  <2> QED BY <2>3, <2>4, <2>5 DEF ListTypeOK, LinkTypeOK, NodeTypeOK, TrackTypeOK, linkVars,
             nodeVars, writerVars, EmitterSteps
<1>2. MutexProtectsLinks' /\ LocalsHold'
  BY DEF MutexProtectsLinks, LocalsHold, Critical, OnNode, listVars, linkVars
<1>3. DeadStaysMarked'
  BY DEF DeadStaysMarked, Known, nodeVars
<1>4. PassedNodesLive' /\ CalledNodesLocked'
  BY DEF PassedNodesLive, CalledNodesLocked, TrackTypeOK
<1> QED BY <1>1, <1>2, <1>3, <1>4

\* ... and the emission moves on.
LEMMA AdvanceStep ==
  ASSUME SafetyInvariant, NEW e \in Emitters, Advance(e)
  PROVE  SafetyInvariant'
<1> USE DEF SafetyInvariant, TypeOK, ThreadTypeOK, Advance, Goto, Take, Activations
<1>1. TypeOK'
  <2>1. hand[e] \in Node
    BY DEF LocalsHold, OnNode, Link
  <2>2. next[hand[e]] \in Link
    BY <2>1 DEF ListTypeOK, LinkTypeOK
  <2> QED BY <2>2 DEF ListTypeOK, LinkTypeOK, NodeTypeOK, TrackTypeOK, HistoryTypeOK, listVars,
             linkVars, nodeVars, writerVars, trackVars, history, EmitterSteps
<1>2. MutexProtectsLinks' /\ LocalsHold'
  BY DEF MutexProtectsLinks, LocalsHold, Critical, OnNode, listVars, linkVars
<1>3. DeadStaysMarked'
  BY DEF DeadStaysMarked, Known, listVars, nodeVars, history
<1>4. PassedNodesLive' /\ CalledNodesLocked'
  BY DEF PassedNodesLive, CalledNodesLocked, trackVars, history
<1> QED BY <1>1, <1>2, <1>3, <1>4

\* An emission that returns or unwinds leaves nothing behind.
LEMMA ForgetTyped ==
  ASSUME TypeOK, NEW e \in Emitters, ForgetEmission(e), UNCHANGED <<mutex, writerVars>>
  PROVE  ThreadTypeOK' /\ HistoryTypeOK'
<1> USE DEF TypeOK, ForgetEmission, Goto, Take, Activations
<1>1. ThreadTypeOK'
  BY DEF ThreadTypeOK, writerVars, EmitterSteps, Link
<1>2. called' \in [Emitters -> Seq(Node)]
  BY DEF HistoryTypeOK
<1>3. must' \in [Emitters -> SUBSET Node] /\ dead' \in [Emitters -> SUBSET Node]
  BY DEF HistoryTypeOK
<1> QED BY <1>1, <1>2, <1>3 DEF HistoryTypeOK

\* An emission ends.
LEMMA EmissionLeaves ==
  ASSUME SafetyInvariant, NEW e \in Emitters, EmitReturns(e) \/ SlotThrows(e)
  PROVE  SafetyInvariant'
<1> USE DEF SafetyInvariant, EmitReturns, SlotThrows
<1>1. ForgetEmission(e) /\ UNCHANGED <<listVars, mutex, writerVars, owned>>
  BY DEF trackVars
<1>2. ThreadTypeOK' /\ HistoryTypeOK'
  BY <1>1, ForgetTyped
<1>3. TrackTypeOK'
  BY DEF TypeOK, TrackTypeOK, trackVars
<1>4. ListTypeOK'
  BY <1>1 DEF TypeOK, ListTypeOK, LinkTypeOK, NodeTypeOK, listVars, linkVars, nodeVars
<1>5. MutexProtectsLinks' /\ LocalsHold'
  BY <1>1 DEF MutexProtectsLinks, LocalsHold, Critical, OnNode, ForgetEmission, Goto, Take,
     TypeOK, ThreadTypeOK, Activations, listVars, linkVars
<1>6. DeadStaysMarked'
  BY <1>1 DEF DeadStaysMarked, Known, ForgetEmission, TypeOK, HistoryTypeOK, listVars, nodeVars
<1>7. PassedNodesLive' /\ CalledNodesLocked'
  BY <1>1 DEF PassedNodesLive, CalledNodesLocked, ForgetEmission, Goto, Take, TypeOK,
     ThreadTypeOK, TrackTypeOK, HistoryTypeOK, Activations, trackVars
<1> QED BY <1>2, <1>3, <1>4, <1>5, <1>6, <1>7 DEF TypeOK

-----------------------------------------------------------------------------
(* The invariant                                                           *)

\* The first state is safe,
LEMMA InitSafe == Init => SafetyInvariant
<1> SUFFICES ASSUME Init PROVE SafetyInvariant
  OBVIOUS
<1> USE DEF Init, ListInit
<1>1. ListTypeOK
  BY DEF ListTypeOK, LinkTypeOK, NodeTypeOK, Link, Kinds, Faults, Node, Null
<1>2. ThreadTypeOK
  BY DEF ThreadTypeOK, Link, WriterSteps, EmitterSteps, Activations
<1>3. TrackTypeOK /\ HistoryTypeOK
  BY DEF TrackTypeOK, HistoryTypeOK
<1>4. MutexProtectsLinks /\ LocalsHold
  BY DEF MutexProtectsLinks, LocalsHold, Critical, OnNode, Activations
<1>5. DeadStaysMarked /\ PassedNodesLive /\ CalledNodesLocked
  BY DEF DeadStaysMarked, PassedNodesLive, CalledNodesLocked, Activations
<1> QED BY <1>1, <1>2, <1>3, <1>4, <1>5 DEF SafetyInvariant, TypeOK

\* ... a step that changes nothing keeps it so,
LEMMA StutterSafe ==
  ASSUME SafetyInvariant, UNCHANGED vars
  PROVE  SafetyInvariant'
<1> USE DEF vars, threadVars, listVars, linkVars, nodeVars, writerVars, trackVars, history
<1>1. TypeOK'
  BY DEF SafetyInvariant, TypeOK, ListTypeOK, LinkTypeOK, NodeTypeOK, ThreadTypeOK,
     TrackTypeOK, HistoryTypeOK
<1>2. MutexProtectsLinks' /\ LocalsHold' /\ DeadStaysMarked' /\ PassedNodesLive' /\ CalledNodesLocked'
  BY DEF SafetyInvariant, MutexProtectsLinks, LocalsHold, DeadStaysMarked, PassedNodesLive,
     CalledNodesLocked, Known
<1> QED BY <1>1, <1>2 DEF SafetyInvariant

\* ... and so does every other.
LEMMA NextSafe == SafetyInvariant /\ [Next]_vars => SafetyInvariant'
<1> SUFFICES ASSUME SafetyInvariant, [Next]_vars PROVE SafetyInvariant'
  OBVIOUS
<1>1. ASSUME NEW w \in Writers, StartWrite(w)
      PROVE  SafetyInvariant'
  BY <1>1, PushStep, DisconnectStep, PopStep, ClearStep, EraseStep DEF StartWrite
<1>2. ASSUME NEW w \in Writers, FinishWrite(w)
      PROVE  SafetyInvariant'
  BY <1>2, DisconnectMarkStep, DisconnectUnlinkStep, PopUnlinkStep, ClearMarkStep,
     ClearUnlinkStep, EraseMarkStep, EraseRelinkStep DEF FinishWrite, Activations
<1>3. ASSUME NEW e \in Emitters, Emit(e) \/ EmitStep(e)
      PROVE  SafetyInvariant'
  BY <1>3, EmitStarts, CheckUsableStep, TryLockStep, CallSlotStep, EmissionLeaves,
     DisconnectMarkStep, DisconnectUnlinkStep, AdvanceStep DEF EmitStep, Activations
<1>4. ASSUME NEW n \in Node, Expire(n) \/ \E d \in {-1, 1} : Block(n, d)
      PROVE  SafetyInvariant'
  BY <1>4, ExpireStep, BlockStep
<1>5. CASE UNCHANGED vars
  BY <1>5, StutterSafe
<1> QED BY <1>1, <1>2, <1>3, <1>4, <1>5 DEF Next

\* In every behaviour, whatever the client uses: the variables have their
\* types, the critical sections exclude each other, no step goes through a
\* null local, marks outlast the emissions that saw them.
THEOREM Safety == Spec => []SafetyInvariant
BY InitSafe, NextSafe, PTL DEF Spec

\* The variables have their types.
THEOREM TypeCorrect == Spec => []TypeOK
BY Safety, PTL DEF SafetyInvariant

\* No step goes through a null local (signal.hpp:338, 389, 397, 932, 992-1005,
\* 1106).
THEOREM LocalsAlwaysHold == Spec => []LocalsHold
BY Safety, PTL DEF SafetyInvariant

\* No emission calls a slot that was disconnected before the emission began,
\* for any number of threads, nodes and groups and any operations.
THEOREM DeadSlotsNotCalled == Spec => []NoCallAfterDisconnect
<1>1. SafetyInvariant => NoCallAfterDisconnect
  BY DEF SafetyInvariant, PassedNodesLive, NoCallAfterDisconnect
<1> QED BY <1>1, Safety, PTL

\* The object a slot tracks lives as long as any emission runs the slot.
THEOREM ObjectsLiveWhileCalled == Spec => []TrackedWhileCalled
<1>1. SafetyInvariant => TrackedWhileCalled
  BY DEF SafetyInvariant, CalledNodesLocked, TrackedWhileCalled, Lockable
<1> QED BY <1>1, Safety, PTL

\* Nobody changes what the client uses.
LEMMA ApiStays == [Next]_vars => api' = api
<1> SUFFICES ASSUME [Next]_vars PROVE api' = api
  OBVIOUS
<1> USE DEF threadVars, writerVars
<1>1. ASSUME NEW w \in Writers, StartWrite(w) PROVE api' = api
  BY <1>1 DEF StartWrite, PushBack, PushFront, Insert, Connect, Disconnect, PopBack, PopFront,
     Clear, Erase
<1>2. ASSUME NEW w \in Writers, FinishWrite(w) PROVE api' = api
  BY <1>2 DEF FinishWrite, DisconnectMark, DisconnectUnlink, PopUnlink, ClearMark,
     ClearUnlink, EraseMark, EraseRelink
<1>3. ASSUME NEW e \in Emitters, Emit(e) \/ EmitStep(e) PROVE api' = api
  BY <1>3 DEF EmitStep, Emit, CheckUsable, TryLock, CallSlot, SlotThrows, DisconnectMark,
     DisconnectUnlink, Advance, EmitReturns
<1>4. ASSUME NEW n \in Node, Expire(n) \/ \E d \in {-1, 1} : Block(n, d) PROVE api' = api
  BY <1>4 DEF Expire, Block
<1>5. CASE UNCHANGED vars
  BY <1>5 DEF vars
<1> QED BY <1>1, <1>2, <1>3, <1>4, <1>5 DEF Next
=============================================================================
