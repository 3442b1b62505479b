----------------------------- MODULE SignalQueue -----------------------------
(***************************************************************************)
(* A signal used as a queue: its clients connect at the back only.         *)
(*                                                                         *)
(* Then the nodes are listed by number, and the invariant of the list and  *)
(* of the emissions that walk it can be said with numbers.                 *)
(***************************************************************************)
EXTENDS SignalProperties, SlotChain

QueueOperations == {"push_back", "pop_front", "disconnect", "clear", "block",
                    "expire", "throw"}

\* The client of this signal keeps to them.
QueueClient == api \subseteq QueueOperations

\* What a build has to grant: words that start as counts, and counts that
\* stay away from the sentinel.
PlainWords ==
  /\ \A word \in InitialWords : Connected(word)
  /\ Disconnected \notin (-MaxBlock)..MaxBlock

-----------------------------------------------------------------------------
\* What the holder of the mutex has marked of the list so far: the node it
\* is about to unlink, or in clear() all it has come past.
MarksOf(L, a) ==
  /\ pc[a] = "unlink" =>
       hand[a] \in L /\ \A n \in L : Connected(unusable[n]) <=> n # hand[a]
  /\ pc[a] = "unlink_front" =>
       L # {} /\ \A n \in L : Connected(unusable[n]) <=> n # head
  /\ pc[a] = "clear" =>
       /\ hand[a] # Null => hand[a] \in L
       /\ \A n \in L : Connected(unusable[n]) <=> hand[a] # Null /\ hand[a] <= n
  /\ pc[a] \notin {"unlink_back", "erase_mark", "erase_relink"}

\* Connected nodes are listed, and only the holder's marks are on the list.
MarksMatch(L) ==
  /\ \A n \in Known : Connected(unusable[n]) => n \in L
  /\ mutex = Free => \A n \in L : Connected(unusable[n])
  /\ \A a \in Activations : MarksOf(L, a)

QueueOnly ==
  /\ fault = "none" /\ groupHead = Null /\ extended = {}
  /\ \A n \in Known : kind[n] = "back"
  /\ \A a \in Activations : hand[a] # Null => hand[a] \in Known

-----------------------------------------------------------------------------
Ahead(e) == Reach({hand[e]})

Called(e, n) == \E i \in DOMAIN called[e] : called[e][i] = n

\* The steps of an emission between which it stands on one node.
AtNode == {"check", "try_lock", "call", "disconnect", "unlink"}

\* An emission has called some of the nodes behind it, by number, and among
\* them all it had to.
CallsOf(e) ==
  /\ \A i, j \in DOMAIN called[e] : i < j => called[e][i] < called[e][j]
  /\ \A n \in Node : Called(e, n) => n \in Known
  /\ pc[e] = "idle" => called[e] = <<>>
  /\ pc[e] \in AtNode =>
       /\ \A n \in Node : Called(e, n) => n < hand[e]
       /\ \A n \in must[e] : Called(e, n) \/ hand[e] <= n
  /\ pc[e] = "advance" =>
       /\ \A n \in Node : Called(e, n) => n <= hand[e]
       /\ \A n \in must[e] : Called(e, n) \/ hand[e] < n
  /\ pc[e] = "done" => \A n \in must[e] : Called(e, n)

CalledSoFar == \A e \in Emitters : CallsOf(e)

MustCallable ==
  \A e \in Emitters :
    /\ \A n \in must[e] : n \in Known /\ Callable(n)
    /\ pc[e] \in {"disconnect", "unlink"} => hand[e] \notin must[e]

\* Where the way of an emission ends off the list, nothing that it must call
\* lies behind: the node was the tail after the emission had begun.
WayEnds(L) ==
  \A e \in Emitters : \A n \in Ahead(e) \ L :
    next[n] = Null => \A m \in must[e] : m <= n

-----------------------------------------------------------------------------
Queue(L) ==
  /\ Chain(L) /\ NextPasses(L) /\ MarksMatch(L) /\ WayEnds(L)
  /\ QueueOnly /\ CalledSoFar /\ MustCallable

\* The inductive invariant of such a signal, with SafetyInvariant.
QueueInvariant == QueueClient => Queue(Listed)
=============================================================================
