---------------------------- MODULE SignalForward ----------------------------
(***************************************************************************)
(* A signal whose clients take nothing off the list but its head or all of *)
(* it: no call of theirs follows a prev.                                   *)
(*                                                                         *)
(* Then no node that can be reached along next is ever cut off from where  *)
(* an emission stands, and the invariant can be said with Reach.           *)
(***************************************************************************)
EXTENDS SignalQueue

FrontOperations == {"push_front", "push_back", "pop_front", "clear", "block", "throw"}

GroupOperations == {"insert", "push_back", "clear", "block", "throw"}

ForwardClient == api \subseteq FrontOperations \/ api \subseteq GroupOperations

\* The clients whose list stays whole.
WholeClient == QueueClient \/ ForwardClient

-----------------------------------------------------------------------------
\* head leads to tail, and nothing behind it.
Ends ==
  /\ head = Null <=> tail = Null
  /\ tail # Null => tail \in Listed
  /\ \A n \in Listed : next[n] = Null <=> n = tail

\* What insert() starts from can be locked, for it is on the list.
StorageListed ==
  /\ storage \subseteq Listed
  /\ "insert" \notin api => storage = {}
  /\ "push_front" \notin api => groupHead = Null

\* What the holder of the mutex has marked of the list: the head it is about
\* to unlink, or all that clear() has come past.
HolderMarks(w) ==
  /\ pc[w] = "unlink_front" =>
       /\ "pop_front" \in api
       /\ head \in Listed /\ \A n \in Listed : Connected(unusable[n]) <=> n # head
  /\ pc[w] = "clear" =>
       /\ hand[w] # Null => hand[w] \in Listed
       /\ \A n \in Listed : Connected(unusable[n]) <=> n \in Reach({hand[w]})

\* Connected nodes are listed, and only the holder's marks are on the list.
MarksForward ==
  /\ \A n \in Known : Connected(unusable[n]) => n \in Listed
  /\ mutex = Free => \A n \in Listed : Connected(unusable[n])
  /\ \A w \in Writers : HolderMarks(w)

\* No call needs a prev.
ForwardOnly ==
  /\ fault = "none" /\ extended = {} /\ owned = Node
  /\ \A a \in Activations :
       pc[a] \notin {"disconnect", "unlink", "unlink_back", "erase_mark", "erase_relink"}

\* What an emission has to call and has not called lies ahead of it, on the
\* list or off it.
AheadOf(e) ==
  /\ pc[e] \in AtNode => \A n \in must[e] : Called(e, n) \/ n \in Ahead(e)
  /\ pc[e] = "advance" => \A n \in must[e] : Called(e, n) \/ n \in Ahead(e) \ {hand[e]}
  /\ pc[e] = "done" => \A n \in must[e] : Called(e, n)

MustAhead == \A e \in Emitters : AheadOf(e)

-----------------------------------------------------------------------------
Forward ==
  /\ Ends /\ StorageListed /\ MarksForward
  /\ ForwardOnly /\ MustCallable /\ MustAhead

\* For either kind of client, the list is whole, and every emission still
\* comes to all it has to call; with SafetyInvariant, and for the clients
\* that need no prev OrderInvariant, this is inductive (signal.hpp:244-283,
\* 327-392, 470-516, 979-1128).
ListInvariant == QueueInvariant /\ (ForwardClient => Forward)
=============================================================================
