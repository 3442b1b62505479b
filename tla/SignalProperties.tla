-------------------------- MODULE SignalProperties --------------------------
(***************************************************************************)
(* What a signal owes its clients.                                         *)
(***************************************************************************)
EXTENDS Signal

(***************************************************************************)
(* Whatever operations the client uses                                     *)
(***************************************************************************)

\* A slot whose disconnect was marked before emit() loaded head is not
\* called by that emission, although the emission walks without the mutex
\* and may stand on nodes that are unlinked already (signal.hpp:990-1011,
\* 1101-1125).
NoCallAfterDisconnect ==
  \A e \in Emitters : pc[e] = "call" => hand[e] \notin dead[e]

\* The object a slot tracks is not destroyed while the slot runs, even if
\* its last owner lets go after try_lock() (slots.hpp:98-118).
TrackedWhileCalled ==
  \A e \in Emitters : pc[e] = "call" => Lockable(hand[e])

\* Between taking and releasing the mutex an activation is alone: the steps
\* that relink the list are only reached by the holder (lock_guard_type).
Critical == {"unlink", "unlink_back", "unlink_front", "clear", "erase_mark",
             "erase_relink"}

MutexProtectsLinks == \A a \in Activations : pc[a] \in Critical <=> mutex = a

\* Every step that goes through a local pointer, head or tail without asking
\* finds a node there, although others connect and disconnect meanwhile: an
\* emission on its way, a disconnect that waited for the mutex, a pop between
\* its mark and its unlinking (signal.hpp:338, 389, 397, 932, 992-1005, 1106).
OnNode == {"disconnect", "unlink", "erase_relink", "check", "try_lock", "call",
           "advance"}

LocalsHold ==
  /\ \A a \in Activations : pc[a] \in OnNode => hand[a] # Null
  /\ \A w \in Writers :
       /\ pc[w] = "unlink_back" => tail # Null
       /\ pc[w] = "unlink_front" => head # Null

\* What an emission found dead when it began stays marked, and it has not
\* gone past usable() with such a node; a slot being called is locked.  With
\* the type invariant and the two invariants above this is inductive.
DeadStaysMarked ==
  \A e \in Emitters : \A n \in dead[e] : n \in Known /\ ~Connected(unusable[n])

PassedNodesLive ==
  \A e \in Emitters : pc[e] \in {"try_lock", "call"} => hand[e] \notin dead[e]

CalledNodesLocked ==
  \A e \in Emitters : pc[e] = "call" => hand[e] \in locks[e]

SafetyInvariant ==
  /\ TypeOK
  /\ MutexProtectsLinks
  /\ LocalsHold
  /\ DeadStaysMarked
  /\ PassedNodesLive
  /\ CalledNodesLocked

(***************************************************************************)
(* For every client that does not use erase(), on a damaged list too       *)
(***************************************************************************)

\* Front slots before grouped before back slots; of the front slots the
\* latest first, of a group and of the back slots the earliest first.
Rank(n) == CASE kind[n] = "front" -> 0 [] kind[n] = "group" -> 1 [] OTHER -> 2

Precedes(m, n) ==
  \/ Rank(m) < Rank(n)
  \/ kind[m] = "front" /\ kind[n] = "front" /\ m > n
  \/ kind[m] = "group" /\ kind[n] = "group" /\ Before(m, n)
  \/ kind[m] = "back" /\ kind[n] = "back" /\ m < n

\* Every emission calls its slots in that order (push_front_impl,
\* insert_impl and push_back_impl, signal.hpp:244-283, 470-516).  erase()
\* may link a slot to an earlier one, or to itself (signal.hpp:932).
CalledInOrder ==
  "erase" \notin api =>
    \A e \in Emitters :
      \A i, j \in DOMAIN called[e] : i < j => Precedes(called[e][i], called[e][j])

\* No emission calls a slot twice, whatever is relinked under its feet while
\* it walks without the mutex (signal.hpp:1096-1128).
CalledOnce ==
  "erase" \notin api =>
    \A e \in Emitters :
      \A i, j \in DOMAIN called[e] : i # j => called[e][i] # called[e][j]

(***************************************************************************)
(* For the operations that keep the list whole                             *)
(***************************************************************************)

\* No call dereferences a null pointer, moves an iterator past the end or
\* calls a node through a wrong type (signal.hpp:421-422, 484, 921, 930-935,
\* 1087).
NoFault == fault = "none"

\* Outside the critical sections every slot that nobody disconnected can be
\* reached from head (README:102, "always atomically a consistent singly
\* linked list").
NoSlotLost ==
  mutex = Free => \A n \in Known : Connected(unusable[n]) => n \in Listed

\* ... and every slot that was disconnected has been taken off the list, so
\* no node is left behind by the steps between its mark and its unlinking.
NoDeadSlotListed ==
  mutex = Free => \A n \in Listed : Connected(unusable[n])

\* Outside the critical sections the walk from head ends in tail, where
\* push_back_impl hooks on the next slot (signal.hpp:257-259).
EndsInTail ==
  mutex = Free =>
    /\ head = Null <=> tail = Null
    /\ tail # Null => tail \in Listed
    /\ \A n \in Listed : next[n] = Null <=> n = tail

\* Outside the critical sections the list is doubly linked (README:102, "a
\* doubly-linked list") for a client that connects at the back only; neither
\* push_front_impl nor insert_impl sets the prev of the node that follows.
DoublyLinked ==
  mutex = Free /\ {"push_front", "insert"} \cap api = {} =>
    \A n \in Listed : next[n] # Null => prev[next[n]] = n

\* An emission that returns has called every slot that was connected,
\* unblocked and not expired from before it began until now.
EmissionComplete ==
  \A e \in Emitters :
    pc[e] = "done" => \A n \in must[e] : \E i \in DOMAIN called[e] : called[e][i] = n

(***************************************************************************)
(* Progress                                                                *)
(***************************************************************************)

EmissionEnds == \A e \in Emitters : pc[e] # "idle" ~> pc[e] = "idle"

WriteEnds == \A w \in Writers : pc[w] # "idle" ~> pc[w] = "idle"

\* An emission ends although nothing is assumed of the threads that hold the
\* mutex (README:10, "lock-free* emits"), as long as no slot expires: then
\* the loops of signal.hpp:990-1011 and 1103-1125 never wait.
EmissionsDoNotWait == "expire" \notin api => EmissionEnds

\* With fair scheduling of everybody, every emission and every call that
\* changes the signal ends, waiting for the mutex included, also when
\* emissions disconnect expired slots (signal.hpp:394-425, 1121).
CallsEnd == WriteFairness => EmissionEnds /\ WriteEnds
=============================================================================
