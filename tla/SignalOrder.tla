----------------------------- MODULE SignalOrder -----------------------------
(***************************************************************************)
(* Why an emission meets slots in order and none twice, whatever happens   *)
(* to the list while it walks: no link, not even one that is stale or that *)
(* a defect of the code left behind, ever leads against the order of the   *)
(* slots.                                                                  *)
(*                                                                         *)
(* erase() alone stores links without regard to the order.                 *)
(***************************************************************************)
EXTENDS SignalProperties

\* The nodes made since clear() emptied the list for the last time, when b
\* was the next to be made.
Since(b) == b..(fresh - 1)

\* m comes before n, and both were made on the same side of b.
Leads(b, m, n) ==
  /\ m \in Known /\ n \in Known
  /\ m \in Since(b) <=> n \in Since(b)
  /\ Precedes(m, n)

LinksInOrder(b) ==
  \A n \in Node :
    /\ next[n] # Null => Leads(b, n, next[n])
    /\ prev[n] # Null => Leads(b, prev[n], n)

\* What the functions of the list start from was made since, and
\* group_storage misses none of the grouped nodes, dead ones included.
EntriesSince(b) ==
  /\ \A n \in {head, tail, groupHead} : n # Null => n \in Since(b)
  /\ storage = {n \in Since(b) : kind[n] = "group"}

\* group_head is the last of the front slots: insert() hooks behind it.
FrontsFirst ==
  /\ \A n \in Known : kind[n] = "front" => prev[n] = Null
  /\ groupHead # Null =>
       /\ kind[groupHead] = "front"
       /\ next[groupHead] # Null => kind[next[groupHead]] # "front"
  /\ groupHead = Null /\ head # Null => kind[head] # "front"

OrderedSince(b) ==
  /\ \A n \in Known : kind[n] # "none"
  /\ LinksInOrder(b) /\ EntriesSince(b) /\ FrontsFirst

Ordered == \E b \in 1..fresh : OrderedSince(b)

\* What an emission has called lies behind the node it stands on.
CalledBehind(e) ==
  /\ \A i \in DOMAIN called[e] : called[e][i] \in Known
  /\ \A i, j \in DOMAIN called[e] : i < j => Precedes(called[e][i], called[e][j])
  /\ pc[e] = "idle" => called[e] = <<>>
  /\ hand[e] # Null => hand[e] \in Known
  /\ pc[e] \in {"check", "try_lock", "call", "disconnect", "unlink"} =>
       \A i \in DOMAIN called[e] : Precedes(called[e][i], hand[e])
  /\ pc[e] = "advance" =>
       \A i \in DOMAIN called[e] : called[e][i] = hand[e] \/ Precedes(called[e][i], hand[e])

\* The inductive invariant behind CalledInOrder and CalledOnce, with
\* SafetyInvariant (signal.hpp:244-283, 327-431, 470-516, 985-1011).
OrderInvariant ==
  "erase" \notin api =>
    /\ fault = "none" => Ordered
    /\ \A e \in Emitters : CalledBehind(e)
    /\ \A w \in Writers : pc[w] \notin {"erase_mark", "erase_relink"}
=============================================================================
