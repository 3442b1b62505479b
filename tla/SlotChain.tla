----------------------------- MODULE SlotChain ------------------------------
(***************************************************************************)
(* The list of a signal whose client connects at the back only: its nodes  *)
(* are listed by number, so what the list looks like can be said with      *)
(* numbers.                                                                *)
(***************************************************************************)
EXTENDS SlotList

\* The nodes of L hang together from head to tail, in both directions, by
\* number.  The prev of head is whatever pop_front_impl left there.
Chain(L) ==
  /\ L \subseteq Known
  /\ L = {} => head = Null /\ tail = Null
  /\ L # {} => head \in L /\ tail \in L /\ next[tail] = Null
  /\ \A n \in L :
       /\ head <= n /\ n <= tail
       /\ n # tail => next[n] \in L
       /\ n # head => prev[n] \in L /\ next[prev[n]] = n

\* Every node, also one that was unlinked long ago, leads to greater ones and
\* passes over nothing that is listed.
NextPasses(L) ==
  \A n \in Node :
    next[n] # Null =>
      /\ n \in Known /\ next[n] \in Known /\ n < next[n]
      /\ \A m \in L : m <= n \/ next[n] <= m
=============================================================================
