-------------------------- MODULE SignalRefinement --------------------------
(***************************************************************************)
(* A signal whose list is walked without a mutex looks to its clients like *)
(* one sequence of slots.                                                  *)
(***************************************************************************)
EXTENDS SignalProperties

\* A slot is disconnected when its word is marked, although it is unlinked
\* only later.
Gone == {n \in Known : ~Connected(unusable[n])}

Ready == {n \in Known : Callable(n)}

Seen(e) == {called[e][i] : i \in DOMAIN called[e]}

Phase(e) == CASE pc[e] = "idle" -> "idle"
              [] pc[e] = "done" -> "complete"
              [] OTHER -> "running"

Sequence == INSTANCE SlotSequence
  WITH Slots <- Node, Emissions <- Emitters,
       slots <- Met, before <- MetBefore, gone <- Gone, ready <- Ready,
       phase <- [e \in Emitters |-> Phase(e)],
       seen <- [e \in Emitters |-> Seen(e)],
       owed <- [e \in Emitters |-> must[e] \ Seen(e)],
       barred <- dead

\* Every call appears to act at once on one sequence of slots: a connection
\* when the node is stored, a disconnect when its word is marked, whatever an
\* emission finds on its way; and an emission calls in the order of that
\* sequence every slot that it owes, once, and none that was gone before
\* (signal.hpp:244-516, 789-885, 979-1128).
ImplementsSlotSequence == Sequence!Spec
=============================================================================
