------------------------ MODULE ConnectionProperties ------------------------
(***************************************************************************)
(* What a thread that calls back, and the handles it keeps, may rely on.   *)
(***************************************************************************)
EXTENDS Connections

\* No call dereferences null or runs past the end; no handle that outlives
\* its signal follows the pointer to it; no functor that dies under the mutex
\* locks it again (connection.hpp:124-144, 216-219; signal.hpp:354, 389, 882).
NoFault == fault = "none"

\* A node that an emission stands on is not destroyed: a slot may disconnect
\* itself, or clear the signal it is called by, and return to a functor that
\* still exists (signal.hpp:1025, 1149, 1198).
FunctorLives ==
  \A i \in 1..Depth : frames[i].at \notin buried \cup Dying

\* A disconnected slot is not kept for ever: once no emission runs its node
\* is gone, and what its functor owns.  erase() breaks this, because the node
\* before the group still leads to it (signal.hpp:960-974).
FunctorsReclaimed ==
  "erase" \notin api /\ frames = <<>> /\ Dying = {} =>
    \A n \in Known : Connected(unusable[n]) \/ n \in buried

\* A slot entrusted to a scoped_connection and not released is connected only
\* as long as one of them holds it: neither an assignment nor the end of the
\* functor that owns them leaves it behind (connection.hpp:186-219).
ScopedSlotsEnd ==
  \A n \in guarded :
    live /\ Connected(unusable[n]) /\ n \in Alive(HeldYet) => \E h \in Scoped : holds[h] = n

(***************************************************************************)
(* Who still exists points to nobody who does not.  With the type          *)
(* invariant this is inductive, and what FunctorLives rests on.            *)
(***************************************************************************)

Existing == Known \ buried

LinksExist ==
  /\ buried \subseteq Known /\ storage \subseteq Known
  /\ {head, tail, groupHead} \subseteq Existing \cup {Null}
  /\ \A n \in Existing : next[n] \in Existing \cup {Null}
  /\ \A n \in Node \ Known : next[n] = Null
  /\ \A n \in buried : next[n] # n

\* An object that is being assigned holds no slot, gets one that exists, and
\* is not destroyed before it has it: it is the client's, or in a functor
\* that runs, or nothing dies at all (connection.hpp:186-202).
AssignmentSound ==
  \A a \in assigning :
    /\ holds[a[1]] = Null /\ a[2] \in Existing \cup {Null}
    /\ "assign_owned" \in api \/ Settled \/ home[a[1]] \in {Null} \cup Held

OwnersLive ==
  /\ LinksExist
  /\ Held \subseteq Existing \cup {Null}
  /\ guarded \subseteq Existing
  /\ AssignmentSound

-----------------------------------------------------------------------------
Phase(e) == CASE e > Depth -> "idle"
              [] e <= Depth /\ frames[e].step = "done" -> "complete"
              [] OTHER -> "running"

\* The emission of frame e, or one that does not run.
InFrame(e) == IF e <= Depth THEN frames[e] ELSE [seen |-> {}, owed |-> {}, barred |-> {}]

Gone == {n \in Known : ~live \/ ~Connected(unusable[n])}

Ready == {n \in Known : live /\ Callable(n)}

Sequence == INSTANCE SlotSequence
  WITH Slots <- Node, Emissions <- 1..MaxDepth,
       slots <- Met, before <- MetBefore, gone <- Gone, ready <- Ready,
       phase <- [e \in 1..MaxDepth |-> Phase(e)],
       seen <- [e \in 1..MaxDepth |-> InFrame(e).seen],
       owed <- [e \in 1..MaxDepth |-> InFrame(e).owed],
       barred <- [e \in 1..MaxDepth |-> InFrame(e).barred]

\* The unsafe functions keep the promise of the safe ones towards a single
\* thread: whatever slots connect, disconnect, clear, erase or emit while
\* they are called, every emission, the interrupted ones included, calls what
\* it owes, once and in order, and nothing that was gone when it began
\* (signal.hpp:285-322, 433-468, 518-563, 803-1048, 1189-1219).
ImplementsSlotSequence == Sequence!Spec
=============================================================================
