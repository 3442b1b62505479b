---------------------------- MODULE TrackedCalls ----------------------------
(***************************************************************************)
(* What tracking promises: a slot runs only while all the objects it       *)
(* tracks are alive, as if they were locked at once, and it is retired     *)
(* only after one of them is dead.                                         *)
(***************************************************************************)
EXTENDS Integers

CONSTANTS Slots,    \* numbers other than 0
          Objects, Emissions,
          Uses      \* of each slot: the objects it tracks

VARIABLES
  alive,      \* the objects not yet destroyed
  retired,    \* the slots disconnected because an object is dead
  running     \* of each emission: the slot that runs, or 0

vars == <<alive, retired, running>>

Init ==
  /\ alive = Objects
  /\ retired = {}
  /\ running = [e \in Emissions |-> 0]

InUse(o, calls) == \E e \in Emissions : calls[e] # 0 /\ o \in Uses[calls[e]]

\* Objects may die unless a slot that runs uses them; none comes back.
Destroy(calls) ==
  /\ alive' \subseteq alive
  /\ \A o \in alive : InUse(o, calls) => o \in alive'

Start(e, s) ==
  /\ running[e] = 0
  /\ Uses[s] \subseteq alive
  /\ running' = [running EXCEPT ![e] = s]
  /\ UNCHANGED <<alive, retired>>

Finish(e) ==
  /\ running[e] # 0
  /\ running' = [running EXCEPT ![e] = 0]
  /\ Destroy(running')
  /\ UNCHANGED retired

Die ==
  /\ Destroy(running)
  /\ UNCHANGED <<retired, running>>

Retire(s) ==
  /\ ~(Uses[s] \subseteq alive)
  /\ retired' = retired \cup {s}
  /\ UNCHANGED <<alive, running>>

Next ==
  \/ \E e \in Emissions : Finish(e) \/ \E s \in Slots : Start(e, s)
  \/ Die
  \/ \E s \in Slots : Retire(s)

Spec == Init /\ [][Next]_vars
=============================================================================
