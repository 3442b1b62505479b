---------------------------- MODULE SlotSequence ----------------------------
(***************************************************************************)
(* What a signal promises, with no trace of how it keeps its slots: a      *)
(* sequence of connected slots on which every call acts at once, and       *)
(* emissions that call the slots in the order of that sequence.            *)
(*                                                                         *)
(* The sequence is given by its slots and by which comes before which, so  *)
(* that it can be reasoned about without recursion.  Slots are numbered in *)
(* the order in which they are connected.                                  *)
(***************************************************************************)
EXTENDS Integers

CONSTANTS Slots,       \* numbers
          Groups,      \* numbers too
          Emissions

VARIABLES
  slots,      \* the connected slots
  before,     \* the pairs of them of which the first is called before the second
  gone,       \* the slots disconnected for good
  ready,      \* the connected slots that are neither blocked nor expired
  kind,       \* of each slot: "front", "group", "back", or "none" before that
  group,      \* of each slot: its group
  phase,      \* of each emission: "idle", "running" or "complete"
  seen,       \* ... the slots it has called
  owed,       \* ... the slots ready ever since it began, not yet called
  barred      \* ... the slots gone before it began

listed == <<slots, before, gone, ready, kind, group>>

emissions == <<phase, seen, owed, barred>>

vars == <<listed, emissions>>

Init ==
  /\ slots = {} /\ before = {} /\ gone = {} /\ ready = {}
  /\ kind = [n \in Slots |-> "none"]
  /\ group = [n \in Slots |-> 0]
  /\ phase = [e \in Emissions |-> "idle"]
  /\ seen = [e \in Emissions |-> {}]
  /\ owed = [e \in Emissions |-> {}]
  /\ barred = [e \in Emissions |-> {}]

-----------------------------------------------------------------------------
(* Front slots before grouped before back slots; of the front slots the    *)
(* latest first, of a group and of the back slots the earliest first.      *)

Rank(n) == CASE kind[n] = "front" -> 0 [] kind[n] = "group" -> 1 [] OTHER -> 2

Precedes(m, n) ==
  \/ Rank(m) < Rank(n)
  \/ kind[m] = "front" /\ kind[n] = "front" /\ m > n
  \/ /\ kind[m] = "group" /\ kind[n] = "group"
     /\ group[m] < group[n] \/ (group[m] = group[n] /\ m < n)
  \/ kind[m] = "back" /\ kind[n] = "back" /\ m < n

Unready(S) ==
  /\ ready' = ready \ S
  /\ owed' = [e \in Emissions |-> owed[e] \ S]

-----------------------------------------------------------------------------
(* The sequence                                                            *)

\* A new slot n comes behind the slots of F and before the others; a build
\* that does not initialise its word may have it blocked.
Connect(n, k, g, F) ==
  /\ kind[n] = "none"
  /\ kind' = [kind EXCEPT ![n] = k]
  /\ group' = [group EXCEPT ![n] = g]
  /\ slots' = slots \cup {n}
  /\ before' = before \cup (F \X {n}) \cup ({n} \X (slots \ F))
  /\ ready' \in {ready, ready \cup {n}}
  /\ UNCHANGED <<gone, emissions>>

ConnectBack(n) == Connect(n, "back", 0, slots)

ConnectFront(n) == Connect(n, "front", 0, {})

\* Behind the front slots and the groups that are not greater.
ConnectGroup(n, g) ==
  Connect(n, "group", g,
          {m \in slots : kind[m] = "front" \/ (kind[m] = "group" /\ group[m] <= g)})

Remove(S) ==
  /\ S # {}
  /\ gone' = gone \cup S
  /\ slots' = slots \ S
  /\ before' = before \cap (slots' \X slots')
  /\ Unready(S)
  /\ UNCHANGED <<kind, group, phase, seen, barred>>

Disconnect == \E n \in slots : Remove({n})

DisconnectGroup == \E g \in Groups : Remove({n \in slots : kind[n] = "group" /\ group[n] = g})

DisconnectAll == Remove(slots)

\* n is blocked, or an object it tracks expires.
Suspend(n) ==
  /\ n \in ready
  /\ Unready({n})
  /\ UNCHANGED <<slots, before, gone, kind, group, phase, seen, barred>>

Resume(n) ==
  /\ n \in slots \ ready
  /\ ready' = ready \cup {n}
  /\ UNCHANGED <<slots, before, gone, kind, group, emissions>>

-----------------------------------------------------------------------------
(* Emissions                                                               *)

Begin(e) ==
  /\ phase[e] = "idle"
  /\ owed' = [owed EXCEPT ![e] = ready]
  /\ barred' = [barred EXCEPT ![e] = gone]
  /\ \/ phase' = [phase EXCEPT ![e] = "running"]
     \/ ready = {} /\ phase' = [phase EXCEPT ![e] = "complete"]
  /\ UNCHANGED <<listed, seen>>

\* The next slot comes after those called already, no owed slot is passed
\* over, and it is not one that was gone when the emission began.
Call(e, n) ==
  /\ phase[e] = "running"
  /\ kind[n] # "none" /\ n \notin barred[e] \cup seen[e]
  /\ seen' = [seen EXCEPT ![e] = @ \cup {n}]
  /\ \A m \in seen[e] : Precedes(m, n)
  /\ \A m \in owed[e] \ {n} : Precedes(n, m)
  /\ owed' = [owed EXCEPT ![e] = @ \ {n}]
  /\ UNCHANGED <<listed, phase, barred>>

Complete(e) ==
  /\ phase[e] = "running" /\ owed[e] = {}
  /\ phase' = [phase EXCEPT ![e] = "complete"]
  /\ UNCHANGED <<listed, seen, owed, barred>>

\* A complete emission returns; one that runs is left when a slot throws.
Leave(e) ==
  /\ phase[e] # "idle"
  /\ phase' = [phase EXCEPT ![e] = "idle"]
  /\ seen' = [seen EXCEPT ![e] = {}]
  /\ owed' = [owed EXCEPT ![e] = {}]
  /\ barred' = [barred EXCEPT ![e] = {}]
  /\ UNCHANGED listed

-----------------------------------------------------------------------------
Next ==
  \/ \E n \in Slots :
       \/ ConnectBack(n) \/ ConnectFront(n) \/ (\E g \in Groups : ConnectGroup(n, g))
       \/ Suspend(n) \/ Resume(n)
  \/ gone' # gone /\ (Disconnect \/ DisconnectGroup \/ DisconnectAll)
  \/ \E e \in Emissions :
       \/ Begin(e) \/ Complete(e) \/ Leave(e)
       \/ \E n \in Slots : Call(e, n)

Spec == Init /\ [][Next]_vars
=============================================================================
