---------------------------- MODULE SlotTracking ----------------------------
(***************************************************************************)
(* Slots that track several objects, which their owners let go at any      *)
(* moment.  An emission locks the objects of a slot one by one into its    *)
(* tracking list; when one is gone it disconnects the slot, waiting for    *)
(* the mutex with or without the locks it has got so far.  A slot that is  *)
(* blocked is passed over, expired or not.  Of the list of slots only the  *)
(* order is kept: slots 1 to NumSlots.                                     *)
(***************************************************************************)
EXTENDS Integers, Sequences

CONSTANTS NumSlots, Objects, Emissions,
          Tracks,    \* of each slot: its _tracking
          Blockable  \* the slots with a connection whose holder blocks it

Slots == 1..NumSlots

ASSUME SlotTrackingAssumption ==
         /\ NumSlots \in Nat
         /\ Tracks \in [Slots -> Seq(Objects)]
         /\ Blockable \subseteq Slots

VARIABLES
  owned,     \* the objects that someone outside the signal owns
  marked,    \* the disconnected slots
  blocked,   \* the slots with a block count above zero
  writing,   \* whether another thread holds _mutex
  pc,        \* of each emission: its next step
  loop,      \* ... the loop it is in: of emit() or of operator++
  curr,      \* ... begin_ptr, then curr
  at,        \* ... the position try_lock() has reached in _tracking
  locked,    \* ... tracking_list
  stale      \* history: the slots that had a dead object when it began and
             \* have not been blocked since

emitVars == <<pc, loop, curr, at, locked, stale>>

vars == <<owned, marked, blocked, writing, emitVars>>

Steps == {"idle", "usable", "lock", "call", "clear", "disconnect", "advance", "done"}

TypeOK ==
  /\ owned \subseteq Objects
  /\ marked \subseteq Slots
  /\ blocked \subseteq Slots \ marked
  /\ writing \in BOOLEAN
  /\ pc \in [Emissions -> Steps]
  /\ loop \in [Emissions -> {"emit", "next"}]
  /\ curr \in [Emissions -> 0..NumSlots]
  /\ at \in [Emissions -> Nat]
  /\ locked \in [Emissions -> SUBSET Objects]
  /\ stale \in [Emissions -> SUBSET Slots]

Init ==
  /\ owned = Objects
  /\ marked = {}
  /\ blocked = {}
  /\ writing = FALSE
  /\ pc = [e \in Emissions |-> "idle"]
  /\ loop = [e \in Emissions |-> "emit"]
  /\ curr = [e \in Emissions |-> 0]
  /\ at = [e \in Emissions |-> 0]
  /\ locked = [e \in Emissions |-> {}]
  /\ stale = [e \in Emissions |-> {}]

\* What i.lock() finds: a shared_ptr to the object exists somewhere.
Alive(o) == o \in owned \/ \E e \in Emissions : o \in locked[e]

Tracked(s) == {Tracks[s][i] : i \in DOMAIN Tracks[s]}

Expired(s) == \E o \in Tracked(s) : ~Alive(o)

Goto(e, label) == pc' = [pc EXCEPT ![e] = label]

-----------------------------------------------------------------------------
(* emit()                                                                  *)

Emit(e) ==
  /\ pc[e] = "idle"
  /\ Slots # {}
  /\ Goto(e, "usable")
  /\ loop' = [loop EXCEPT ![e] = "emit"]
  /\ curr' = [curr EXCEPT ![e] = 1]
  /\ stale' = [stale EXCEPT ![e] = {s \in Slots \ blocked : Expired(s)}]
  /\ UNCHANGED <<owned, marked, blocked, writing, at, locked>>

\* usable() is false of a disconnected slot and of a blocked one.
CheckUsable(e) ==
  /\ pc[e] = "usable"
  /\ Goto(e, IF curr[e] \in marked \cup blocked THEN "advance" ELSE "lock")
  /\ at' = [at EXCEPT ![e] = 1]
  /\ UNCHANGED <<owned, marked, blocked, writing, loop, curr, locked, stale>>

\* Mutant of LockObject: try_lock() returns after its first success.
LockFirstObject(e) ==
  /\ pc[e] = "lock"
  /\ at[e] \in DOMAIN Tracks[curr[e]]
  /\ Alive(Tracks[curr[e]][at[e]])
  /\ locked' = [locked EXCEPT ![e] = @ \cup {Tracks[curr[e]][at[e]]}]
  /\ Goto(e, "call")
  /\ UNCHANGED <<owned, marked, blocked, writing, loop, curr, at, stale>>

\* One turn of the loop of try_lock(): the object is there, and locked.
LockObject(e) ==
  /\ pc[e] = "lock"
  /\ at[e] \in DOMAIN Tracks[curr[e]]
  /\ Alive(Tracks[curr[e]][at[e]])
  /\ locked' = [locked EXCEPT ![e] = @ \cup {Tracks[curr[e]][at[e]]}]
  /\ at' = [at EXCEPT ![e] = @ + 1]
  /\ UNCHANGED <<owned, marked, blocked, writing, pc, loop, curr, stale>>

\* Mutant of LockFails: operator++ goes on without disconnecting.
LockFailsSkips(e) ==
  /\ pc[e] = "lock"
  /\ at[e] \in DOMAIN Tracks[curr[e]]
  /\ ~Alive(Tracks[curr[e]][at[e]])
  /\ Goto(e, "clear")
  /\ UNCHANGED <<owned, marked, blocked, writing, loop, curr, at, locked, stale>>

\* Mutant of LockFails: emit() does not clear its list.
LockFailsKeeps(e) ==
  /\ pc[e] = "lock"
  /\ at[e] \in DOMAIN Tracks[curr[e]]
  /\ ~Alive(Tracks[curr[e]][at[e]])
  /\ Goto(e, "disconnect")
  /\ UNCHANGED <<owned, marked, blocked, writing, loop, curr, at, locked, stale>>

\* The object is gone.  emit() clears its list and then disconnects,
\* operator++ the other way round.
LockFails(e) ==
  /\ pc[e] = "lock"
  /\ at[e] \in DOMAIN Tracks[curr[e]]
  /\ ~Alive(Tracks[curr[e]][at[e]])
  /\ Goto(e, IF loop[e] = "emit" THEN "clear" ELSE "disconnect")
  /\ UNCHANGED <<owned, marked, blocked, writing, loop, curr, at, locked, stale>>

\* try_lock() returns true.
LocksAll(e) ==
  /\ pc[e] = "lock"
  /\ at[e] \notin DOMAIN Tracks[curr[e]]
  /\ Goto(e, "call")
  /\ UNCHANGED <<owned, marked, blocked, writing, loop, curr, at, locked, stale>>

\* tracking_list.clear() after a failure.
ClearList(e) ==
  /\ pc[e] = "clear"
  /\ locked' = [locked EXCEPT ![e] = {}]
  /\ Goto(e, IF loop[e] = "emit" THEN "disconnect" ELSE "advance")
  /\ UNCHANGED <<owned, marked, blocked, writing, loop, curr, at, stale>>

\* disconnect(node) under the mutex: the mark overwrites a count.  The second
\* of two that meet there finds the node marked.
Disconnect(e) ==
  /\ pc[e] = "disconnect"
  /\ ~writing
  /\ marked' = marked \cup {curr[e]}
  /\ blocked' = blocked \ {curr[e]}
  /\ Goto(e, IF loop[e] = "emit" THEN "advance" ELSE "clear")
  /\ UNCHANGED <<owned, writing, loop, curr, at, locked, stale>>

\* Mutant of SlotReturns: operator++ does not release the locks.
SlotReturnsLocked(e) ==
  /\ pc[e] = "call"
  /\ loop' = [loop EXCEPT ![e] = "next"]
  /\ Goto(e, "advance")
  /\ UNCHANGED <<owned, marked, blocked, writing, curr, at, locked, stale>>

\* The slot returns and operator++ releases the locks it ran under.
SlotReturns(e) ==
  /\ pc[e] = "call"
  /\ locked' = [locked EXCEPT ![e] = {}]
  /\ loop' = [loop EXCEPT ![e] = "next"]
  /\ Goto(e, "advance")
  /\ UNCHANGED <<owned, marked, blocked, writing, curr, at, stale>>

\* Mutant of Advance: the end of the list is not recognised.
AdvancePastEnd(e) ==
  /\ pc[e] = "advance"
  /\ curr' = [curr EXCEPT ![e] = @ + 1]
  /\ Goto(e, IF curr[e] > NumSlots THEN "done" ELSE "usable")
  /\ UNCHANGED <<owned, marked, blocked, writing, loop, at, locked, stale>>

Advance(e) ==
  /\ pc[e] = "advance"
  /\ \/ /\ curr[e] < NumSlots
        /\ curr' = [curr EXCEPT ![e] = @ + 1]
        /\ Goto(e, "usable")
     \/ /\ curr[e] = NumSlots
        /\ curr' = [curr EXCEPT ![e] = 0]
        /\ Goto(e, "done")
  /\ UNCHANGED <<owned, marked, blocked, writing, loop, at, locked, stale>>

\* Mutant of Leave: the list outlives the emission.
LeaveLocked(e) ==
  /\ pc[e] \in {"call", "done"}
  /\ curr' = [curr EXCEPT ![e] = 0]
  /\ stale' = [stale EXCEPT ![e] = {}]
  /\ Goto(e, "idle")
  /\ UNCHANGED <<owned, marked, blocked, writing, loop, at, locked>>

\* emit() is left at the end, by a combiner that has seen enough, or by a
\* slot that throws; its tracking_list goes with it.
Leave(e) ==
  /\ pc[e] \in {"call", "done"}
  /\ locked' = [locked EXCEPT ![e] = {}]
  /\ curr' = [curr EXCEPT ![e] = 0]
  /\ stale' = [stale EXCEPT ![e] = {}]
  /\ Goto(e, "idle")
  /\ UNCHANGED <<owned, marked, blocked, writing, loop, at>>

-----------------------------------------------------------------------------
(* The other threads                                                       *)

\* The last owner lets go.
Drop(o) ==
  /\ o \in owned
  /\ owned' = owned \ {o}
  /\ UNCHANGED <<marked, blocked, writing, emitVars>>

\* Somebody's weak_ptr::lock() finds an object that only emissions keep.
Adopt(o) ==
  /\ o \notin owned /\ Alive(o)
  /\ owned' = owned \cup {o}
  /\ UNCHANGED <<marked, blocked, writing, emitVars>>

\* connection::block(): the count of the slot becomes positive, and of a
\* disconnected slot nothing changes.
Block(s) ==
  /\ s \in Blockable \ (marked \cup blocked)
  /\ blocked' = blocked \cup {s}
  /\ stale' = [e \in Emissions |-> stale[e] \ {s}]
  /\ UNCHANGED <<owned, marked, writing, pc, loop, curr, at, locked>>

\* ... and back to zero by the last connection::unblock().
Unblock(s) ==
  /\ s \in blocked
  /\ blocked' = blocked \ {s}
  /\ UNCHANGED <<owned, marked, writing, emitVars>>

Write ==
  /\ ~writing
  /\ writing' = TRUE
  /\ UNCHANGED <<owned, marked, blocked, emitVars>>

WriteDone ==
  /\ writing
  /\ writing' = FALSE
  /\ UNCHANGED <<owned, marked, blocked, emitVars>>

-----------------------------------------------------------------------------
Walk(e) ==
  \/ CheckUsable(e) \/ LockObject(e) \/ LockFails(e) \/ LocksAll(e)
  \/ ClearList(e) \/ Disconnect(e) \/ SlotReturns(e) \/ Advance(e) \/ Leave(e)

Next ==
  \/ \E e \in Emissions : Emit(e) \/ Walk(e)
  \/ \E o \in Objects : Drop(o) \/ Adopt(o)
  \/ \E s \in Slots : Block(s) \/ Unblock(s)
  \/ Write \/ WriteDone

Spec == Init /\ [][Next]_vars

\* Threads inside emit() and holders of the mutex are scheduled, slots
\* return, and who waits for a mutex that is free again and again gets it.
Fairness ==
  /\ WF_vars(WriteDone)
  /\ \A e \in Emissions : WF_vars(Walk(e)) /\ SF_vars(Disconnect(e))

FairSpec == Spec /\ Fairness
=============================================================================
