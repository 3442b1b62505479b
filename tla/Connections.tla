---------------------------- MODULE Connections -----------------------------
(***************************************************************************)
(* Handles on the slots of a signal, and what ownership does with them.    *)
(*                                                                         *)
(* A connection is a plain value, a pointer to the signal and a weak_ptr   *)
(* to a node; it is copied freely and keeps nothing alive.  A              *)
(* scoped_connection is an object that disconnects when it is destroyed,   *)
(* and a functor may own such objects: they are destroyed with its node,   *)
(* in the middle of whichever function dropped the last reference.  Then   *)
(* the signal may be gone, or its mutex may be held by this very thread.   *)
(*                                                                         *)
(* The functions that change the list come from SignalUnsafe.  For one     *)
(* thread the thread-safe ones do the same to the list, but hold the       *)
(* mutex while they do.                                                    *)
(***************************************************************************)
EXTENDS SignalUnsafe

CONSTANT Scoped     \* scoped_connection objects

Operations == {"push_back", "push_front", "insert", "extended", "pop_back",
               "pop_front", "disconnect", "clear", "erase", "erase_absent",
               "block", "expire", "throw", "unsafe", "safe", "scoped",
               "copy_scoped", "own", "assign_owned", "destroy_signal"}

ASSUME ConnectionsAssumption == Clients \subseteq SUBSET Operations

VARIABLES
  live,      \* whether the signal exists
  holds,     \* of each scoped_connection: the node in its _node, or Null
  home,      \* ... the node whose functor owns it, or Null for the client
  assigning, \* the object in the middle of its operator=, and the node it is
             \* to get: a set of at most one pair
  buried,    \* the nodes that have been destroyed
  locked,    \* whether nodes are being destroyed under _mutex
  guarded    \* history: the slots entrusted to some scoped_connection

handleVars == <<holds, home, assigning, guarded>>

vars == <<listVars, threadVars, live, handleVars, buried, locked>>

TypeOK ==
  /\ ListTypeOK
  /\ ThreadTypeOK
  /\ live \in BOOLEAN
  /\ holds \in [Scoped -> Link] /\ home \in [Scoped -> Link]
  /\ assigning \subseteq Scoped \X Link
  /\ buried \subseteq Node
  /\ locked \in BOOLEAN
  /\ guarded \subseteq Node

Init ==
  /\ ListInit
  /\ ThreadInit
  /\ live = TRUE
  /\ holds = [h \in Scoped |-> Null] /\ home = [h \in Scoped |-> Null]
  /\ assigning = {}
  /\ buried = {}
  /\ locked = FALSE
  /\ guarded = {}

-----------------------------------------------------------------------------
(* Destruction                                                             *)

\* The nodes without an owner that are still to be destroyed.  Each keeps
\* its next until its functor is gone, so they go one after the other.
Doomed == (Known \ Alive(Held)) \ buried

Dying == {n \in Doomed : \A m \in Doomed : next[m] # n}

\* What can be locked while nodes die.
HeldYet == Held \cup {next[n] : n \in Doomed}

Settled == Doomed = {}

\* The mutex stays locked as long as nodes die under it.
Locks(l) == l /\ Doomed' # {}

\* A connection to node n disconnects, for a caller that keeps its locals:
\* nothing happens when n is gone, and the raw pointer to the signal is
\* followed when it is not.
DisconnectThrough(n, held) ==
  \/ /\ n \notin Alive(held)
     /\ UNCHANGED <<listVars, threadVars>>
  \/ /\ n \in Alive(held)
     /\ IF live /\ ~locked
        THEN Unhook(n, held) \/ (~Connected(unusable[n]) /\ UNCHANGED <<listVars, threadVars>>)
        ELSE /\ fault' = IF live THEN "self_lock" ELSE "dangling_signal"
             /\ UNCHANGED <<linkVars, nodeVars, unusable, threadVars>>

\* The functor of a dying node is destroyed, and with it a scoped_connection
\* that it owns.  If that one is being assigned, operator= will write to an
\* object that is no more.
FunctorDrops(h) ==
  /\ home[h] \in Dying
  /\ IF \E n \in Link : <<h, n>> \in assigning
     THEN /\ fault' = "dangling_handle"
          /\ UNCHANGED <<linkVars, nodeVars, unusable, threadVars>>
     ELSE DisconnectThrough(holds[h], HeldYet)
  /\ holds' = [holds EXCEPT ![h] = Null]
  /\ home' = [home EXCEPT ![h] = Null]
  /\ UNCHANGED <<live, assigning, buried, locked, guarded>>

\* The last of the functor is gone, and the node with it.  From now on a
\* weak_ptr to the node is as good as an empty one, and written so.
Bury(n) ==
  /\ n \in Dying /\ \A h \in Scoped : home[h] # n
  /\ buried' = buried \cup {n}
  /\ holds' = [h \in Scoped |-> IF holds[h] = n THEN Null ELSE holds[h]]
  /\ assigning' = {<<a[1], IF a[2] = n THEN Null ELSE a[2]>> : a \in assigning}
  /\ guarded' = guarded \ {n}
  /\ UNCHANGED <<listVars, threadVars, live, home>>
  /\ locked' = Locks(locked)

-----------------------------------------------------------------------------
(* The functions of the signal, with mutex or without                      *)

Variant(l) == (IF l THEN "safe" ELSE "unsafe") \in api

\* The functor of the new slot may own scoped_connections, empty ones to be
\* filled later among them.
Own ==
  \/ UNCHANGED home
  \/ /\ "own" \in api
     /\ \E h \in Scoped : home[h] = Null /\ home' = [home EXCEPT ![h] = fresh]

Connect ==
  /\ live
  /\ \/ \E x \in BOOLEAN : PushBackUnsafe(x) \/ PushFrontUnsafe(x)
     \/ \E g \in Groups, x \in BOOLEAN : InsertUnsafe(g, x)
  /\ Own
  /\ locked' = FALSE
  /\ UNCHANGED <<live, holds, assigning, guarded, buried>>

\* Both variants of connection::disconnect() keep the node in hand until the
\* mutex is free again.
DisconnectSlot ==
  /\ live
  /\ \E n \in Node : DisconnectUnsafe(n)
  /\ locked' = FALSE
  /\ UNCHANGED <<live, handleVars, buried>>

\* pop_back(), pop_front(), clear() and erase() drop the nodes they unlink
\* while they hold the mutex.  erase() drops them one by one in the middle of
\* its loop, so it is only for clients whose functors own nothing.
RemoveSlots(l) ==
  /\ live /\ Variant(l)
  /\ \/ PopBackUnsafe \/ PopFrontUnsafe \/ ClearUnsafe
     \/ "own" \notin api /\ \E g \in Groups : EraseUnsafe(g)
  /\ UNCHANGED <<live, handleVars, buried>>
  /\ locked' = Locks(l)

Disturb ==
  /\ \E n \in Node : Expire(n) \/ \E d \in {-1, 1} : Block(n, d)
  /\ UNCHANGED <<live, handleVars, buried, locked>>

EmissionStep ==
  /\ live
  /\ Emission
  /\ UNCHANGED <<live, handleVars, buried, locked>>

\* ~signal() marks nothing.  A client destroys its signal when no emission
\* runs.
DestroySignal ==
  /\ Running /\ live /\ frames = <<>>
  /\ "destroy_signal" \in api
  /\ live' = FALSE
  /\ UnlinkAll
  /\ UNCHANGED <<nodeVars, unusable, threadVars, handleVars, buried, locked>>

-----------------------------------------------------------------------------
(* scoped_connection                                                       *)

UsesScoped == Control /\ "scoped" \in api

\* Mutant of AssignScoped: the old connection is overwritten.
AssignScopedOver(h, n) ==
  /\ UsesScoped
  /\ n \in (Known \ buried) \cup {Null}
  /\ holds' = [holds EXCEPT ![h] = n]
  /\ guarded' = guarded \cup ({n} \ {Null})
  /\ UNCHANGED <<listVars, threadVars, live, home, assigning, buried, locked>>

\* operator=(connection) disconnects the old slot, whose functor may die of
\* it; nothing reads the old fields any more.  Construction from a connection
\* is the same for an empty object.  An object in a functor is assigned while
\* it is empty or while that functor runs, so that it cannot die meanwhile.
AssignScoped(h, n) ==
  /\ UsesScoped
  /\ n \in (Known \ buried) \cup {Null}
  /\ holds[h] = Null \/ home[h] \in {Null} \cup Held \/ "assign_owned" \in api
  /\ DisconnectThrough(holds[h], Held)
  /\ holds' = [holds EXCEPT ![h] = Null]
  /\ assigning' = {<<h, n>>}
  /\ UNCHANGED <<live, home, buried, locked, guarded>>

\* ... and then takes the new one.
TakeOver(h, n) ==
  /\ Running
  /\ <<h, n>> \in assigning
  /\ holds' = [holds EXCEPT ![h] = n]
  /\ assigning' = {}
  /\ guarded' = guarded \cup ({n} \ {Null})
  /\ UNCHANGED <<listVars, threadVars, live, home, buried, locked>>

\* scoped_connection declares neither a copy constructor nor an assignment
\* from its own type: the implicit ones copy both fields of the base and
\* disconnect nothing.  Only the assignment can lose a slot.
CopyScoped(h, k) ==
  /\ UsesScoped
  /\ holds[h] = Null \/ "copy_scoped" \in api
  /\ holds' = [holds EXCEPT ![h] = holds[k]]
  /\ UNCHANGED <<listVars, threadVars, live, home, assigning, buried, locked, guarded>>

\* release(), or a connection moved out of the object: the slot is the
\* client's again unless a copy guards it.
Release(h) ==
  /\ UsesScoped
  /\ holds' = [holds EXCEPT ![h] = Null]
  /\ guarded' = guarded \ ({holds[h]} \ {holds[k] : k \in Scoped \ {h}})
  /\ UNCHANGED <<listVars, threadVars, live, home, assigning, buried, locked>>

DestroyScoped(h) ==
  /\ UsesScoped
  /\ home[h] = Null
  /\ DisconnectThrough(holds[h], Held)
  /\ holds' = [holds EXCEPT ![h] = Null]
  /\ UNCHANGED <<live, home, assigning, buried, locked, guarded>>

ScopedStep ==
  \E h \in Scoped :
    \/ \E n \in Link : AssignScoped(h, n)
    \/ \E k \in Scoped \ {h} : CopyScoped(h, k)
    \/ Release(h) \/ DestroyScoped(h)

-----------------------------------------------------------------------------
\* Nothing else happens while nodes are being destroyed, nor in the middle of
\* an assignment.
Next ==
  \/ Running /\ ((\E h \in Scoped : FunctorDrops(h)) \/ (\E n \in Node : Bury(n)))
  \/ Settled /\ \E h \in Scoped, n \in Link : TakeOver(h, n)
  \/ /\ Settled /\ assigning = {}
     /\ \/ Connect \/ DisconnectSlot \/ DestroySignal \/ Disturb
        \/ \E l \in BOOLEAN : RemoveSlots(l)
        \/ EmissionStep
        \/ ScopedStep

Spec == Init /\ [][Next]_vars
=============================================================================
