------------------------- MODULE TrackingProperties -------------------------
(***************************************************************************)
(* What the owners of tracked objects and the slots may rely on.           *)
(***************************************************************************)
EXTENDS SlotTracking

\* The objects are locked one by one while owners let go and other emissions
\* lock and release; yet a slot runs as if all its objects had been locked at
\* one moment, none dies before the slot returns, and no slot is disconnected
\* unless one of its objects is dead for good (slots.hpp:96-118, signal.hpp
\* 998-1005, 1112-1123).
Calls == INSTANCE TrackedCalls
  WITH Uses <- [s \in Slots |-> Tracked(s)],
       alive <- {o \in Objects : Alive(o)},
       retired <- marked,
       running <- [e \in Emissions |-> IF pc[e] = "call" THEN curr[e] ELSE 0]

ImplementsTrackedCalls == Calls!Spec

\* What a try_lock() that failed halfway has locked is released before the
\* next slot is tried, in both orders of clear() and disconnect(): a slot that
\* runs keeps its own objects and no others alive, and an emission between two
\* slots or at its end keeps none (signal.hpp:1001, 1100, 1122).
LocksOfTheSlot ==
  \A e \in Emissions :
    /\ pc[e] = "call" => locked[e] = Tracked(curr[e])
    /\ pc[e] \in {"idle", "usable", "advance", "done"} => locked[e] = {}

\* An emission that goes to its end disconnects every slot that had a dead
\* object when it began and was not blocked from then on, whatever the others
\* lock, release, block and unblock meanwhile (README:86, "the tracking scheme
\* of Signals2"; signal.hpp:998-1002, 1118-1121).  A slot that was blocked at
\* any moment of it may have been passed over (signal.hpp:992, 1112).
ExpiredSlotsRetired ==
  \A e \in Emissions : pc[e] = "done" => stale[e] \subseteq marked

\* The inductive invariant.  try_lock() has locked what it has come past; who
\* is about to disconnect a slot has seen a dead object of it, and dead is
\* dead; the slots that were stale when an emission began and have not been
\* blocked since are behind it and disconnected, or ahead of it, stale still
\* and usable unless another emission has disconnected them.
OnASlot ==
  \A e \in Emissions : pc[e] \notin {"idle", "done"} => curr[e] \in Slots

LockedSoFar ==
  \A e \in Emissions :
    /\ pc[e] = "lock" => /\ at[e] \in 1..(Len(Tracks[curr[e]]) + 1)
                        /\ locked[e] = {Tracks[curr[e]][i] : i \in 1..(at[e] - 1)}
    /\ pc[e] = "disconnect" /\ loop[e] = "emit" => locked[e] = {}

FailedIsExpired ==
  \A e \in Emissions : pc[e] \in {"clear", "disconnect"} => Expired(curr[e])

StaleIsExpired ==
  \A e \in Emissions : \A s \in stale[e] : Expired(s)

StaleIsUnblocked ==
  \A e \in Emissions : stale[e] \cap blocked = {}

PassedOver(e, s) ==
  \/ s < curr[e] \/ pc[e] = "done"
  \/ s = curr[e] /\ (pc[e] = "advance" \/ (pc[e] = "clear" /\ loop[e] = "next"))

StaleRetired ==
  \A e \in Emissions : \A s \in stale[e] : PassedOver(e, s) => s \in marked

TrackingInvariant ==
  /\ TypeOK /\ OnASlot /\ LocksOfTheSlot /\ LockedSoFar
  /\ FailedIsExpired /\ StaleIsExpired /\ StaleIsUnblocked /\ StaleRetired

\* No emission keeps an object for ever, although it may wait for the mutex
\* with locks in hand (signal.hpp:1121).
LocksReleased ==
  \A e \in Emissions, o \in Objects : o \in locked[e] ~> o \notin locked[e]
=============================================================================
