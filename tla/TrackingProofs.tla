--------------------------- MODULE TrackingProofs ---------------------------
(***************************************************************************)
(* What holds of tracking for any slots, objects and emissions: the        *)
(* inductive invariant, the properties that follow from it, and that       *)
(* locking objects one by one looks like locking them at once.             *)
(***************************************************************************)
EXTENDS TrackingProperties, TLAPS

USE SlotTrackingAssumption

-----------------------------------------------------------------------------
(* The slots and their objects                                             *)

\* What a slot tracks, by position and as a set of objects.
LEMMA TrackedObjects ==
  ASSUME NEW s \in Slots
  PROVE  /\ Len(Tracks[s]) \in Nat
         /\ DOMAIN Tracks[s] = 1..Len(Tracks[s])
         /\ Tracked(s) = {Tracks[s][i] : i \in 1..Len(Tracks[s])}
         /\ Tracked(s) \subseteq Objects
<1>1. Tracks[s] \in Seq(Objects)
  OBVIOUS
<1> QED BY <1>1 DEF Tracked

\* Slots are positive numbers.
LEMMA SlotNumbers == Slots \subseteq Nat /\ 0 \notin Slots
BY DEF Slots

\* Nothing brings a dead object back: who takes a reference to one needs one.
LEMMA DeadStaysDead ==
  ASSUME TypeOK, [Next]_vars, NEW o
  PROVE  Alive(o)' => Alive(o)
<1>1. CASE \E e \in Emissions : LockObject(e)
  BY <1>1 DEF LockObject, Alive, TypeOK
<1>2. CASE \E e \in Emissions : ClearList(e) \/ SlotReturns(e) \/ Leave(e)
  <2>1. PICK e \in Emissions : locked' = [locked EXCEPT ![e] = {}] /\ owned' = owned
    BY <1>2 DEF ClearList, SlotReturns, Leave
  <2>2. \A f \in Emissions : locked'[f] \subseteq locked[f]
    BY <2>1 DEF TypeOK
  <2> QED BY <2>1, <2>2 DEF Alive
<1>3. CASE UNCHANGED <<owned, locked>>
  BY <1>3 DEF Alive
<1>4. CASE \E p \in Objects : Drop(p) \/ Adopt(p)
  BY <1>4 DEF Drop, Adopt, Alive, emitVars
<1>5. CASE \E e \in Emissions : Emit(e) \/ CheckUsable(e) \/ LockFails(e)
                                \/ LocksAll(e) \/ Disconnect(e) \/ Advance(e)
  BY <1>3, <1>5 DEF Emit, CheckUsable, LockFails, LocksAll, Disconnect, Advance
<1>6. CASE \E s \in Slots : Block(s) \/ Unblock(s)
  BY <1>3, <1>6 DEF Block, Unblock, emitVars
<1>7. CASE Write \/ WriteDone \/ UNCHANGED vars
  BY <1>3, <1>7 DEF Write, WriteDone, vars, emitVars
<1> QED BY <1>1, <1>2, <1>4, <1>5, <1>6, <1>7 DEF Next, Walk

\* So an expired slot is expired for good.
LEMMA ExpiredLasts ==
  ASSUME TypeOK, [Next]_vars, NEW s
  PROVE  Expired(s) => Expired(s)'
BY DeadStaysDead DEF Expired, Tracked

\* A slot all whose objects an emission has locked is not expired.
LEMMA LockedIsAlive ==
  ASSUME NEW e \in Emissions, NEW s, Tracked(s) \subseteq locked[e]
  PROVE  ~Expired(s)
BY DEF Expired, Alive

-----------------------------------------------------------------------------
(* The inductive invariant                                                 *)

\* The invariant holds at first.
LEMMA InitTracking == Init => TrackingInvariant
<1> SUFFICES ASSUME Init PROVE TrackingInvariant
  OBVIOUS
<1>1. TypeOK
  <2>1. 0 \in 0..NumSlots OBVIOUS
  <2> QED BY <2>1 DEF Init, TypeOK, Steps
<1>2. OnASlot /\ LocksOfTheSlot /\ LockedSoFar
  BY DEF Init, OnASlot, LocksOfTheSlot, LockedSoFar
<1>3. FailedIsExpired /\ StaleIsExpired /\ StaleIsUnblocked /\ StaleRetired
  BY DEF Init, FailedIsExpired, StaleIsExpired, StaleIsUnblocked, StaleRetired
<1> QED BY <1>1, <1>2, <1>3 DEF TrackingInvariant

\* It is kept when an emission begins,
LEMMA EmitStep ==
  ASSUME TrackingInvariant, NEW e \in Emissions, Emit(e)
  PROVE  TrackingInvariant'
<1> USE SlotNumbers DEF TrackingInvariant, Emit, Goto
<1>0. [Next]_vars BY DEF Next
<1>1. 1 \in Slots /\ \A s \in Slots : s >= 1 BY DEF Slots
<1>2. \A s : Expired(s) => Expired(s)' BY <1>0, ExpiredLasts
<1>3. TypeOK' BY <1>1 DEF TypeOK, Steps, Slots
<1>4. OnASlot' BY <1>1 DEF OnASlot, TypeOK
<1>5. LocksOfTheSlot' BY DEF LocksOfTheSlot, TypeOK
<1>6. LockedSoFar' BY DEF LockedSoFar, TypeOK
<1>7. FailedIsExpired' BY <1>2 DEF FailedIsExpired, TypeOK
<1>8. StaleIsExpired' BY <1>2 DEF StaleIsExpired, TypeOK
<1>9. StaleRetired' BY <1>1 DEF StaleRetired, PassedOver, TypeOK
<1>s. StaleIsUnblocked' BY DEF StaleIsUnblocked, TypeOK
<1> QED BY <1>3, <1>4, <1>5, <1>6, <1>7, <1>8, <1>9, <1>s

\* ... when it asks whether the slot is usable,
LEMMA UsableStep ==
  ASSUME TrackingInvariant, NEW e \in Emissions, CheckUsable(e)
  PROVE  TrackingInvariant'
<1> USE SlotNumbers DEF TrackingInvariant, CheckUsable, Goto
<1>0. [Next]_vars BY DEF Next, Walk
<1>a. \A s : Expired(s) => Expired(s)' BY <1>0, ExpiredLasts
<1>1. TypeOK' BY DEF TypeOK, Steps, Slots
<1>2. OnASlot' BY DEF OnASlot, TypeOK
<1>3. LocksOfTheSlot' BY DEF LocksOfTheSlot, TypeOK
<1>b. locked[e] = {} /\ pc' = [pc EXCEPT ![e] = pc'[e]] /\ at' = [at EXCEPT ![e] = 1]
  BY DEF LocksOfTheSlot, TypeOK
<1>c. curr[e] \in Slots /\ Len(Tracks[curr[e]]) \in Nat
  BY TrackedObjects DEF OnASlot
<1>d. {Tracks[curr[e]][i] : i \in 1..(1 - 1)} = {}
  OBVIOUS
<1>4. LockedSoFar' BY <1>b, <1>c, <1>d DEF LockedSoFar, TypeOK
<1>5. FailedIsExpired' BY <1>a DEF FailedIsExpired, TypeOK
<1>6. StaleIsExpired' BY <1>a DEF StaleIsExpired, TypeOK
<1>7. StaleRetired' BY DEF StaleRetired, StaleIsUnblocked, PassedOver, TypeOK, OnASlot
<1>s. StaleIsUnblocked' BY DEF StaleIsUnblocked, TypeOK
<1> QED BY <1>1, <1>2, <1>3, <1>4, <1>5, <1>6, <1>7, <1>s

\* ... when it locks one more object,
LEMMA LockStep ==
  ASSUME TrackingInvariant, NEW e \in Emissions, LockObject(e)
  PROVE  TrackingInvariant'
<1> USE SlotNumbers DEF TrackingInvariant, LockObject, Goto
<1>0. [Next]_vars BY DEF Next, Walk
<1>a. \A s : Expired(s) => Expired(s)' BY <1>0, ExpiredLasts
<1>b. curr[e] \in Slots BY DEF OnASlot
<1>c. /\ Len(Tracks[curr[e]]) \in Nat
      /\ DOMAIN Tracks[curr[e]] = 1..Len(Tracks[curr[e]])
      /\ Tracks[curr[e]][at[e]] \in Objects
  BY <1>b, TrackedObjects DEF Tracked
<1>1. TypeOK' BY <1>c DEF TypeOK
<1>2. OnASlot' BY DEF OnASlot, TypeOK
<1>3. LocksOfTheSlot' BY DEF LocksOfTheSlot, TypeOK
<1>d. {Tracks[curr[e]][i] : i \in 1..((at[e] + 1) - 1)} = locked[e] \cup {Tracks[curr[e]][at[e]]}
  <2>1. locked[e] = {Tracks[curr[e]][i] : i \in 1..(at[e] - 1)} /\ at[e] \in Nat \ {0}
    BY <1>b DEF LockedSoFar, TypeOK
  <2>2. 1..((at[e] + 1) - 1) = 1..(at[e] - 1) \cup {at[e]}
    BY <2>1
  <2> QED BY <2>1, <2>2
<1>e. at[e] + 1 \in 1..(Len(Tracks[curr[e]]) + 1)
  BY <1>c DEF TypeOK
<1>4. LockedSoFar'
  <2>1. \A f \in Emissions \ {e} : UNCHANGED <<pc[f], at[f], locked[f], loop[f], curr[f]>>
    BY DEF TypeOK
  <2>2. /\ pc'[e] = "lock" /\ at'[e] = at[e] + 1 /\ curr'[e] = curr[e]
        /\ locked'[e] = locked[e] \cup {Tracks[curr[e]][at[e]]}
    BY DEF TypeOK
  <2>3. /\ at'[e] \in 1..(Len(Tracks[curr'[e]]) + 1)
        /\ locked'[e] = {Tracks[curr'[e]][i] : i \in 1..(at'[e] - 1)}
    BY <1>d, <1>e, <2>2
  <2> HIDE DEF LockObject, Goto
  <2> SUFFICES ASSUME NEW f \in Emissions
               PROVE  /\ pc'[f] = "lock" => /\ at'[f] \in 1..(Len(Tracks[curr'[f]]) + 1)
                                            /\ locked'[f] = {Tracks[curr'[f]][i] : i \in 1..(at'[f] - 1)}
                      /\ pc'[f] = "disconnect" /\ loop'[f] = "emit" => locked'[f] = {}
    BY DEF LockedSoFar
  <2>4. CASE f = e
    BY <2>2, <2>3, <2>4
  <2>5. CASE f # e
    BY <2>1, <2>5 DEF LockedSoFar
  <2> QED BY <2>4, <2>5
<1>5. FailedIsExpired' BY <1>a DEF FailedIsExpired, TypeOK
<1>6. StaleIsExpired' BY <1>a DEF StaleIsExpired, TypeOK
<1>7. StaleRetired' BY DEF StaleRetired, PassedOver, TypeOK, OnASlot
<1>s. StaleIsUnblocked' BY DEF StaleIsUnblocked, TypeOK
<1> QED BY <1>1, <1>2, <1>3, <1>4, <1>5, <1>6, <1>7, <1>s

\* ... when it finds one expired,
LEMMA FailStep ==
  ASSUME TrackingInvariant, NEW e \in Emissions, LockFails(e)
  PROVE  TrackingInvariant'
<1> USE SlotNumbers DEF TrackingInvariant, LockFails, Goto
<1>0. [Next]_vars BY DEF Next, Walk
<1>a. \A s : Expired(s) => Expired(s)' BY <1>0, ExpiredLasts
<1>1. TypeOK' BY DEF TypeOK, Steps, Slots
<1>2. OnASlot' BY DEF OnASlot, TypeOK
<1>3. LocksOfTheSlot' BY DEF LocksOfTheSlot, TypeOK
<1>4. LockedSoFar' BY DEF LockedSoFar, TypeOK
<1>b. Expired(curr[e]) BY DEF Expired, Tracked
<1>5. FailedIsExpired' BY <1>a, <1>b DEF FailedIsExpired, TypeOK
<1>6. StaleIsExpired' BY <1>a DEF StaleIsExpired, TypeOK
<1>7. StaleRetired' BY DEF StaleRetired, PassedOver, TypeOK, OnASlot
<1>s. StaleIsUnblocked' BY DEF StaleIsUnblocked, TypeOK
<1> QED BY <1>1, <1>2, <1>3, <1>4, <1>5, <1>6, <1>7, <1>s

\* ... when it has locked all of them,
LEMMA LocksAllStep ==
  ASSUME TrackingInvariant, NEW e \in Emissions, LocksAll(e)
  PROVE  TrackingInvariant'
<1> USE SlotNumbers DEF TrackingInvariant, LocksAll, Goto
<1>0. [Next]_vars BY DEF Next, Walk
<1>a. \A s : Expired(s) => Expired(s)' BY <1>0, ExpiredLasts
<1>1. TypeOK' BY DEF TypeOK, Steps, Slots
<1>2. OnASlot' BY DEF OnASlot, TypeOK
<1>b. locked[e] = Tracked(curr[e])
  <2>1. curr[e] \in Slots BY DEF OnASlot
  <2>2. at[e] \in 1..(Len(Tracks[curr[e]]) + 1) /\ at[e] \notin 1..Len(Tracks[curr[e]])
    BY <2>1, TrackedObjects DEF LockedSoFar
  <2>3. at[e] - 1 = Len(Tracks[curr[e]])
    BY <2>1, <2>2, TrackedObjects
  <2> QED BY <2>1, <2>3, TrackedObjects DEF LockedSoFar
<1>3. LocksOfTheSlot' BY <1>b DEF LocksOfTheSlot, TypeOK, Tracked
<1>4. LockedSoFar' BY DEF LockedSoFar, TypeOK
<1>5. FailedIsExpired' BY <1>a DEF FailedIsExpired, TypeOK
<1>6. StaleIsExpired' BY <1>a DEF StaleIsExpired, TypeOK
<1>7. StaleRetired' BY DEF StaleRetired, PassedOver, TypeOK, OnASlot
<1>s. StaleIsUnblocked' BY DEF StaleIsUnblocked, TypeOK
<1> QED BY <1>1, <1>2, <1>3, <1>4, <1>5, <1>6, <1>7, <1>s

\* ... when it lets the locked ones go,
LEMMA ClearStep ==
  ASSUME TrackingInvariant, NEW e \in Emissions, ClearList(e)
  PROVE  TrackingInvariant'
<1> USE SlotNumbers DEF TrackingInvariant, ClearList, Goto
<1>0. [Next]_vars BY DEF Next, Walk
<1>a. \A s : Expired(s) => Expired(s)' BY <1>0, ExpiredLasts
<1>1. TypeOK' BY DEF TypeOK, Steps, Slots
<1>2. OnASlot' BY DEF OnASlot, TypeOK
<1>3. LocksOfTheSlot' BY DEF LocksOfTheSlot, TypeOK
<1>4. LockedSoFar' BY DEF LockedSoFar, TypeOK
<1>5. FailedIsExpired' BY <1>a DEF FailedIsExpired, TypeOK
<1>6. StaleIsExpired' BY <1>a DEF StaleIsExpired, TypeOK
<1>7. StaleRetired' BY DEF StaleRetired, PassedOver, TypeOK, OnASlot
<1>s. StaleIsUnblocked' BY DEF StaleIsUnblocked, TypeOK
<1> QED BY <1>1, <1>2, <1>3, <1>4, <1>5, <1>6, <1>7, <1>s

\* ... when it disconnects the slot,
LEMMA DisconnectStep ==
  ASSUME TrackingInvariant, NEW e \in Emissions, Disconnect(e)
  PROVE  TrackingInvariant'
<1> USE SlotNumbers DEF TrackingInvariant, Disconnect, Goto
<1>0. [Next]_vars BY DEF Next, Walk
<1>a. \A s : Expired(s) => Expired(s)' BY <1>0, ExpiredLasts
<1>b. curr[e] \in Slots BY DEF OnASlot
<1>c. loop[e] = "emit" => locked[e] = {} BY DEF LockedSoFar
<1>1. TypeOK' BY <1>b DEF TypeOK, Steps
<1>2. OnASlot' BY DEF OnASlot, TypeOK
<1>3. LocksOfTheSlot' BY <1>c DEF LocksOfTheSlot, TypeOK
<1>4. LockedSoFar' BY DEF LockedSoFar, TypeOK
<1>5. FailedIsExpired' BY <1>a DEF FailedIsExpired, TypeOK
<1>6. StaleIsExpired' BY <1>a DEF StaleIsExpired, TypeOK
<1>7. StaleRetired' BY DEF StaleRetired, PassedOver, TypeOK, OnASlot
<1>s. StaleIsUnblocked' BY DEF StaleIsUnblocked, TypeOK
<1> QED BY <1>1, <1>2, <1>3, <1>4, <1>5, <1>6, <1>7, <1>s

\* ... when the slot returns,
LEMMA ReturnStep ==
  ASSUME TrackingInvariant, NEW e \in Emissions, SlotReturns(e)
  PROVE  TrackingInvariant'
<1> USE SlotNumbers DEF TrackingInvariant, SlotReturns, Goto
<1>0. [Next]_vars BY DEF Next, Walk
<1>a. \A s : Expired(s) => Expired(s)' BY <1>0, ExpiredLasts
<1>1. TypeOK' BY DEF TypeOK, Steps, Slots
<1>2. OnASlot' BY DEF OnASlot, TypeOK
<1>3. LocksOfTheSlot' BY DEF LocksOfTheSlot, TypeOK
<1>4. LockedSoFar' BY DEF LockedSoFar, TypeOK
<1>5. FailedIsExpired' BY <1>a DEF FailedIsExpired, TypeOK
<1>6. StaleIsExpired' BY <1>a DEF StaleIsExpired, TypeOK
<1>b. curr[e] \notin stale[e]
  BY LockedIsAlive DEF LocksOfTheSlot, StaleIsExpired
<1>7. StaleRetired' BY <1>b DEF StaleRetired, PassedOver, TypeOK, OnASlot
<1>s. StaleIsUnblocked' BY DEF StaleIsUnblocked, TypeOK
<1> QED BY <1>1, <1>2, <1>3, <1>4, <1>5, <1>6, <1>7, <1>s

\* ... when the emission moves on,
LEMMA AdvanceStep ==
  ASSUME TrackingInvariant, NEW e \in Emissions, Advance(e)
  PROVE  TrackingInvariant'
<1> USE SlotNumbers DEF TrackingInvariant
<1>0. [Next]_vars BY DEF Next, Walk
<1>a. \A s : Expired(s) => Expired(s)' BY <1>0, ExpiredLasts
<1>b. curr[e] \in 1..NumSlots /\ pc[e] = "advance" /\ locked[e] = {}
  BY DEF Advance, OnASlot, LocksOfTheSlot, Slots
<1>c. UNCHANGED <<owned, marked, blocked, writing, loop, at, locked, stale>>
  BY DEF Advance
<1>1. CASE curr[e] < NumSlots
  <2>1. curr' = [curr EXCEPT ![e] = @ + 1] /\ pc' = [pc EXCEPT ![e] = "usable"]
    BY <1>1 DEF Advance, Goto
  <2>2. curr[e] + 1 \in 1..NumSlots BY <1>1, <1>b
  <2> USE <1>b, <1>c, <2>1, <2>2
  <2>3. TypeOK' BY DEF TypeOK, Steps
  <2>4. OnASlot' BY DEF OnASlot, TypeOK, Slots
  <2>5. LocksOfTheSlot' BY DEF LocksOfTheSlot, TypeOK
  <2>6. LockedSoFar' BY DEF LockedSoFar, TypeOK
  <2>7. FailedIsExpired' BY <1>a DEF FailedIsExpired, TypeOK
  <2>8. StaleIsExpired' BY <1>a DEF StaleIsExpired, TypeOK
  <2>9. StaleRetired'
    <3>1. \A s \in Slots : s < curr[e] + 1 => s < curr[e] \/ s = curr[e]
      BY DEF Slots
    <3> QED BY <3>1 DEF StaleRetired, PassedOver, TypeOK
  <2>s. StaleIsUnblocked' BY DEF StaleIsUnblocked, TypeOK
  <2> QED BY <2>3, <2>4, <2>5, <2>6, <2>7, <2>8, <2>9, <2>s
<1>2. CASE curr[e] = NumSlots
  <2>1. curr' = [curr EXCEPT ![e] = 0] /\ pc' = [pc EXCEPT ![e] = "done"]
    BY <1>2 DEF Advance, Goto
  <2> USE <1>b, <1>c, <2>1
  <2>3. TypeOK' BY DEF TypeOK, Steps
  <2>4. OnASlot' BY DEF OnASlot, TypeOK
  <2>5. LocksOfTheSlot' BY DEF LocksOfTheSlot, TypeOK
  <2>6. LockedSoFar' BY DEF LockedSoFar, TypeOK
  <2>7. FailedIsExpired' BY <1>a DEF FailedIsExpired, TypeOK
  <2>8. StaleIsExpired' BY <1>a DEF StaleIsExpired, TypeOK
  <2>9. StaleRetired'
    <3>1. \A s \in Slots : s < curr[e] \/ s = curr[e] BY <1>2 DEF Slots
    <3> QED BY <3>1 DEF StaleRetired, PassedOver, TypeOK
  <2>s. StaleIsUnblocked' BY DEF StaleIsUnblocked, TypeOK
  <2> QED BY <2>3, <2>4, <2>5, <2>6, <2>7, <2>8, <2>9, <2>s
<1> QED BY <1>1, <1>2 DEF Advance

\* ... when it ends or the slot throws,
LEMMA LeaveStep ==
  ASSUME TrackingInvariant, NEW e \in Emissions, Leave(e)
  PROVE  TrackingInvariant'
<1> USE SlotNumbers DEF TrackingInvariant, Leave, Goto
<1>0. [Next]_vars BY DEF Next, Walk
<1>a. \A s : Expired(s) => Expired(s)' BY <1>0, ExpiredLasts
<1>1. TypeOK' BY DEF TypeOK, Steps, Slots
<1>2. OnASlot' BY DEF OnASlot, TypeOK
<1>3. LocksOfTheSlot' BY DEF LocksOfTheSlot, TypeOK
<1>4. LockedSoFar' BY DEF LockedSoFar, TypeOK
<1>5. FailedIsExpired' BY <1>a DEF FailedIsExpired, TypeOK
<1>6. StaleIsExpired' BY <1>a DEF StaleIsExpired, TypeOK
<1>7. StaleRetired' BY DEF StaleRetired, PassedOver, TypeOK, OnASlot
<1>s. StaleIsUnblocked' BY DEF StaleIsUnblocked, TypeOK
<1> QED BY <1>1, <1>2, <1>3, <1>4, <1>5, <1>6, <1>7, <1>s

\* The invariant is kept when a slot is blocked, whatever step an emission is
\* at,
LEMMA BlockStep ==
  ASSUME TrackingInvariant, NEW s \in Slots, Block(s)
  PROVE  TrackingInvariant'
<1> USE DEF TrackingInvariant
<1>0. [Next]_vars BY DEF Next
<1>a. \A r : Expired(r) => Expired(r)' BY <1>0, ExpiredLasts
<1>b. /\ UNCHANGED <<owned, marked, writing, pc, loop, curr, at, locked>>
      /\ blocked' = blocked \cup {s} /\ s \notin marked
      /\ stale' = [e \in Emissions |-> stale[e] \ {s}]
  BY DEF Block
<1>1. TypeOK' BY <1>b DEF TypeOK
<1>2. OnASlot' /\ LocksOfTheSlot' /\ LockedSoFar'
  BY <1>b DEF OnASlot, LocksOfTheSlot, LockedSoFar, Tracked
<1>3. FailedIsExpired' /\ StaleIsExpired'
  BY <1>a, <1>b DEF FailedIsExpired, StaleIsExpired, TypeOK
<1>4. StaleRetired' BY <1>b DEF StaleRetired, PassedOver, TypeOK
<1>5. StaleIsUnblocked' BY <1>b DEF StaleIsUnblocked, TypeOK
<1> QED BY <1>1, <1>2, <1>3, <1>4, <1>5

\* The other threads touch nothing else but owned, the counts and the mutex.
LEMMA OthersStep ==
  ASSUME TrackingInvariant,
         \/ \E o \in Objects : Drop(o) \/ Adopt(o)
         \/ \E s \in Slots : Unblock(s)
         \/ Write \/ WriteDone \/ UNCHANGED vars
  PROVE  TrackingInvariant'
<1> USE DEF TrackingInvariant
<1>0. [Next]_vars BY DEF Next
<1>a. \A s : Expired(s) => Expired(s)' BY <1>0, ExpiredLasts
<1>b. UNCHANGED <<marked, pc, loop, curr, at, locked, stale>>
      /\ owned' \in SUBSET Objects /\ writing' \in BOOLEAN /\ blocked' \subseteq blocked
  BY DEF Drop, Adopt, Unblock, Write, WriteDone, vars, emitVars, TypeOK
<1>1. TypeOK' BY <1>b DEF TypeOK
<1>2. OnASlot' /\ LocksOfTheSlot' /\ LockedSoFar'
  BY <1>b DEF OnASlot, LocksOfTheSlot, LockedSoFar, Tracked
<1>3. FailedIsExpired' /\ StaleIsExpired'
  BY <1>a, <1>b DEF FailedIsExpired, StaleIsExpired
<1>4. StaleRetired' BY <1>b DEF StaleRetired, PassedOver
<1>5. StaleIsUnblocked' BY <1>b DEF StaleIsUnblocked
<1> QED BY <1>1, <1>2, <1>3, <1>4, <1>5

\* ... and by every step.
LEMMA NextTracking == TrackingInvariant /\ [Next]_vars => TrackingInvariant'
<1> SUFFICES ASSUME TrackingInvariant, [Next]_vars PROVE TrackingInvariant'
  OBVIOUS
<1>1. CASE \E e \in Emissions : Emit(e)
  BY <1>1, EmitStep
<1>2. CASE \E e \in Emissions : Walk(e)
  BY <1>2, UsableStep, LockStep, FailStep, LocksAllStep, ClearStep, DisconnectStep,
     ReturnStep, AdvanceStep, LeaveStep DEF Walk
<1>3. CASE \E s \in Slots : Block(s)
  BY <1>3, BlockStep
<1>4. CASE ~((\E e \in Emissions : Emit(e) \/ Walk(e)) \/ (\E s \in Slots : Block(s)))
  BY <1>4, OthersStep DEF Next
<1> QED BY <1>1, <1>2, <1>3, <1>4

\* The invariant holds of every behaviour, with or without fairness.
THEOREM Tracking == Spec => []TrackingInvariant
BY InitTracking, NextTracking, PTL DEF Spec

\* Type correctness of the emissions and what they track.
THEOREM TypeCorrect == Spec => []TypeOK
<1>1. TrackingInvariant => TypeOK
  BY DEF TrackingInvariant
<1> QED BY <1>1, Tracking, PTL

\* A slot that runs keeps its own objects alive and no others; between slots
\* nothing is kept (signal.hpp:1001, 1100, 1122).
THEOREM LocksAreTheSlots == Spec => []LocksOfTheSlot
<1>1. TrackingInvariant => LocksOfTheSlot
  BY DEF TrackingInvariant
<1> QED BY <1>1, Tracking, PTL

\* An emission that goes to its end has disconnected every slot that was
\* expired when it began, but for those that somebody had blocked at some
\* moment of it (signal.hpp:992-1002, 1112-1121).
THEOREM ExpiredAreRetired == Spec => []ExpiredSlotsRetired
<1>1. TrackingInvariant => ExpiredSlotsRetired
  BY DEF TrackingInvariant, ExpiredSlotsRetired, StaleRetired, PassedOver
<1> QED BY <1>1, Tracking, PTL

-----------------------------------------------------------------------------
(* The refinement                                                          *)

\* What the mapping makes of the state.
Living == {o \in Objects : Alive(o)}

RunningSlots == [e \in Emissions |-> IF pc[e] = "call" THEN curr[e] ELSE 0]

\* The objects of a slot that runs live.
LEMMA UsedObjectsLive ==
  ASSUME TrackingInvariant, NEW e \in Emissions, pc[e] = "call", NEW o \in Tracked(curr[e])
  PROVE  Alive(o) /\ o \in locked[e]
BY DEF TrackingInvariant, LocksOfTheSlot, Alive

\* Objects die, but none that a slot uses which still runs after the step.
LEMMA Destroys ==
  ASSUME TrackingInvariant, TrackingInvariant', [Next]_vars
  PROVE  Calls!Destroy(RunningSlots')
<1>1. Living' \subseteq Living
  BY DeadStaysDead DEF Living, TrackingInvariant
<1>2. ASSUME NEW o \in Living, NEW e \in Emissions, RunningSlots'[e] # 0,
             o \in [s \in Slots |-> Tracked(s)][RunningSlots'[e]]
      PROVE  o \in Living'
  <2>1. pc'[e] = "call" /\ RunningSlots'[e] = curr'[e]
    BY <1>2 DEF RunningSlots
  <2>2. curr'[e] \in Slots
    BY <2>1 DEF TrackingInvariant, OnASlot
  <2>3. o \in Tracked(curr'[e])
    BY <1>2, <2>1, <2>2
  <2>4. o \in locked'[e]
    BY <2>1, <2>3 DEF TrackingInvariant, LocksOfTheSlot, Tracked
  <2> QED BY <2>4 DEF Living, Alive
<1> QED BY <1>1, <1>2 DEF Calls!Destroy, Calls!InUse, Living, RunningSlots

\* A step that starts no slot, ends none and disconnects none may only
\* destroy objects.
LEMMA QuietStep ==
  ASSUME TrackingInvariant, TrackingInvariant', [Next]_vars,
         RunningSlots' = RunningSlots, UNCHANGED marked
  PROVE  Calls!Next
<1>1. Calls!Destroy(RunningSlots)
  BY Destroys
<1> QED BY <1>1 DEF Calls!Next, Calls!Die, RunningSlots

\* A slot starts with all its objects alive.
LEMMA StartStep ==
  ASSUME TrackingInvariant, NEW e \in Emissions, LocksAll(e),
         TrackingInvariant'
  PROVE  Calls!Next
<1>1. curr[e] \in Slots /\ pc[e] = "lock" /\ pc' = [pc EXCEPT ![e] = "call"]
  BY DEF TrackingInvariant, OnASlot, LocksAll, Goto
<1>2. UNCHANGED <<marked, curr, locked, owned>>
  BY DEF LocksAll
<1>3. RunningSlots[e] = 0 /\ RunningSlots' = [RunningSlots EXCEPT ![e] = curr[e]]
  BY <1>1, <1>2 DEF RunningSlots, TrackingInvariant, TypeOK
<1>4. Living' = Living
  BY <1>2 DEF Living, Alive
<1>5. Tracked(curr[e]) \subseteq Living
  <2>1. pc'[e] = "call" /\ curr'[e] = curr[e]
    BY <1>1, <1>2 DEF TrackingInvariant, TypeOK
  <2>2. locked'[e] = Tracked(curr'[e])
    BY <2>1 DEF TrackingInvariant, LocksOfTheSlot, Tracked
  <2>3. locked[e] = Tracked(curr[e])
    BY <1>2, <2>1, <2>2
  <2> QED BY <1>1, <2>3, TrackedObjects DEF Living, Alive
<1> PICK s \in Slots : s = curr[e]
  BY <1>1
<1>6. Calls!Start(e, s)
  BY <1>1, <1>2, <1>3, <1>4, <1>5 DEF Calls!Start, RunningSlots, Living
<1> QED BY <1>6 DEF Calls!Next

\* A slot is disconnected when an object of it is dead.
LEMMA RetireStep ==
  ASSUME TrackingInvariant, NEW e \in Emissions, Disconnect(e)
  PROVE  Calls!Next
<1>1. curr[e] \in Slots /\ Expired(curr[e])
  BY DEF TrackingInvariant, OnASlot, FailedIsExpired, Disconnect
<1>2. UNCHANGED <<owned, locked, curr>> /\ marked' = marked \cup {curr[e]}
  BY DEF Disconnect
<1>3. RunningSlots' = RunningSlots
  BY <1>2 DEF RunningSlots, Disconnect, Goto, TrackingInvariant, TypeOK
<1>4. Living' = Living
  BY <1>2 DEF Living, Alive
<1>5. ~(Tracked(curr[e]) \subseteq Living)
  BY <1>1 DEF Expired, Living
<1>6. Calls!Retire(curr[e])
  BY <1>1, <1>2, <1>3, <1>4, <1>5 DEF Calls!Retire, RunningSlots, Living
<1> QED BY <1>1, <1>6 DEF Calls!Next

\* A slot returns or throws.
LEMMA FinishStep ==
  ASSUME TrackingInvariant, NEW e \in Emissions, pc[e] = "call",
         SlotReturns(e) \/ Leave(e), TrackingInvariant'
  PROVE  Calls!Next
<1>0. [Next]_vars
  BY DEF Next, Walk
<1>1. curr[e] \in Slots
  BY DEF TrackingInvariant, OnASlot
<1>2. \A f \in Emissions \ {e} : pc'[f] = pc[f] /\ curr'[f] = curr[f]
  BY DEF SlotReturns, Leave, Goto, TrackingInvariant, TypeOK
<1>3. pc'[e] # "call" /\ UNCHANGED marked
  BY DEF SlotReturns, Leave, Goto, TrackingInvariant, TypeOK
<1>4. RunningSlots[e] # 0 /\ RunningSlots' = [RunningSlots EXCEPT ![e] = 0]
  BY <1>1, <1>2, <1>3, SlotNumbers DEF RunningSlots
<1>5. Calls!Destroy(RunningSlots')
  BY <1>0, Destroys
<1>6. Calls!Finish(e)
  BY <1>3, <1>4, <1>5 DEF Calls!Finish, RunningSlots
<1> QED BY <1>6 DEF Calls!Next

\* Every step is one of the atomic calls, or none.
LEMMA StepSimulation ==
  ASSUME TrackingInvariant, TrackingInvariant', [Next]_vars
  PROVE  [Calls!Next]_(Calls!vars)
<1>1. CASE \E e \in Emissions : LocksAll(e)
  BY <1>1, StartStep
<1>2. CASE \E e \in Emissions : Disconnect(e)
  BY <1>2, RetireStep
<1>3. CASE \E e \in Emissions : pc[e] = "call" /\ (SlotReturns(e) \/ Leave(e))
  BY <1>3, FinishStep
<1>4. CASE \E e \in Emissions :
             \/ Emit(e) \/ CheckUsable(e) \/ LockObject(e) \/ LockFails(e)
             \/ ClearList(e) \/ Advance(e) \/ (pc[e] # "call" /\ Leave(e))
  <2> PICK e \in Emissions :
             \/ Emit(e) \/ CheckUsable(e) \/ LockObject(e) \/ LockFails(e)
             \/ ClearList(e) \/ Advance(e) \/ (pc[e] # "call" /\ Leave(e))
    BY <1>4
  <2>1. UNCHANGED marked /\ pc[e] # "call" /\ pc'[e] # "call"
    BY DEF Emit, CheckUsable, LockObject, LockFails, ClearList, Advance, Leave,
           Goto, TrackingInvariant, TypeOK
  <2>2. \A f \in Emissions \ {e} : pc'[f] = pc[f] /\ curr'[f] = curr[f]
    BY DEF Emit, CheckUsable, LockObject, LockFails, ClearList, Advance, Leave,
           Goto, TrackingInvariant, TypeOK
  <2>3. RunningSlots' = RunningSlots
    BY <2>1, <2>2 DEF RunningSlots
  <2> QED BY <2>1, <2>3, QuietStep
<1>5. CASE \/ \E o \in Objects : Drop(o) \/ Adopt(o)
           \/ \E s \in Slots : Block(s) \/ Unblock(s)
           \/ Write \/ WriteDone \/ UNCHANGED vars
  <2>1. UNCHANGED <<marked, pc, curr>>
    BY <1>5 DEF Drop, Adopt, Block, Unblock, Write, WriteDone, vars, emitVars
  <2> QED BY <2>1, QuietStep DEF RunningSlots
<1>6. \A e \in Emissions : SlotReturns(e) => pc[e] = "call"
  BY DEF SlotReturns
<1> QED BY <1>1, <1>2, <1>3, <1>4, <1>5, <1>6 DEF Next, Walk

\* The first states agree.
LEMMA InitSimulation == Init => Calls!Init
BY DEF Init, Calls!Init, Alive

\* Locking the objects of a slot one by one looks to their owners like
\* locking all of them at one moment, and no slot is disconnected for an
\* object that still lives (slots.hpp:96-118).
THEOREM LockingIsAtomic == Spec => ImplementsTrackedCalls
<1>1. TrackingInvariant /\ TrackingInvariant' /\ [Next]_vars => [Calls!Next]_(Calls!vars)
  BY StepSimulation
<1> QED BY <1>1, InitSimulation, Tracking, PTL DEF Spec, ImplementsTrackedCalls, Calls!Spec

=============================================================================
