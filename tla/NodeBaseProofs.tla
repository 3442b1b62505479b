--------------------------- MODULE NodeBaseProofs ---------------------------
(***************************************************************************)
(* Proofs about NodeBase, for any set of threads and any sentinel.         *)
(***************************************************************************)
EXTENDS NodeBase, FiniteSetTheorems, TLAPS

(***************************************************************************)
(* Every variable of node_base and of the threads inside block() and       *)
(* unblock() stays in its type.                                            *)
(***************************************************************************)
THEOREM TypeCorrect == Spec => []TypeOK
<1>1. Init => TypeOK
  BY NodeBaseAssumption DEF Init, TypeOK
<1>2. TypeOK /\ [Next]_vars => TypeOK'
  <2> SUFFICES ASSUME TypeOK, [Next]_vars
               PROVE  TypeOK'
    OBVIOUS
  <2> USE NodeBaseAssumption, DisconnectedAssumption DEF TypeOK, Goto, History
  <2>1. ASSUME NEW t \in Threads, NEW d \in {-1, 1}, Call(t, d)
        PROVE  TypeOK'
    BY <2>1 DEF Call
  <2>2. ASSUME NEW t \in Threads, MarkDisconnected(t)
        PROVE  TypeOK'
    BY <2>2 DEF MarkDisconnected
  <2>3. ASSUME NEW t \in Threads, LoadDisconnected(t)
        PROVE  TypeOK'
    BY <2>3 DEF LoadDisconnected
  <2>4. ASSUME NEW t \in Threads, LoadCount(t)
        PROVE  TypeOK'
    BY <2>4 DEF LoadCount
  <2>5. ASSUME NEW t \in Threads, CasSuccess(t)
        PROVE  TypeOK'
    BY <2>5 DEF CasSuccess
  <2>6. ASSUME NEW t \in Threads, CasFailure(t)
        PROVE  TypeOK'
    BY <2>6 DEF CasFailure
  <2>7. CASE UNCHANGED vars
    BY <2>7 DEF vars
  <2>8. QED
    BY <2>1, <2>2, <2>3, <2>4, <2>5, <2>6, <2>7 DEF Next, Step
<1>3. QED
  BY <1>1, <1>2, PTL DEF Spec

-----------------------------------------------------------------------------
(***************************************************************************)
(* A thread about to compare-and-swap holds a snapshot that was a count,   *)
(* so the sentinel, once stored, never matches it.                         *)
(***************************************************************************)
SnapshotIsCount == \A t \in Threads : pc[t] = "cas" => Connected(snapshot[t])

CountInv == TypeOK /\ SnapshotIsCount /\ NoLostUpdate

\* Every step keeps the count and the mark.
LEMMA CountInvInductive ==
  ASSUME CountInv, [Next]_vars
  PROVE  CountInv' /\ (~Connected(unusable) => ~Connected(unusable'))
<1> USE NodeBaseAssumption, DisconnectedAssumption
    DEF CountInv, SnapshotIsCount, NoLostUpdate, TypeOK, Connected, Goto, History
<1>0. TypeOK'
  <2>1. ASSUME NEW t \in Threads, NEW d \in {-1, 1}, Call(t, d)
        PROVE  TypeOK'
    BY <2>1 DEF Call
  <2>2. ASSUME NEW t \in Threads, MarkDisconnected(t)
        PROVE  TypeOK'
    BY <2>2 DEF MarkDisconnected
  <2>3. ASSUME NEW t \in Threads, Step(t)
        PROVE  TypeOK'
    BY <2>3 DEF Step, LoadDisconnected, LoadCount, CasSuccess, CasFailure
  <2>4. CASE UNCHANGED vars
    BY <2>4 DEF vars
  <2>5. QED
    BY <2>1, <2>2, <2>3, <2>4 DEF Next
<1>1. ASSUME NEW t \in Threads, NEW d \in {-1, 1}, Call(t, d)
      PROVE  /\ SnapshotIsCount' /\ NoLostUpdate'
             /\ ~Connected(unusable) => ~Connected(unusable')
  BY <1>1 DEF Call
<1>2. ASSUME NEW t \in Threads, MarkDisconnected(t)
      PROVE  /\ SnapshotIsCount' /\ NoLostUpdate'
             /\ ~Connected(unusable) => ~Connected(unusable')
  BY <1>2 DEF MarkDisconnected
<1>3. ASSUME NEW t \in Threads, LoadDisconnected(t) \/ CasFailure(t)
      PROVE  /\ SnapshotIsCount' /\ NoLostUpdate'
             /\ ~Connected(unusable) => ~Connected(unusable')
  BY <1>3 DEF LoadDisconnected, CasFailure
<1>4. ASSUME NEW t \in Threads, LoadCount(t)
      PROVE  /\ SnapshotIsCount' /\ NoLostUpdate'
             /\ ~Connected(unusable) => ~Connected(unusable')
  BY <1>4 DEF LoadCount
<1>5. ASSUME NEW t \in Threads, CasSuccess(t)
      PROVE  /\ SnapshotIsCount' /\ NoLostUpdate'
             /\ ~Connected(unusable) => ~Connected(unusable')
  BY <1>5 DEF CasSuccess
<1>6. CASE UNCHANGED vars
  BY <1>6 DEF vars
<1>7. QED
  BY <1>0, <1>1, <1>2, <1>3, <1>4, <1>5, <1>6 DEF Next, Step

\* So it is always right.
LEMMA CountInvInvariant == Spec => []CountInv
<1>1. Init => CountInv
  BY NodeBaseAssumption
     DEF Init, CountInv, TypeOK, SnapshotIsCount, NoLostUpdate
<1>2. CountInv /\ [Next]_vars => CountInv'
  BY CountInvInductive
<1>3. QED
  BY <1>1, <1>2, PTL DEF Spec

(***************************************************************************)
(* No successful block() or unblock() is lost to a concurrent one.         *)
(***************************************************************************)
THEOREM NoUpdateIsLost == Spec => []NoLostUpdate
<1>1. CountInv => NoLostUpdate
  BY DEF CountInv
<1>2. QED
  BY <1>1, CountInvInvariant, PTL

(***************************************************************************)
(* A marked node stays marked, whatever block() and unblock() loaded       *)
(* before the mark.                                                        *)
(***************************************************************************)
THEOREM MarkIsFinal == Spec => DisconnectIsFinal
<1>1. CountInv /\ [Next]_vars
        => [~Connected(unusable) => ~Connected(unusable')]_vars
  BY CountInvInductive
<1>2. QED
  BY <1>1, CountInvInvariant, PTL DEF Spec, DisconnectIsFinal

(***************************************************************************)
(* The compare-and-swap loops implement the instantaneous counter that     *)
(* signal assumes node_base to be.                                         *)
(***************************************************************************)
THEOREM WordIsAtomic == Spec => ImplementsBlockCounter
<1>1. Init => Abstract!Init
  BY DEF Init, Abstract!Init
<1>2. CountInv /\ [Next]_vars => [Abstract!Next]_unusable
  <2> SUFFICES ASSUME CountInv, [Next]_vars
               PROVE  [Abstract!Next]_unusable
    OBVIOUS
  <2> USE DEF Abstract!Next, Abstract!Block, Abstract!Unblock,
              Abstract!Disconnect, Connected, Abstract!Connected, History
  <2>store. ASSUME NEW t \in Threads, CasSuccess(t)
            PROVE  Abstract!Block \/ Abstract!Unblock
    BY <2>store DEF CasSuccess, CountInv, TypeOK, SnapshotIsCount
  <2>mark. ASSUME NEW t \in Threads, MarkDisconnected(t)
           PROVE  Abstract!Disconnect
    BY <2>mark DEF MarkDisconnected
  \* entering a call, a load and a failed compare-and-swap store nothing
  <2>hidden. CASE \/ UNCHANGED vars
                  \/ \E t \in Threads :
                       \/ LoadDisconnected(t) \/ LoadCount(t) \/ CasFailure(t)
                       \/ \E d \in {-1, 1} : Call(t, d)
    <3>1. UNCHANGED unusable
      BY <2>hidden DEF Call, LoadDisconnected, LoadCount, CasFailure, vars
    <3> QED BY <3>1
  <2> QED BY <2>store, <2>mark, <2>hidden DEF Next, Step
<1>3. QED
  BY <1>1, <1>2, CountInvInvariant, PTL
     DEF Spec, ImplementsBlockCounter, Abstract!Spec

-----------------------------------------------------------------------------
(***************************************************************************)
(* mark_disconnected() has exactly one winner only while the count cannot  *)
(* walk down to the sentinel: the calls of the whole life of the node,     *)
(* subtracted from its first word, must stay above it.  Each completed     *)
(* unblock() and each unblock() still under way has used up a call.        *)
(***************************************************************************)
Busy == {t \in Threads : pc[t] # "idle"}

SentinelOutOfReach == \A w \in InitialWords : w - MaxCalls > Disconnected

MarkInv ==
  /\ CountInv
  /\ Cardinality(Busy) - net <= calls
  /\ marks = 0 => wins = 0 /\ Connected(unusable)
  /\ marks > 0 => wins = 1 /\ ~Connected(unusable)

\* The number of busy threads is a number.
LEMMA BusyCardinality ==
  ASSUME IsFiniteSet(Threads)
  PROVE  IsFiniteSet(Busy) /\ Cardinality(Busy) \in Nat
<1>1. Busy \in SUBSET Threads
  BY DEF Busy
<1>2. QED
  BY <1>1, FS_Subset, FS_CardinalityType

\* A thread that enters a call joins Busy, one that returns leaves it.
LEMMA BusyChanges ==
  ASSUME IsFiniteSet(Threads), TypeOK, NEW t \in Threads
  PROVE  /\ pc[t] = "idle" /\ pc' = [pc EXCEPT ![t] = "load"]
              => Cardinality(Busy') = Cardinality(Busy) + 1
         /\ pc[t] # "idle" /\ pc' = [pc EXCEPT ![t] = "idle"]
              => Cardinality(Busy') = Cardinality(Busy) - 1
         /\ pc[t] # "idle" /\ pc' \in {[pc EXCEPT ![t] = "load"], [pc EXCEPT ![t] = "cas"]}
              => Busy' = Busy
<1>1. ASSUME pc[t] = "idle", pc' = [pc EXCEPT ![t] = "load"]
      PROVE  Cardinality(Busy') = Cardinality(Busy) + 1
  <2>1. Busy' = Busy \cup {t} /\ t \notin Busy
    BY <1>1 DEF Busy, TypeOK
  <2>2. QED
    BY <2>1, BusyCardinality, FS_AddElement
<1>2. ASSUME pc[t] # "idle", pc' = [pc EXCEPT ![t] = "idle"]
      PROVE  Cardinality(Busy') = Cardinality(Busy) - 1
  <2>1. Busy' = Busy \ {t} /\ t \in Busy
    BY <1>2 DEF Busy, TypeOK
  <2>2. QED
    BY <2>1, BusyCardinality, FS_RemoveElement
<1>3. ASSUME pc[t] # "idle",
             pc' \in {[pc EXCEPT ![t] = "load"], [pc EXCEPT ![t] = "cas"]}
      PROVE  Busy' = Busy
  BY <1>3 DEF Busy, TypeOK
<1>4. QED
  BY <1>1, <1>2, <1>3

\* Every step keeps what is said of the mark.
LEMMA MarkInvInductive ==
  ASSUME IsFiniteSet(Threads), SentinelOutOfReach, MarkInv, [Next]_vars
  PROVE  MarkInv'
<1>0. CountInv'
  BY CountInvInductive DEF MarkInv
<1>a. Cardinality(Busy) \in Nat /\ Cardinality(Busy)' \in Nat
  <2>1. IsFiniteSet(Busy) /\ Cardinality(Busy) \in Nat
    BY BusyCardinality
  <2>2. Busy' \in SUBSET Threads
    BY DEF Busy
  <2>3. QED
    BY <2>1, <2>2, FS_Subset, FS_CardinalityType
<1> USE NodeBaseAssumption, DisconnectedAssumption
    DEF MarkInv, CountInv, TypeOK, Goto, History
<1>1. ASSUME NEW t \in Threads, NEW d \in {-1, 1}, Call(t, d)
      PROVE  MarkInv'
  <2>1. Cardinality(Busy') = Cardinality(Busy) + 1
    BY <1>1, BusyChanges DEF Call
  <2>2. QED
    BY <1>0, <1>1, <1>a, <2>1 DEF Call, Connected
<1>2. ASSUME NEW t \in Threads, MarkDisconnected(t)
      PROVE  MarkInv'
  <2>1. Busy' = Busy
    BY <1>2 DEF MarkDisconnected, Busy
  <2>2. QED
    BY <1>0, <1>2, <1>a, <2>1 DEF MarkDisconnected, Connected
<1>3. ASSUME NEW t \in Threads, LoadDisconnected(t)
      PROVE  MarkInv'
  <2>1. Cardinality(Busy') = Cardinality(Busy) - 1
    BY <1>3, BusyChanges DEF LoadDisconnected
  <2>2. QED
    BY <1>0, <1>3, <1>a, <2>1 DEF LoadDisconnected, Connected
<1>4. ASSUME NEW t \in Threads, LoadCount(t) \/ CasFailure(t)
      PROVE  MarkInv'
  <2>1. Busy' = Busy
    BY <1>4, BusyChanges DEF LoadCount, CasFailure
  <2>2. QED
    BY <1>0, <1>4, <1>a, <2>1 DEF LoadCount, CasFailure, Connected
<1>5. ASSUME NEW t \in Threads, CasSuccess(t)
      PROVE  MarkInv'
  <2>1. Cardinality(Busy') = Cardinality(Busy) - 1
    BY <1>5, BusyChanges DEF CasSuccess
  <2>2. Cardinality(Busy)' - net' <= calls'
    BY <1>5, <1>a, <2>1 DEF CasSuccess
  <2>3. Connected(unusable)
    BY <1>5 DEF CasSuccess, SnapshotIsCount
  <2>4. marks = 0 /\ wins = 0 /\ marks' = 0 /\ wins' = 0
    BY <1>5, <2>3 DEF CasSuccess
  \* the count just stored is first + net', and net' >= -calls
  <2>5. unusable' = first + net'
    BY <1>5, <2>3 DEF CasSuccess, NoLostUpdate
  <2>6. unusable' > Disconnected
    BY <1>0, <1>5, <1>a, <2>2, <2>5 DEF CasSuccess, SentinelOutOfReach
  <2>7. QED
    BY <1>0, <2>2, <2>4, <2>6 DEF Connected
<1>6. CASE UNCHANGED vars
  <2>1. Busy' = Busy
    BY <1>6 DEF vars, Busy
  <2>2. QED
    BY <1>0, <1>6, <2>1 DEF vars, Connected
<1>7. QED
  BY <1>1, <1>2, <1>3, <1>4, <1>5, <1>6 DEF Next, Step

(***************************************************************************)
(* Of all the callers of mark_disconnected() exactly one is told to unlink *)
(* the node, provided the sentinel is out of reach of the unblock() calls. *)
(***************************************************************************)
THEOREM OneWinner ==
  ASSUME IsFiniteSet(Threads), SentinelOutOfReach
  PROVE  Spec => []OneCallerMarks
<1>1. Init => MarkInv
  <2> SUFFICES ASSUME Init
               PROVE  MarkInv
    OBVIOUS
  <2>1. Busy = {}
    BY DEF Busy, Init
  <2>2. Cardinality(Busy) = 0
    BY <2>1, FS_EmptySet
  <2>3. CountInv
    BY NodeBaseAssumption
       DEF Init, CountInv, TypeOK, SnapshotIsCount, NoLostUpdate
  <2>4. Connected(unusable)
    BY NodeBaseAssumption, DisconnectedAssumption
       DEF Init, SentinelOutOfReach, Connected
  <2>5. QED
    BY <2>2, <2>3, <2>4, NodeBaseAssumption DEF Init, MarkInv
<1>2. MarkInv /\ [Next]_vars => MarkInv'
  BY MarkInvInductive
<1>3. MarkInv => OneCallerMarks
  BY DEF MarkInv, OneCallerMarks
<1>4. QED
  BY <1>1, <1>2, <1>3, PTL DEF Spec
=============================================================================
