------------------------------ MODULE NodeBase ------------------------------
(***************************************************************************)
(* One node_base used by several threads: the compare-and-swap loops of    *)
(* block() and unblock() and the exchange of mark_disconnected(), one      *)
(* action per atomic access.                                               *)
(***************************************************************************)
EXTENDS NodeWord

CONSTANTS Threads,        \* the threads that hold a connection to the node
          InitialWords,   \* what _unusable may hold when the node is built
          MaxCalls        \* bound: calls made on the node in one behaviour

ASSUME NodeBaseAssumption ==
         /\ InitialWords \subseteq Int
         /\ MaxCalls \in Nat

VARIABLES
  unusable,   \* _unusable
  pc,         \* where each thread is in its call
  delta,      \* +1 in block(), -1 in unblock()
  snapshot,   \* the local of the same name
  calls,      \* calls made so far
  first,      \* history: _unusable at construction
  net,        \* history: block() minus unblock() calls that returned true
  marks,      \* history: mark_disconnected() calls
  wins        \* history: mark_disconnected() calls that returned true

vars == <<unusable, pc, delta, snapshot, calls, first, net, marks, wins>>

TypeOK ==
  /\ unusable \in Int
  /\ pc \in [Threads -> {"idle", "load", "cas"}]
  /\ delta \in [Threads -> {-1, 1}]
  /\ snapshot \in [Threads -> Int]
  /\ calls \in 0..MaxCalls
  /\ first \in InitialWords
  /\ net \in Int
  /\ marks \in 0..calls
  /\ wins \in 0..marks

-----------------------------------------------------------------------------
Goto(t, label) == pc' = [pc EXCEPT ![t] = label]

History == <<first, net, marks, wins>>

\* The word is not initialised by any constructor.
Init ==
  /\ unusable \in InitialWords
  /\ first = unusable
  /\ pc = [t \in Threads |-> "idle"]
  /\ delta = [t \in Threads |-> 1]
  /\ snapshot = [t \in Threads |-> 0]
  /\ calls = 0
  /\ net = 0
  /\ marks = 0
  /\ wins = 0

\* Mutant of Call: the count is moved by two.
CallByTwo(t, d) ==
  /\ pc[t] = "idle"
  /\ calls < MaxCalls
  /\ calls' = calls + 1
  /\ delta' = [delta EXCEPT ![t] = 2 * d]
  /\ Goto(t, "load")
  /\ UNCHANGED <<unusable, snapshot, History>>

\* A thread enters block() (d = 1) or unblock() (d = -1).
Call(t, d) ==
  /\ pc[t] = "idle"
  /\ calls < MaxCalls
  /\ calls' = calls + 1
  /\ delta' = [delta EXCEPT ![t] = d]
  /\ Goto(t, "load")
  /\ UNCHANGED <<unusable, snapshot, History>>

\* The load found the sentinel: the call returns false.
LoadDisconnected(t) ==
  /\ pc[t] = "load"
  /\ ~Connected(unusable)
  /\ Goto(t, "idle")
  /\ UNCHANGED <<unusable, delta, snapshot, calls, History>>

\* The load found a count: remember it for the compare-and-swap.
LoadCount(t) ==
  /\ pc[t] = "load"
  /\ Connected(unusable)
  /\ snapshot' = [snapshot EXCEPT ![t] = unusable]
  /\ Goto(t, "cas")
  /\ UNCHANGED <<unusable, delta, calls, History>>

\* Mutant of CasSuccess: a plain store of the new count.
StoreCount(t) ==
  /\ pc[t] = "cas"
  /\ unusable' = snapshot[t] + delta[t]
  /\ net' = net + delta[t]
  /\ Goto(t, "idle")
  /\ UNCHANGED <<delta, snapshot, calls, first, marks, wins>>

\* The word still holds the snapshot: the new count is stored, the call
\* returns true.
CasSuccess(t) ==
  /\ pc[t] = "cas"
  /\ unusable = snapshot[t]
  /\ unusable' = snapshot[t] + delta[t]
  /\ net' = net + delta[t]
  /\ Goto(t, "idle")
  /\ UNCHANGED <<delta, snapshot, calls, first, marks, wins>>

\* Mutant of CasFailure: the loop tries again without a new load.
RetryStale(t) ==
  /\ pc[t] = "cas"
  /\ UNCHANGED vars

\* compare_exchange_weak failed, because the word changed or spuriously:
\* the while loop starts over with a new load.
CasFailure(t) ==
  /\ pc[t] = "cas"
  /\ Goto(t, "load")
  /\ UNCHANGED <<unusable, delta, snapshot, calls, History>>

\* Mutant of MarkDisconnected: the old value is not compared.
MarkAlwaysFirst(t) ==
  /\ pc[t] = "idle"
  /\ calls < MaxCalls
  /\ calls' = calls + 1
  /\ marks' = marks + 1
  /\ wins' = wins + 1
  /\ unusable' = Disconnected
  /\ UNCHANGED <<pc, delta, snapshot, first, net>>

\* mark_disconnected(): one exchange, true unless the sentinel was there.
MarkDisconnected(t) ==
  /\ pc[t] = "idle"
  /\ calls < MaxCalls
  /\ calls' = calls + 1
  /\ marks' = marks + 1
  /\ wins' = IF Connected(unusable) THEN wins + 1 ELSE wins
  /\ unusable' = Disconnected
  /\ UNCHANGED <<pc, delta, snapshot, first, net>>

Step(t) ==
  \/ LoadDisconnected(t)
  \/ LoadCount(t)
  \/ CasSuccess(t)
  \/ CasFailure(t)

Next ==
  \E t \in Threads :
    \/ \E d \in {-1, 1} : Call(t, d)
    \/ MarkDisconnected(t)
    \/ Step(t)

\* A thread inside a call keeps running; a compare-and-swap that could
\* succeed again and again does not fail spuriously for ever.
Fairness == \A t \in Threads : WF_vars(Step(t)) /\ SF_vars(CasSuccess(t))

Spec == Init /\ [][Next]_vars

FairSpec == Spec /\ Fairness

-----------------------------------------------------------------------------
(* Properties                                                              *)

\* No block() or unblock() that returned true is lost to a concurrent one:
\* while the node is connected the word is its first value plus the net
\* number of successful calls (the loops of node_base.hpp:37-53, 60-76).
NoLostUpdate == Connected(unusable) => unusable = first + net

\* mark_disconnected() tells exactly one caller that it was the first, so
\* signal::disconnect unlinks a node once, whatever the threads do
\* (node_base.hpp:93, "@return true if was not previously marked").
OneCallerMarks == marks > 0 => wins = 1

\* Once the node is marked, no block() or unblock() that loaded the word
\* before may bring it back (the compare-and-swap of node_base.hpp:48, 71).
DisconnectIsFinal == [][~Connected(unusable) => ~Connected(unusable')]_vars

\* The loops implement instantaneous counter operations.
Abstract == INSTANCE BlockCounter WITH word <- unusable

ImplementsBlockCounter == Abstract!Spec

\* Every block() and unblock() returns, however often it has to retry.
CallsReturn == \A t \in Threads : pc[t] # "idle" ~> pc[t] = "idle"
=============================================================================
