------------------------------- MODULE Signal -------------------------------
(***************************************************************************)
(* One signal shared by threads that connect and disconnect slots under    *)
(* its mutex and threads that emit without it.                             *)
(*                                                                         *)
(* An activation is one call under way: of a function that changes the     *)
(* signal (Writers) or of emit() (Emitters).  A slot that calls back into  *)
(* its signal is one more activation, so the re-entrant executions are     *)
(* among the interleavings.  Every action is one access that another       *)
(* activation can see: a store to head, to a next or to _unusable, or a    *)
(* load of one of them by an emission.  What only the mutex holder reads   *)
(* or writes is part of the neighbouring access.                           *)
(***************************************************************************)
EXTENDS SlotList, Sequences

CONSTANTS Writers, Emitters,   \* the activations of either kind
          Free,                \* the value of mutex when nobody holds it
          Clients,             \* which sets of operations a client may use
          MaxBlock             \* bound: net block() or unblock() calls on a slot

Activations == Writers \cup Emitters

Operations == {"push_back", "push_front", "insert", "extended", "pop_back",
               "pop_front", "disconnect", "clear", "erase", "block", "expire",
               "throw"}

ASSUME SignalAssumption ==
         /\ Writers \cap Emitters = {}
         /\ Free \notin Activations
         /\ Clients \subseteq SUBSET Operations
         /\ MaxBlock \in Nat

VARIABLES
  mutex,    \* _mutex: its holder, or Free
  pc,       \* the next step of each activation
  hand,     \* the node each activation keeps by a local shared_ptr
  stop,     \* erase(): end_pos
  pos,      \* erase(): bounds.first
  key,      \* erase(): group
  api,      \* the operations the client of this signal uses
  owned,    \* the nodes whose tracked object still has an owner
  locks,    \* the nodes whose tracked object an emission has locked
  called,   \* history: the slots this emission has called, in order
  must,     \* history: slots callable ever since this emission began
  dead      \* history: slots disconnected before this emission began

writerVars == <<stop, pos, key, api>>

trackVars == <<owned, locks>>

history == <<called, must, dead>>

threadVars == <<mutex, pc, hand, writerVars, trackVars, history>>

vars == <<listVars, threadVars>>

WriterSteps == {"idle", "disconnect", "unlink", "unlink_back", "unlink_front",
                "clear", "erase_mark", "erase_relink"}

EmitterSteps == {"idle", "check", "try_lock", "call", "disconnect", "unlink",
                 "advance", "done"}

ThreadTypeOK ==
  /\ mutex \in Activations \cup {Free}
  /\ pc \in [Activations -> WriterSteps \cup EmitterSteps]
  /\ \A w \in Writers : pc[w] \in WriterSteps
  /\ \A e \in Emitters : pc[e] \in EmitterSteps
  /\ hand \in [Activations -> Link]
  /\ stop \in [Writers -> Link] /\ pos \in [Writers -> Link]
  /\ key \in [Writers -> Groups \cup {0}]
  /\ api \in Clients

TrackTypeOK ==
  /\ owned \subseteq Node
  /\ locks \in [Emitters -> SUBSET Node]

HistoryTypeOK ==
  /\ called \in [Emitters -> Seq(Node)]
  /\ must \in [Emitters -> SUBSET Node]
  /\ dead \in [Emitters -> SUBSET Node]

TypeOK ==
  /\ ListTypeOK
  /\ ThreadTypeOK
  /\ TrackTypeOK
  /\ HistoryTypeOK

Init ==
  /\ ListInit
  /\ mutex = Free
  /\ pc = [a \in Activations |-> "idle"]
  /\ hand = [a \in Activations |-> Null]
  /\ stop = [w \in Writers |-> Null] /\ pos = [w \in Writers |-> Null]
  /\ key = [w \in Writers |-> 0]
  /\ api \in Clients
  /\ owned = Node
  /\ locks = [e \in Emitters |-> {}]
  /\ called = [e \in Emitters |-> <<>>]
  /\ must = [e \in Emitters |-> {}]
  /\ dead = [e \in Emitters |-> {}]

-----------------------------------------------------------------------------
(* Helpers                                                                 *)

Running == fault = "none"

Goto(a, label) == pc' = [pc EXCEPT ![a] = label]

Take(a, n) == hand' = [hand EXCEPT ![a] = n]

Acquire(a) == mutex = Free /\ mutex' = a

Release == mutex' = Free

\* The nodes kept by a local of some call under way.
Held == {hand[a] : a \in Activations} \cup {stop[w] : w \in Writers}

\* A slot an emission would call now.
Callable(n) == Usable(unusable[n]) /\ n \in owned

\* n is not callable any more, so no emission under way has to call it.
Excuse(n) == must' = [e \in Emitters |-> must[e] \ {n}]

Mark(n) ==
  /\ unusable' = Marked(n)
  /\ Excuse(n)
  /\ UNCHANGED <<called, dead>>

-----------------------------------------------------------------------------
(* Connecting: push_back, push_front, insert and their _extended variants  *)

Connect(w) ==
  /\ Running
  /\ pc[w] = "idle"
  /\ mutex = Free
  /\ UNCHANGED threadVars

IsExtended(x) == x => "extended" \in api

PushBack(w, x) ==
  /\ "push_back" \in api /\ IsExtended(x)
  /\ Connect(w)
  /\ MakeNode(fresh, "back", 0, x)
  /\ PushBackImpl(fresh)

PushFront(w, x) ==
  /\ "push_front" \in api /\ IsExtended(x)
  /\ Connect(w)
  /\ MakeNode(fresh, "front", 0, x)
  /\ PushFrontImpl(fresh)

Insert(w, g, x) ==
  /\ "insert" \in api /\ IsExtended(x)
  /\ Connect(w)
  /\ MakeNode(fresh, "group", g, x)
  /\ InsertImpl(fresh, g, Held)

-----------------------------------------------------------------------------
(* Disconnecting                                                           *)

\* connection::disconnect() locks its weak_ptr; the node is in hand while
\* the call waits for the mutex.
Disconnect(w, n) ==
  /\ Running
  /\ "disconnect" \in api
  /\ pc[w] = "idle"
  /\ n \in Known \cap Alive(Held)
  /\ Take(w, n)
  /\ Goto(w, "disconnect")
  /\ UNCHANGED <<listVars, mutex, writerVars, trackVars, history>>

\* Mutant of DisconnectReturns: every caller goes on with the next node.
DisconnectAdvances(a) == Goto(a, "advance") /\ UNCHANGED hand

\* How a call of signal::disconnect ends: an emission goes on with its node
\* in hand, a connection lets it go.
DisconnectReturns(a) ==
  IF a \in Emitters
  THEN Goto(a, "advance") /\ UNCHANGED hand
  ELSE Goto(a, "idle") /\ Take(a, Null)

\* Mutant of DisconnectMark: the node is marked without the mutex.
DisconnectMarkUnlocked(a) ==
  /\ Running
  /\ pc[a] = "disconnect"
  /\ \/ /\ Connected(unusable[hand[a]])
        /\ Mark(hand[a])
        /\ Goto(a, "unlink")
        /\ UNCHANGED hand
     \/ /\ ~Connected(unusable[hand[a]])
        /\ DisconnectReturns(a)
        /\ UNCHANGED <<unusable, history>>
  /\ UNCHANGED <<linkVars, nodeVars, fault, mutex, writerVars, trackVars>>

\* Mutant of DisconnectMark: nobody asks whether the node was marked before.
DisconnectMarkAgain(a) ==
  /\ Running
  /\ pc[a] = "disconnect"
  /\ Acquire(a)
  /\ Mark(hand[a])
  /\ Goto(a, "unlink")
  /\ UNCHANGED <<hand, linkVars, nodeVars, fault, writerVars, trackVars>>

\* signal::disconnect takes the mutex and marks the node; it is done when
\* somebody else marked it before.
DisconnectMark(a) ==
  /\ Running
  /\ pc[a] = "disconnect"
  /\ \/ /\ Connected(unusable[hand[a]])
        /\ Acquire(a)
        /\ Mark(hand[a])
        /\ Goto(a, "unlink")
        /\ UNCHANGED hand
     \/ /\ ~Connected(unusable[hand[a]])
        /\ mutex = Free
        /\ DisconnectReturns(a)
        /\ UNCHANGED <<unusable, mutex, history>>
  /\ UNCHANGED <<linkVars, nodeVars, fault, writerVars, trackVars>>

DisconnectUnlink(a) ==
  /\ Running
  /\ pc[a] = "unlink"
  /\ UnlinkNode(hand[a], Held)
  /\ Release
  /\ DisconnectReturns(a)
  /\ UNCHANGED <<nodeVars, unusable, writerVars, trackVars, history>>

PopBack(w) ==
  /\ Running
  /\ "pop_back" \in api
  /\ pc[w] = "idle"
  /\ tail # Null
  /\ Acquire(w)
  /\ Mark(tail)
  /\ Goto(w, "unlink_back")
  /\ UNCHANGED <<linkVars, nodeVars, fault, hand, writerVars, trackVars>>

PopFront(w) ==
  /\ Running
  /\ "pop_front" \in api
  /\ pc[w] = "idle"
  /\ head # Null
  /\ Acquire(w)
  /\ Mark(head)
  /\ Goto(w, "unlink_front")
  /\ UNCHANGED <<linkVars, nodeVars, fault, hand, writerVars, trackVars>>

PopUnlink(w) ==
  /\ Running
  /\ \/ pc[w] = "unlink_back" /\ UnlinkBack(Held)
     \/ pc[w] = "unlink_front" /\ UnlinkFront
  /\ Release
  /\ Goto(w, "idle")
  /\ UNCHANGED <<nodeVars, unusable, hand, writerVars, trackVars, history>>

\* clear() marks every node it meets from head, then drops the list.  Like
\* the pop functions it returns at once when there is nothing to do.
Clear(w) ==
  /\ Running
  /\ "clear" \in api
  /\ pc[w] = "idle"
  /\ head # Null
  /\ Acquire(w)
  /\ Take(w, head)
  /\ Goto(w, "clear")
  /\ UNCHANGED <<listVars, writerVars, trackVars, history>>

\* Mutant of ClearMark: iter = iter->next is missing.
ClearMarkStays(w) ==
  /\ Running
  /\ pc[w] = "clear"
  /\ hand[w] # Null
  /\ Mark(hand[w])
  /\ UNCHANGED <<linkVars, nodeVars, fault, mutex, pc, hand, writerVars, trackVars>>

ClearMark(w) ==
  /\ Running
  /\ pc[w] = "clear"
  /\ hand[w] # Null
  /\ Mark(hand[w])
  /\ Take(w, next[hand[w]])
  /\ UNCHANGED <<linkVars, nodeVars, fault, mutex, pc, writerVars, trackVars>>

ClearUnlink(w) ==
  /\ Running
  /\ pc[w] = "clear"
  /\ hand[w] = Null
  /\ UnlinkAll
  /\ Release
  /\ Goto(w, "idle")
  /\ UNCHANGED <<nodeVars, unusable, hand, writerVars, trackVars, history>>

-----------------------------------------------------------------------------
(* erase(group)                                                            *)

\* Unless no stored key is as great as g, erase() takes the node found by
\* equal_range for one to remove, and end_pos for what follows the group.
Erase(w, g) ==
  LET iter   == Locked(LowerBound(g), Held)
      endPos == Locked(UpperBound(g), Held)
  IN  /\ Running
      /\ "erase" \in api
      /\ pc[w] = "idle"
      /\ LowerBound(g) # Null
      /\ Acquire(w)
      /\ \/ /\ UpperBound(g) # Null
            /\ UNCHANGED <<tail, fault>>
         \/ /\ UpperBound(g) = Null /\ iter # Null
            /\ tail' = Locked(prev[iter], Held)
            /\ UNCHANGED fault
         \/ /\ UpperBound(g) = Null /\ iter = Null        \* iter->prev
            /\ fault' = "null_dereference"
            /\ UNCHANGED tail
      /\ head' = IF iter = head THEN endPos ELSE head
      /\ Take(w, iter)
      /\ stop' = [stop EXCEPT ![w] = endPos]
      /\ pos' = [pos EXCEPT ![w] = LowerBound(g)]
      /\ key' = [key EXCEPT ![w] = g]
      /\ Goto(w, "erase_mark")
      /\ UNCHANGED <<groupHead, storage, next, prev, nodeVars, unusable, api, trackVars, history>>

\* The body of the do loop, first store: iter->mark_disconnected().
EraseMark(w) ==
  /\ Running
  /\ pc[w] = "erase_mark"
  /\ \/ /\ hand[w] # Null
        /\ Mark(hand[w])
        /\ Goto(w, "erase_relink")
        /\ UNCHANGED fault
     \/ /\ hand[w] = Null
        /\ fault' = "null_dereference"
        /\ UNCHANGED <<unusable, pc, history>>
  /\ UNCHANGED <<linkVars, nodeVars, mutex, hand, writerVars, trackVars>>

\* Second store: iter->next = end_pos; then both cursors move on, and the
\* loop ends when bounds.first meets bounds.second.
EraseRelink(w) ==
  LET first == Successor(pos[w])
  IN  /\ Running
      /\ pc[w] = "erase_relink"
      /\ next' = [next EXCEPT ![hand[w]] = stop[w]]
      /\ \/ /\ pos[w] = Null             \* ++ on group_storage.end()
            /\ fault' = "past_the_end"
            /\ UNCHANGED <<storage, mutex, pc, hand, stop, pos>>
         \/ /\ pos[w] # Null /\ first # UpperBound(key[w])
            /\ Take(w, next[hand[w]])
            /\ pos' = [pos EXCEPT ![w] = first]
            /\ Goto(w, "erase_mark")
            /\ UNCHANGED <<storage, mutex, stop, fault>>
         \/ /\ pos[w] # Null /\ first = UpperBound(key[w])
            /\ storage' = {n \in storage : group[n] # key[w]}
            /\ Release
            /\ Take(w, Null)
            /\ stop' = [stop EXCEPT ![w] = Null]
            /\ pos' = [pos EXCEPT ![w] = Null]
            /\ Goto(w, "idle")
            /\ UNCHANGED fault
      /\ UNCHANGED <<head, tail, groupHead, prev, nodeVars, unusable, key, api, trackVars, history>>

-----------------------------------------------------------------------------
(* What happens to a slot without the mutex                                *)

\* connection::block() and unblock(), instantaneous by NodeBase.
Block(n, d) ==
  /\ Running
  /\ "block" \in api
  /\ n \in Known \cap Alive(Held)
  /\ Connected(unusable[n])
  /\ unusable[n] + d \in (-MaxBlock)..MaxBlock
  /\ unusable' = [unusable EXCEPT ![n] = @ + d]
  /\ \/ Usable(unusable[n] + d) /\ UNCHANGED must
     \/ ~Usable(unusable[n] + d) /\ Excuse(n)
  /\ UNCHANGED <<linkVars, nodeVars, fault, mutex, pc, hand, writerVars, trackVars, called, dead>>

\* The last owner of the object that slot n tracks lets it go.
Expire(n) ==
  /\ Running
  /\ "expire" \in api
  /\ n \in Known \cap owned
  /\ owned' = owned \ {n}
  /\ Excuse(n)
  /\ UNCHANGED <<listVars, mutex, pc, hand, writerVars, locks, called, dead>>

-----------------------------------------------------------------------------
(* emit()                                                                  *)

\* The load of head.
Emit(e) ==
  /\ Running
  /\ pc[e] = "idle"
  /\ Take(e, head)
  /\ Goto(e, IF head = Null THEN "done" ELSE "check")
  /\ must' = [must EXCEPT ![e] = {n \in Known : Callable(n)}]
  /\ dead' = [dead EXCEPT ![e] = {n \in Known : ~Connected(unusable[n])}]
  /\ UNCHANGED <<listVars, mutex, writerVars, trackVars, called>>

\* Mutant of CheckUsable: an unusable node is asked again.
CheckAgain(e) ==
  /\ Running
  /\ pc[e] = "check"
  /\ Goto(e, IF Usable(unusable[hand[e]]) THEN "try_lock" ELSE "check")
  /\ UNCHANGED <<listVars, mutex, hand, writerVars, trackVars, history>>

\* The load of _unusable in usable().
CheckUsable(e) ==
  /\ Running
  /\ pc[e] = "check"
  /\ Goto(e, IF Usable(unusable[hand[e]]) THEN "try_lock" ELSE "advance")
  /\ UNCHANGED <<listVars, mutex, hand, writerVars, trackVars, history>>

\* An object lives while it has an owner or an emission holds it.
Lockable(n) == n \in owned \/ \E e \in Emitters : n \in locks[e]

\* Mutant of TryLock: the objects are asked whether they are expired, but
\* not locked.
AskExpired(e) ==
  /\ Running
  /\ pc[e] = "try_lock"
  /\ Goto(e, IF Lockable(hand[e]) THEN "call" ELSE "disconnect")
  /\ UNCHANGED <<listVars, mutex, hand, writerVars, trackVars, history>>

\* try_lock(tracking): lock what the slot tracks, or disconnect the slot.
TryLock(e) ==
  /\ Running
  /\ pc[e] = "try_lock"
  /\ \/ /\ Lockable(hand[e])
        /\ locks' = [locks EXCEPT ![e] = {hand[e]}]
        /\ Goto(e, "call")
     \/ /\ ~Lockable(hand[e])
        /\ Goto(e, "disconnect")
        /\ UNCHANGED locks
  /\ UNCHANGED <<listVars, mutex, hand, writerVars, owned, history>>

\* *begin: the slot returns, and ++begin releases its locks.  An extended
\* node is called through the type of a plain one, for state_ is NONE.
CallSlot(e) ==
  /\ Running
  /\ pc[e] = "call"
  /\ called' = [called EXCEPT ![e] = Append(@, hand[e])]
  /\ fault' = IF hand[e] \in extended THEN "bad_cast" ELSE fault
  /\ locks' = [locks EXCEPT ![e] = {}]
  /\ Goto(e, "advance")
  /\ UNCHANGED <<linkVars, nodeVars, unusable, mutex, hand, writerVars, owned, must, dead>>

\* Mutant of Advance: the end of the list is not recognised.
AdvanceUnchecked(e) ==
  /\ Running
  /\ pc[e] = "advance"
  /\ Take(e, next[hand[e]])
  /\ Goto(e, "check")
  /\ UNCHANGED <<listVars, mutex, writerVars, trackVars, history>>

\* The load of next.
Advance(e) ==
  /\ Running
  /\ pc[e] = "advance"
  /\ Take(e, next[hand[e]])
  /\ Goto(e, IF next[hand[e]] = Null THEN "done" ELSE "check")
  /\ UNCHANGED <<listVars, mutex, writerVars, trackVars, history>>

ForgetEmission(e) ==
  /\ Goto(e, "idle")
  /\ Take(e, Null)
  /\ called' = [called EXCEPT ![e] = <<>>]
  /\ must' = [must EXCEPT ![e] = {}]
  /\ dead' = [dead EXCEPT ![e] = {}]

\* The combiner met the end iterator and emit() returns.
EmitReturns(e) ==
  /\ Running
  /\ pc[e] = "done"
  /\ ForgetEmission(e)
  /\ UNCHANGED <<listVars, mutex, writerVars, trackVars>>

\* A slot throws: emit() unwinds, its iterator and tracking_list with it.
SlotThrows(e) ==
  /\ Running
  /\ "throw" \in api
  /\ pc[e] = "call"
  /\ ForgetEmission(e)
  /\ locks' = [locks EXCEPT ![e] = {}]
  /\ UNCHANGED <<listVars, mutex, writerVars, owned>>

-----------------------------------------------------------------------------
StartWrite(w) ==
  \/ \E x \in BOOLEAN : PushBack(w, x) \/ PushFront(w, x)
  \/ \E x \in BOOLEAN, g \in Groups : Insert(w, g, x)
  \/ \E n \in Node : Disconnect(w, n)
  \/ PopBack(w) \/ PopFront(w) \/ Clear(w)
  \/ \E g \in Groups : Erase(w, g)

FinishWrite(w) ==
  \/ DisconnectMark(w) \/ DisconnectUnlink(w)
  \/ PopUnlink(w)
  \/ ClearMark(w) \/ ClearUnlink(w)
  \/ EraseMark(w) \/ EraseRelink(w)

EmitStep(e) ==
  \/ CheckUsable(e) \/ TryLock(e)
  \/ CallSlot(e) \/ SlotThrows(e)
  \/ DisconnectMark(e) \/ DisconnectUnlink(e)
  \/ Advance(e) \/ EmitReturns(e)

Next ==
  \/ \E w \in Writers : StartWrite(w) \/ FinishWrite(w)
  \/ \E e \in Emitters : Emit(e) \/ EmitStep(e)
  \/ \E n \in Node : Expire(n) \/ \E d \in {-1, 1} : Block(n, d)

Spec == Init /\ [][Next]_vars

\* Threads inside emit() are scheduled, and slots return.
EmitFairness ==
  \A e \in Emitters : WF_vars(EmitStep(e)) /\ SF_vars(DisconnectMark(e))

\* Threads inside a call that changes the signal are scheduled as well.
WriteFairness ==
  \A w \in Writers : WF_vars(FinishWrite(w)) /\ SF_vars(DisconnectMark(w))

EmitFairSpec == Spec /\ EmitFairness
=============================================================================
