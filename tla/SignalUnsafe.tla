---------------------------- MODULE SignalUnsafe ----------------------------
(***************************************************************************)
(* A signal used by one thread through its *_unsafe functions, which take  *)
(* no mutex: a slot may call any of them while emissions stand on their    *)
(* nodes, its own emission among them.                                     *)
(*                                                                         *)
(* Nobody looks while a function runs, so each is one action, made of what *)
(* SlotList says of the links; an emission takes one action per node.  The *)
(* client has control when no emission runs or the innermost runs a slot.  *)
(***************************************************************************)
EXTENDS SlotList, Sequences

CONSTANTS MaxDepth,    \* bound: emissions nested in each other
          Clients,     \* which sets of operations a client may use
          MaxBlock     \* bound: net block() or unblock() calls on a slot

ASSUME SignalUnsafeAssumption == MaxDepth \in Nat /\ MaxBlock \in Nat

VARIABLES
  frames,    \* the emissions under way, innermost last
  owned,     \* the nodes whose tracked object still has an owner
  api        \* the operations the client of this signal uses

threadVars == <<frames, owned, api>>

Depth == Len(frames)

Top == frames[Depth]

\* at is curr; seen, owed and barred are history: the slots called, the slots
\* callable ever since the emission began and not yet called, and the slots
\* disconnected before it began.
Frame == [at : Link, step : {"walk", "call", "done"},
          seen : SUBSET Node, owed : SUBSET Node, barred : SUBSET Node]

ThreadTypeOK ==
  /\ frames \in Seq(Frame) /\ Depth <= MaxDepth
  /\ \A i \in 1..Depth : frames[i].at = Null <=> frames[i].step = "done"
  /\ owned \subseteq Node
  /\ api \in Clients

ThreadInit ==
  /\ frames = <<>>
  /\ owned = Node
  /\ api \in Clients

-----------------------------------------------------------------------------
(* Helpers                                                                 *)

Running == fault = "none"

Control == Running /\ (frames # <<>> => Top.step = "call")

\* Mutant of Held: the iterator keeps a raw pointer.
HeldByNobody == {}

Held == {frames[i].at : i \in 1..Depth}

\* try_lock(): the object has an owner, or a slot that runs holds it.
Lockable(n) == n \in owned \/ \E i \in 1..Depth : frames[i].step = "call" /\ frames[i].at = n

Callable(n) == Usable(unusable[n]) /\ n \in owned

\* No emission under way has to call the nodes of S any more.
Excused(S) == [i \in 1..Depth |-> [frames[i] EXCEPT !.owed = @ \ S]]

Mark(S) ==
  /\ unusable' = [n \in Node |-> IF n \in S THEN Disconnected ELSE unusable[n]]
  /\ frames' = Excused(S)

-----------------------------------------------------------------------------
(* Connecting                                                              *)

IsExtended(x) == x => "extended" \in api

\* What the unsafe twins do to the links is line by line the same.
PushBackImplUnsafe(n) == PushBackImpl(n)

PushFrontImplUnsafe(n) == PushFrontImpl(n)

InsertImplUnsafe(n, g) == InsertImpl(n, g, Held)

PushBackUnsafe(x) ==
  /\ Control /\ "push_back" \in api /\ IsExtended(x)
  /\ MakeNode(fresh, "back", 0, x)
  /\ PushBackImplUnsafe(fresh)
  /\ UNCHANGED threadVars

PushFrontUnsafe(x) ==
  /\ Control /\ "push_front" \in api /\ IsExtended(x)
  /\ MakeNode(fresh, "front", 0, x)
  /\ PushFrontImplUnsafe(fresh)
  /\ UNCHANGED threadVars

InsertUnsafe(g, x) ==
  /\ Control /\ "insert" \in api /\ IsExtended(x)
  /\ MakeNode(fresh, "group", g, x)
  /\ InsertImplUnsafe(fresh, g)
  /\ UNCHANGED threadVars

-----------------------------------------------------------------------------
(* Disconnecting                                                           *)

\* Mutant of Unhook: the mark is not asked for, and the node unlinked again.
UnhookAgain(n, held) ==
  /\ Mark({n})
  /\ UnlinkNode(n, held \cup {n})
  /\ UNCHANGED <<nodeVars, owned, api>>

\* disconnect_unsafe(node), by a caller that holds the node: only who marks
\* it unlinks it.
Unhook(n, held) ==
  /\ Connected(unusable[n])
  /\ Mark({n})
  /\ UnlinkNode(n, held \cup {n})
  /\ UNCHANGED <<nodeVars, owned, api>>

\* connection::disconnect_unsafe() of a connection to n.
DisconnectUnsafe(n) ==
  /\ Control /\ "disconnect" \in api
  /\ n \in Known \cap Alive(Held)
  /\ Unhook(n, Held)

PopBackUnsafe ==
  /\ Control /\ "pop_back" \in api
  /\ tail # Null
  /\ Mark({tail})
  /\ UnlinkBack(Held)
  /\ UNCHANGED <<nodeVars, owned, api>>

PopFrontUnsafe ==
  /\ Control /\ "pop_front" \in api
  /\ head # Null
  /\ Mark({head})
  /\ UnlinkFront
  /\ UNCHANGED <<nodeVars, owned, api>>

ClearUnsafe ==
  /\ Control /\ "clear" \in api
  /\ head # Null
  /\ Mark(Listed)
  /\ UnlinkAll
  /\ UNCHANGED <<nodeVars, owned, api>>

\* Mutant of EraseUnsafe: the loop makes one turn less.
EraseUnsafeStops(g) ==
  LET size    == Cardinality({n \in storage : group[n] = g})
      endPos  == Locked(UpperBound(g), Held)
      iter    == Along(Locked(LowerBound(g), Held))
      members == {iter[k] : k \in 0..(size - 2)}
  IN  /\ Control /\ "erase" \in api
      /\ size > 0 \/ "erase_absent" \in api
      /\ LowerBound(g) # Null
      /\ fault' = CASE size = 0 -> "past_the_end"
                     [] Null \in members -> "null_dereference"
                     [] OTHER -> fault
      /\ tail' = IF UpperBound(g) = Null /\ iter[0] # Null
                 THEN Locked(prev[iter[0]], Held) ELSE tail
      /\ head' = IF iter[0] = head THEN endPos ELSE head
      /\ Mark(members)
      /\ next' = [n \in Node |-> IF n \in members THEN endPos ELSE next[n]]
      /\ storage' = {n \in storage : group[n] # g}
      /\ UNCHANGED <<groupHead, prev, nodeVars, owned, api>>

\* The loop makes as many turns as the group has stored nodes, and follows
\* next from the first; for a group without any it leaves group_storage.
EraseUnsafe(g) ==
  LET size    == Cardinality({n \in storage : group[n] = g})
      endPos  == Locked(UpperBound(g), Held)
      iter    == Along(Locked(LowerBound(g), Held))
      members == {iter[k] : k \in 0..(size - 1)}
  IN  /\ Control /\ "erase" \in api
      /\ size > 0 \/ "erase_absent" \in api
      /\ LowerBound(g) # Null
      /\ fault' = CASE size = 0 -> "past_the_end"
                     [] Null \in members -> "null_dereference"
                     [] OTHER -> fault
      /\ tail' = IF UpperBound(g) = Null /\ iter[0] # Null
                 THEN Locked(prev[iter[0]], Held) ELSE tail
      /\ head' = IF iter[0] = head THEN endPos ELSE head
      /\ Mark(members)
      /\ next' = [n \in Node |-> IF n \in members THEN endPos ELSE next[n]]
      /\ storage' = {n \in storage : group[n] # g}
      /\ UNCHANGED <<groupHead, prev, nodeVars, owned, api>>

-----------------------------------------------------------------------------
(* What else the client may do                                             *)

Block(n, d) ==
  /\ Control /\ "block" \in api
  /\ n \in Known \cap Alive(Held)
  /\ Connected(unusable[n])
  /\ unusable[n] + d \in (-MaxBlock)..MaxBlock
  /\ unusable' = [unusable EXCEPT ![n] = @ + d]
  /\ frames' = Excused(IF Usable(unusable[n] + d) THEN {} ELSE {n})
  /\ UNCHANGED <<linkVars, nodeVars, fault, owned, api>>

Expire(n) ==
  /\ Control /\ "expire" \in api
  /\ n \in Known \cap owned
  /\ owned' = owned \ {n}
  /\ frames' = Excused({n})
  /\ UNCHANGED <<listVars, api>>

-----------------------------------------------------------------------------
(* emit_unsafe() and unsafe_iterator                                       *)

SetTop(frame) == frames' = [frames EXCEPT ![Depth] = frame]

\* Mutant of GoneTo: the end of the list is not recognised.
GoneToAny(frame, n) == [frame EXCEPT !.at = n, !.step = "walk"]

\* Where the emission stands when it has gone on to node n.
GoneTo(frame, n) == [frame EXCEPT !.at = n, !.step = IF n = Null THEN "done" ELSE "walk"]

EmitUnsafe ==
  /\ Control
  /\ Depth < MaxDepth
  /\ head # Null
  /\ frames' = Append(frames,
       [at |-> head, step |-> "walk", seen |-> {},
        owed |-> {n \in Known : Callable(n)},
        barred |-> {n \in Known : ~Connected(unusable[n])}])
  /\ UNCHANGED <<listVars, owned, api>>

Walking == Running /\ frames # <<>> /\ Top.step = "walk"

Skip ==
  /\ Walking
  /\ ~Usable(unusable[Top.at])
  /\ SetTop(GoneTo(Top, next[Top.at]))
  /\ UNCHANGED <<listVars, owned, api>>

\* A slot whose object is gone is disconnected; the emission leaves it behind
\* with its next step, which finds it unusable.
AutoDisconnect ==
  /\ Walking
  /\ Usable(unusable[Top.at]) /\ ~Lockable(Top.at)
  /\ Unhook(Top.at, Held)

\* *begin: an extended node is called through the type of a plain one.
Enter ==
  /\ Walking
  /\ Usable(unusable[Top.at]) /\ Lockable(Top.at)
  /\ SetTop([Top EXCEPT !.step = "call", !.seen = @ \cup {Top.at}, !.owed = @ \ {Top.at}])
  /\ fault' = IF Top.at \in extended THEN "bad_cast" ELSE fault
  /\ UNCHANGED <<linkVars, nodeVars, unusable, owned, api>>

\* The slot returns; ++begin goes on from its node as it is now.
Return ==
  /\ Control /\ frames # <<>>
  /\ SetTop(GoneTo(Top, next[Top.at]))
  /\ UNCHANGED <<listVars, owned, api>>

Pop == frames' = SubSeq(frames, 1, Depth - 1)

EmitReturns ==
  /\ Running /\ frames # <<>> /\ Top.step = "done"
  /\ Pop
  /\ UNCHANGED <<listVars, owned, api>>

SlotThrows ==
  /\ Control /\ frames # <<>> /\ "throw" \in api
  /\ Pop
  /\ UNCHANGED <<listVars, owned, api>>

Emission ==
  \/ EmitUnsafe \/ Skip \/ AutoDisconnect \/ Enter \/ Return
  \/ EmitReturns \/ SlotThrows
=============================================================================
