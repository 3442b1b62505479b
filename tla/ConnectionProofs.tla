-------------------------- MODULE ConnectionProofs --------------------------
(***************************************************************************)
(* What holds of a thread that calls back, and of its handles, for every   *)
(* number of nodes, scoped connections and nested emissions.               *)
(***************************************************************************)
EXTENDS ConnectionProperties, ListProofs, SequenceTheorems

USE DisconnectedAssumption, SlotListAssumption, SignalUnsafeAssumption, ConnectionsAssumption

-----------------------------------------------------------------------------
(* The emissions under way                                                 *)

\* Excusing nodes changes what is owed, and nothing else.
LEMMA ExcusedFrames ==
  ASSUME ThreadTypeOK, NEW S, frames' = Excused(S)
  PROVE  /\ frames' \in Seq(Frame) /\ Depth' = Depth
         /\ \A i \in 1..Depth : /\ frames'[i].at = frames[i].at
                                /\ frames'[i].step = frames[i].step
         /\ Held' = Held
<1>1. frames \in Seq(Frame) /\ Depth \in Nat /\ DOMAIN frames = 1..Depth
  BY DEF ThreadTypeOK, Depth
<1>2. \A i \in 1..Depth : frames[i] \in Frame
  BY <1>1
<1>3. ASSUME NEW i \in 1..Depth
      PROVE  /\ frames'[i] \in Frame
             /\ frames'[i].at = frames[i].at /\ frames'[i].step = frames[i].step
  <2>1. frames'[i] = [frames[i] EXCEPT !.owed = @ \ S]
    BY DEF Excused
  <2> QED BY <1>2, <2>1 DEF Frame
<1>4. frames' \in [1..Depth -> Frame]
  BY <1>3 DEF Excused
<1>5. frames' \in Seq(Frame) /\ Len(frames') = Depth
  BY <1>1, <1>4
<1>6. Held' = Held
  BY <1>3, <1>5 DEF Held, Depth
<1> QED BY <1>3, <1>5, <1>6 DEF Depth

\* The innermost emission moves.
LEMMA TopFrame ==
  ASSUME ThreadTypeOK, frames # <<>>, NEW f \in Frame, SetTop(f)
  PROVE  /\ frames' \in Seq(Frame) /\ Depth' = Depth
         /\ \A i \in 1..Depth : frames'[i] = IF i = Depth THEN f ELSE frames[i]
         /\ Held' \subseteq Held \cup {f.at}
<1>1. frames \in Seq(Frame) /\ Depth \in Nat /\ Depth > 0 /\ DOMAIN frames = 1..Depth
  BY DEF ThreadTypeOK, Depth
<1>2. frames' = [frames EXCEPT ![Depth] = f]
  BY DEF SetTop
<1>3. frames' \in Seq(Frame) /\ Len(frames') = Depth
  BY <1>1, <1>2 DEF Depth
<1>4. \A i \in 1..Depth : frames'[i] = IF i = Depth THEN f ELSE frames[i]
  BY <1>1, <1>2
<1>5. Held' \subseteq Held \cup {f.at}
  BY <1>3, <1>4 DEF Held, Depth
<1> QED BY <1>3, <1>4, <1>5 DEF Depth

\* An emission begins,
LEMMA PushedFrame ==
  ASSUME ThreadTypeOK, NEW f \in Frame, frames' = Append(frames, f)
  PROVE  /\ frames' \in Seq(Frame) /\ Depth' = Depth + 1
         /\ \A i \in 1..Depth : frames'[i] = frames[i]
         /\ frames'[Depth + 1] = f
         /\ Held' \subseteq Held \cup {f.at}
<1>1. frames \in Seq(Frame) /\ Depth \in Nat
  BY DEF ThreadTypeOK, Depth
<1>2. /\ frames' \in Seq(Frame) /\ Depth' = Depth + 1
      /\ \A i \in 1..Depth : frames'[i] = frames[i]
      /\ frames'[Depth + 1] = f
  BY <1>1, AppendProperties DEF Depth
<1>3. \A i \in 1..Depth' : frames'[i] = f \/ i \in 1..Depth
  <2>1. PICK d \in Nat : d = Depth
    BY <1>1
  <2>2. \A i \in 1..(d + 1) : i = d + 1 \/ i \in 1..d
    OBVIOUS
  <2> QED BY <1>2, <2>1, <2>2
<1>4. Held' \subseteq Held \cup {f.at}
  BY <1>2, <1>3 DEF Held
<1> QED BY <1>2, <1>4

\* ... and ends.
LEMMA PoppedFrame ==
  ASSUME ThreadTypeOK, frames # <<>>, Pop
  PROVE  /\ frames' \in Seq(Frame) /\ Depth' = Depth - 1 /\ Depth > 0
         /\ \A i \in 1..(Depth - 1) : frames'[i] = frames[i]
         /\ Held' \subseteq Held
<1>1. frames \in Seq(Frame) /\ Depth \in Nat /\ Depth > 0
  BY DEF ThreadTypeOK, Depth
<1>2. PICK d \in Nat : d = Depth - 1
  BY <1>1
<1>3. \A i \in 1..d : frames[i] \in Frame
  BY <1>1, <1>2 DEF Depth
<1>4. /\ SubSeq(frames, 1, d) \in Seq(Frame) /\ Len(SubSeq(frames, 1, d)) = d
      /\ \A i \in 1..d : SubSeq(frames, 1, d)[i] = frames[i]
  <2>1. d - 1 + 1 = d /\ 1 \in Int /\ d \in Int /\ \A i \in 1..d : 1 + i - 1 = i
    BY <1>2
  <2>2. /\ SubSeq(frames, 1, d) \in Seq(Frame)
        /\ Len(SubSeq(frames, 1, d)) = IF 1 <= d THEN d - 1 + 1 ELSE 0
        /\ \A i \in 1..(d - 1 + 1) : SubSeq(frames, 1, d)[i] = frames[1 + i - 1]
    BY <1>3, <2>1, SubSeqProperties
  <2> QED BY <1>2, <2>1, <2>2
<1>5. frames' = SubSeq(frames, 1, d)
  BY <1>2 DEF Pop
<1>6. frames' \in Seq(Frame) /\ Depth' = d /\ \A i \in 1..d : frames'[i] = frames[i]
  BY <1>4, <1>5 DEF Depth
<1>7. Held' \subseteq Held
  BY <1>1, <1>2, <1>6 DEF Held
<1> QED BY <1>1, <1>2, <1>6, <1>7

-----------------------------------------------------------------------------
(* Types                                                                   *)

UnsafeTypeOK == ListTypeOK /\ ThreadTypeOK

\* The variables of the threads have their types.
LEMMA ThreadTyped ==
  ASSUME ThreadTypeOK, frames' \in Seq(Frame), Depth' \in 0..MaxDepth,
         \A i \in 1..Depth' : frames'[i].at = Null <=> frames'[i].step = "done",
         owned' \subseteq Node, api' = api
  PROVE  ThreadTypeOK'
BY DEF ThreadTypeOK, Depth

\* Marking nodes touches their words and what emissions owe.
LEMMA MarkedTyped ==
  ASSUME UnsafeTypeOK, NEW S, Mark(S), UNCHANGED <<nodeVars, owned, api>>
  PROVE  NodeTypeOK' /\ ThreadTypeOK' /\ Held' = Held
<1>1. NodeTypeOK'
  BY DEF UnsafeTypeOK, ListTypeOK, NodeTypeOK, Mark, nodeVars
<1>2. /\ frames' \in Seq(Frame) /\ Depth' = Depth /\ Held' = Held
      /\ \A i \in 1..Depth : frames'[i].at = frames[i].at /\ frames'[i].step = frames[i].step
  BY ExcusedFrames DEF UnsafeTypeOK, Mark
<1>3. Depth \in 0..MaxDepth
  BY DEF UnsafeTypeOK, ThreadTypeOK, Depth
<1>4. ThreadTypeOK'
  BY <1>2, <1>3, ThreadTyped DEF UnsafeTypeOK, ThreadTypeOK
<1> QED BY <1>1, <1>2, <1>4

\* Taking a node off the list keeps the types.
LEMMA UnhookTyped ==
  ASSUME UnsafeTypeOK, NEW n \in Node, NEW held, Unhook(n, held)
  PROVE  UnsafeTypeOK' /\ Held' = Held
<1>1. NodeTypeOK' /\ ThreadTypeOK' /\ Held' = Held
  BY MarkedTyped DEF Unhook
<1>2. LinkTypeOK'
  BY UnlinkNodeTyped DEF Unhook, UnsafeTypeOK, ListTypeOK
<1> QED BY <1>1, <1>2 DEF UnsafeTypeOK, ListTypeOK

\* push_back_unsafe, push_front_unsafe and insert_unsafe.
ConnectUnsafe ==
  \/ \E x \in BOOLEAN : PushBackUnsafe(x) \/ PushFrontUnsafe(x)
  \/ \E g \in Groups, x \in BOOLEAN : InsertUnsafe(g, x)

\* So does connecting a slot,
LEMMA ConnectTyped ==
  ASSUME UnsafeTypeOK, ConnectUnsafe
  PROVE  UnsafeTypeOK' /\ Held' = Held
<1>1. UNCHANGED threadVars
  BY DEF ConnectUnsafe, PushBackUnsafe, PushFrontUnsafe, InsertUnsafe
<1>2. ThreadTypeOK' /\ Held' = Held
  BY <1>1 DEF UnsafeTypeOK, ThreadTypeOK, Depth, Held, threadVars
<1>3. CASE \E x \in BOOLEAN : PushBackUnsafe(x) \/ PushFrontUnsafe(x)
  <2>1. PICK x \in BOOLEAN : PushBackUnsafe(x) \/ PushFrontUnsafe(x)
    BY <1>3
  <2>2. fresh \in Node /\ \E k \in Kinds, g \in Groups \cup {0} : MakeNode(fresh, k, g, x)
    BY <2>1 DEF PushBackUnsafe, PushFrontUnsafe, MakeNode, Kinds
  <2>3. NodeTypeOK'
    BY <2>2, MakeNodeTyped DEF UnsafeTypeOK, ListTypeOK
  <2>4. LinkTypeOK'
    BY <2>1, <2>2, PushBackTyped, PushFrontTyped
       DEF PushBackUnsafe, PushFrontUnsafe, PushBackImplUnsafe, PushFrontImplUnsafe,
           UnsafeTypeOK, ListTypeOK
  <2> QED BY <1>2, <2>3, <2>4 DEF UnsafeTypeOK, ListTypeOK
<1>4. CASE \E g \in Groups, x \in BOOLEAN : InsertUnsafe(g, x)
  <2>1. PICK g \in Groups, x \in BOOLEAN : InsertUnsafe(g, x)
    BY <1>4
  <2>2. fresh \in Node /\ MakeNode(fresh, "group", g, x) /\ InsertImpl(fresh, g, Held)
    BY <2>1 DEF InsertUnsafe, InsertImplUnsafe, MakeNode
  <2>3. NodeTypeOK'
    BY <2>2, MakeNodeTyped DEF UnsafeTypeOK, ListTypeOK, Kinds
  <2>4. LinkTypeOK'
    BY <2>2, InsertTyped DEF UnsafeTypeOK
  <2> QED BY <1>2, <2>3, <2>4 DEF UnsafeTypeOK, ListTypeOK
<1> QED BY <1>3, <1>4 DEF ConnectUnsafe

\* What erase_unsafe does, for some set of nodes that it meets.
LEMMA ErasedNodes ==
  ASSUME NEW g, EraseUnsafe(g)
  PROVE  \E iter, endPos, members :
           /\ iter = Along(Locked(LowerBound(g), Held))
           /\ endPos = Locked(UpperBound(g), Held)
           /\ \A n \in members : \E k \in Nat : n = iter[k]
           /\ fault' \in {"past_the_end", "null_dereference", fault}
           /\ tail' = tail \/ tail' = Locked(prev[iter[0]], Held)
           /\ head' = head \/ head' = endPos
           /\ Mark(members)
           /\ next' = [n \in Node |-> IF n \in members THEN endPos ELSE next[n]]
           /\ storage' \subseteq storage
           /\ UNCHANGED <<groupHead, prev, nodeVars, owned, api>>
<1>1. PICK size : size = Cardinality({n \in storage : group[n] = g})
  OBVIOUS
<1>2. PICK iter : iter = Along(Locked(LowerBound(g), Held))
  OBVIOUS
<1>3. PICK endPos : endPos = Locked(UpperBound(g), Held)
  OBVIOUS
<1>4. PICK members : members = {iter[k] : k \in 0..(size - 1)}
  OBVIOUS
<1>5. \A n \in members : \E k \in Nat : n = iter[k]
  BY <1>4
<1>6. /\ fault' = CASE size = 0 -> "past_the_end"
                     [] Null \in members -> "null_dereference"
                     [] OTHER -> fault
      /\ tail' = IF UpperBound(g) = Null /\ iter[0] # Null
                 THEN Locked(prev[iter[0]], Held) ELSE tail
      /\ head' = IF iter[0] = head THEN endPos ELSE head
      /\ Mark(members)
      /\ next' = [n \in Node |-> IF n \in members THEN endPos ELSE next[n]]
      /\ storage' = {n \in storage : group[n] # g}
      /\ UNCHANGED <<groupHead, prev, nodeVars, owned, api>>
  BY <1>1, <1>2, <1>3, <1>4 DEF EraseUnsafe
<1>7. /\ fault' \in {"past_the_end", "null_dereference", fault}
      /\ tail' = tail \/ tail' = Locked(prev[iter[0]], Held)
      /\ head' = head \/ head' = endPos
      /\ storage' \subseteq storage
  BY <1>6
<1> QED BY <1>2, <1>3, <1>5, <1>6, <1>7

\* pop_back_unsafe, pop_front_unsafe, clear_unsafe and erase_unsafe.
RemoveUnsafe ==
  \/ PopBackUnsafe \/ PopFrontUnsafe \/ ClearUnsafe
  \/ \E g \in Groups : EraseUnsafe(g)

\* ... a pop, clear() or erase(),
LEMMA RemoveTyped ==
  ASSUME UnsafeTypeOK, RemoveUnsafe
  PROVE  UnsafeTypeOK' /\ Held' = Held
<1>1. CASE PopBackUnsafe \/ PopFrontUnsafe \/ ClearUnsafe
  <2>1. NodeTypeOK' /\ ThreadTypeOK' /\ Held' = Held
    BY <1>1, MarkedTyped DEF PopBackUnsafe, PopFrontUnsafe, ClearUnsafe
  <2>2. LinkTypeOK'
    BY <1>1, UnlinkBackTyped, UnlinkFrontTyped, UnlinkAllTyped
       DEF PopBackUnsafe, PopFrontUnsafe, ClearUnsafe, UnsafeTypeOK, ListTypeOK
  <2> QED BY <2>1, <2>2 DEF UnsafeTypeOK, ListTypeOK
<1>2. ASSUME NEW g \in Groups, EraseUnsafe(g)
      PROVE  UnsafeTypeOK' /\ Held' = Held
  <2>1. PICK iter, endPos, members :
           /\ endPos = Locked(UpperBound(g), Held)
           /\ fault' \in {"past_the_end", "null_dereference", fault}
           /\ tail' = tail \/ tail' = Locked(prev[iter[0]], Held)
           /\ head' = head \/ head' = endPos
           /\ Mark(members)
           /\ next' = [n \in Node |-> IF n \in members THEN endPos ELSE next[n]]
           /\ storage' \subseteq storage
           /\ UNCHANGED <<groupHead, prev, nodeVars, owned, api>>
    BY <1>2, ErasedNodes
  <2>2. NodeTypeOK' /\ ThreadTypeOK' /\ Held' = Held
    BY <2>1, MarkedTyped
  <2>3. endPos \in Link /\ (tail' = tail \/ tail' \in Link)
    BY <2>1, LockedLink
  <2>4. LinkTypeOK'
    BY <2>1, <2>3 DEF UnsafeTypeOK, ListTypeOK, LinkTypeOK, Faults
  <2> QED BY <2>2, <2>4 DEF UnsafeTypeOK, ListTypeOK
<1> QED BY <1>1, <1>2 DEF RemoveUnsafe

\* ... a block(), an unblock() or an expiry,
LEMMA DisturbTyped ==
  ASSUME UnsafeTypeOK, NEW n \in Node, Expire(n) \/ \E d \in {-1, 1} : Block(n, d)
  PROVE  UnsafeTypeOK' /\ Held' = Held
<1>1. \E S : frames' = Excused(S)
  BY DEF Expire, Block
<1>2. /\ frames' \in Seq(Frame) /\ Depth' = Depth /\ Held' = Held
      /\ \A i \in 1..Depth : frames'[i].at = frames[i].at /\ frames'[i].step = frames[i].step
  BY <1>1, ExcusedFrames DEF UnsafeTypeOK
<1>3. Depth \in 0..MaxDepth
  BY DEF UnsafeTypeOK, ThreadTypeOK, Depth
<1>4. owned' \subseteq Node /\ api' = api
  BY DEF Expire, Block, UnsafeTypeOK, ThreadTypeOK
<1>5. ThreadTypeOK'
  BY <1>2, <1>3, <1>4, ThreadTyped DEF UnsafeTypeOK, ThreadTypeOK
<1>6. unusable' \in [Node -> Int]
  BY DEF Expire, Block, UnsafeTypeOK, ListTypeOK, NodeTypeOK, listVars
<1>7. ListTypeOK'
  BY <1>6 DEF Expire, Block, UnsafeTypeOK, ListTypeOK, LinkTypeOK, NodeTypeOK, listVars,
     linkVars, nodeVars
<1> QED BY <1>2, <1>5, <1>7 DEF UnsafeTypeOK

\* The node an emission stands on.
LEMMA TopOnNode ==
  ASSUME UnsafeTypeOK, frames # <<>>, Top.step # "done"
  PROVE  Top \in Frame /\ Top.at \in Node /\ Top.at \in Held
<1>1. frames \in Seq(Frame) /\ Depth \in 1..Depth
  BY DEF UnsafeTypeOK, ThreadTypeOK, Depth
<1>2. Top \in Frame /\ Top.at # Null /\ Top.at \in Held
  BY <1>1 DEF UnsafeTypeOK, ThreadTypeOK, Top, Depth, Held
<1> QED BY <1>2 DEF Frame, Link

\* Where it goes from there.
LEMMA GoneToFrame ==
  ASSUME UnsafeTypeOK, frames # <<>>, Top.step # "done", NEW f, f = GoneTo(Top, next[Top.at])
  PROVE  f \in Frame /\ f.at = next[Top.at] /\ (f.at = Null <=> f.step = "done")
<1>1. Top \in Frame /\ Top.at \in Node
  BY TopOnNode
<1>2. PICK q \in Link : q = next[Top.at]
  BY <1>1 DEF UnsafeTypeOK, ListTypeOK, LinkTypeOK
<1>3. PICK t \in Frame : t = Top
  BY <1>1
<1>4. f = [t EXCEPT !.at = q, !.step = IF q = Null THEN "done" ELSE "walk"]
  BY <1>2, <1>3 DEF GoneTo
<1> QED BY <1>2, <1>4 DEF Frame

\* An emission moves to a frame of the right shape.
LEMMA TopTyped ==
  ASSUME UnsafeTypeOK, frames # <<>>, NEW f \in Frame, f.at = Null <=> f.step = "done",
         SetTop(f), UNCHANGED <<owned, api>>
  PROVE  ThreadTypeOK' /\ Held' \subseteq Held \cup {f.at}
<1>1. /\ frames' \in Seq(Frame) /\ Depth' = Depth
      /\ \A i \in 1..Depth : frames'[i] = IF i = Depth THEN f ELSE frames[i]
      /\ Held' \subseteq Held \cup {f.at}
  BY TopFrame DEF UnsafeTypeOK
<1>2. Depth \in 0..MaxDepth
  BY DEF UnsafeTypeOK, ThreadTypeOK, Depth
<1>3. ThreadTypeOK'
  BY <1>1, <1>2, ThreadTyped DEF UnsafeTypeOK, ThreadTypeOK
<1> QED BY <1>1, <1>3

\* The steps of an emission but AutoDisconnect: they change nothing else, and
\* what they hold is what they held, head, or the next of what they held.
LEMMA EmissionTyped ==
  ASSUME UnsafeTypeOK,
         EmitUnsafe \/ Skip \/ Enter \/ Return \/ EmitReturns \/ SlotThrows
  PROVE  /\ UnsafeTypeOK' /\ UNCHANGED <<linkVars, nodeVars, unusable, owned, api>>
         /\ Held' \subseteq Held \cup {head} \cup {next[n] : n \in Held \ {Null}}
<1>1. UNCHANGED <<linkVars, nodeVars, unusable, owned, api>>
  BY DEF EmitUnsafe, Skip, Enter, Return, EmitReturns, SlotThrows, listVars
<1>2. fault' \in Faults
  BY DEF EmitUnsafe, Skip, Enter, Return, EmitReturns, SlotThrows, listVars, UnsafeTypeOK,
     ListTypeOK, LinkTypeOK, Faults
<1>3. ListTypeOK'
  BY <1>1, <1>2 DEF UnsafeTypeOK, ListTypeOK, LinkTypeOK, NodeTypeOK, linkVars, nodeVars
<1>4. CASE EmitUnsafe
  <2>1. Known \subseteq Node /\ head \in Link /\ head # Null
    BY <1>4, KnownNumbers DEF EmitUnsafe, UnsafeTypeOK, ListTypeOK, LinkTypeOK
  <2>2. PICK f : f = [at |-> head, step |-> "walk", seen |-> {},
                      owed |-> {n \in Known : Callable(n)},
                      barred |-> {n \in Known : ~Connected(unusable[n])}]
    OBVIOUS
  <2>3. f \in Frame /\ f.at = head /\ f.step = "walk"
    BY <2>1, <2>2 DEF Frame
  <2>4. frames' = Append(frames, f) /\ Depth < MaxDepth
    BY <1>4, <2>2 DEF EmitUnsafe
  <2>5. /\ frames' \in Seq(Frame) /\ Depth' = Depth + 1
        /\ \A i \in 1..Depth : frames'[i] = frames[i]
        /\ frames'[Depth + 1] = f
        /\ Held' \subseteq Held \cup {f.at}
    BY <2>3, <2>4, PushedFrame DEF UnsafeTypeOK
  <2>6. PICK d \in Nat : d = Depth
    BY DEF UnsafeTypeOK, ThreadTypeOK, Depth
  <2>7. Depth' \in 0..MaxDepth /\ \A i \in 1..(d + 1) : i \in 1..d \/ i = d + 1
    BY <2>4, <2>5, <2>6
  <2>8. \A i \in 1..Depth' : frames'[i].at = Null <=> frames'[i].step = "done"
    BY <2>1, <2>3, <2>5, <2>6, <2>7 DEF UnsafeTypeOK, ThreadTypeOK
  <2>9. ThreadTypeOK'
    BY <1>1, <2>5, <2>7, <2>8, ThreadTyped DEF UnsafeTypeOK, ThreadTypeOK
  <2> QED BY <1>1, <1>3, <2>3, <2>5, <2>9 DEF UnsafeTypeOK
<1>5. CASE Skip \/ Return
  <2>1. frames # <<>> /\ Top.step # "done"
    BY <1>5 DEF Skip, Walking, Return, Control
  <2>2. PICK f : f = GoneTo(Top, next[Top.at])
    OBVIOUS
  <2>3. f \in Frame /\ f.at = next[Top.at] /\ (f.at = Null <=> f.step = "done")
    BY <2>1, <2>2, GoneToFrame
  <2>4. SetTop(f)
    BY <1>5, <2>2 DEF Skip, Return
  <2>5. ThreadTypeOK' /\ Held' \subseteq Held \cup {f.at}
    BY <1>1, <2>1, <2>3, <2>4, TopTyped
  <2>6. Top.at \in Held /\ Top.at # Null
    BY <2>1, TopOnNode, NodeNumbers
  <2> QED BY <1>1, <1>3, <2>3, <2>5, <2>6 DEF UnsafeTypeOK
<1>6. CASE Enter
  <2>1. frames # <<>> /\ Top.step # "done"
    BY <1>6 DEF Enter, Walking
  <2>2. PICK t \in Frame : t = Top /\ t.at \in Node /\ t.at \in Held
    BY <2>1, TopOnNode
  <2>3. PICK f : f = [t EXCEPT !.step = "call", !.seen = @ \cup {t.at}, !.owed = @ \ {t.at}]
    OBVIOUS
  <2>4. f \in Frame /\ f.at = t.at /\ f.at # Null /\ f.step = "call"
    BY <2>2, <2>3, NodeNumbers DEF Frame
  <2>5. SetTop(f)
    BY <1>6, <2>2, <2>3 DEF Enter
  <2>6. ThreadTypeOK' /\ Held' \subseteq Held \cup {f.at}
    BY <1>1, <2>1, <2>4, <2>5, TopTyped
  <2> QED BY <1>1, <1>3, <2>2, <2>4, <2>6 DEF UnsafeTypeOK
<1>7. CASE EmitReturns \/ SlotThrows
  <2>1. frames # <<>> /\ Pop
    BY <1>7 DEF EmitReturns, SlotThrows
  <2>2. /\ frames' \in Seq(Frame) /\ Depth' = Depth - 1 /\ Depth > 0
        /\ \A i \in 1..(Depth - 1) : frames'[i] = frames[i]
        /\ Held' \subseteq Held
    BY <2>1, PoppedFrame DEF UnsafeTypeOK
  <2>3. PICK d \in Nat : d = Depth /\ d <= MaxDepth
    BY DEF UnsafeTypeOK, ThreadTypeOK, Depth
  <2>4. Depth' \in 0..MaxDepth /\ \A i \in 1..(d - 1) : i \in 1..d
    BY <2>2, <2>3
  <2>5. \A i \in 1..Depth' : frames'[i].at = Null <=> frames'[i].step = "done"
    BY <2>2, <2>3, <2>4 DEF UnsafeTypeOK, ThreadTypeOK
  <2>6. ThreadTypeOK'
    BY <1>1, <2>2, <2>4, <2>5, ThreadTyped DEF UnsafeTypeOK, ThreadTypeOK
  <2> QED BY <1>1, <1>3, <2>2, <2>6 DEF UnsafeTypeOK
<1> QED BY <1>4, <1>5, <1>6, <1>7

\* A node can be locked when some chain of owners leads to it.
LEMMA AliveNode ==
  ASSUME NEW held, NEW n \in Alive(held)
  PROVE  n \in Node
BY DEF Alive, Reach

\* ... a disconnect() through a handle,
LEMMA DisconnectThroughTyped ==
  ASSUME UnsafeTypeOK, NEW n, NEW held, DisconnectThrough(n, held)
  PROVE  UnsafeTypeOK' /\ Held' = Held
<1>1. CASE UNCHANGED <<listVars, threadVars>>
  BY <1>1 DEF UnsafeTypeOK, ListTypeOK, LinkTypeOK, NodeTypeOK, ThreadTypeOK, Depth, Held,
     listVars, linkVars, nodeVars, threadVars
<1>2. CASE n \in Alive(held) /\ Unhook(n, held)
  BY <1>2, AliveNode, UnhookTyped
<1>3. CASE /\ fault' \in {"self_lock", "dangling_signal"}
           /\ UNCHANGED <<linkVars, nodeVars, unusable, threadVars>>
  BY <1>3 DEF UnsafeTypeOK, ListTypeOK, LinkTypeOK, NodeTypeOK, ThreadTypeOK, Depth, Held,
     linkVars, nodeVars, threadVars, Faults
<1> QED BY <1>1, <1>2, <1>3 DEF DisconnectThrough

\* ... the end of the thread in a fault,
LEMMA FaultTyped ==
  ASSUME UnsafeTypeOK, fault' = "dangling_handle",
         UNCHANGED <<linkVars, nodeVars, unusable, threadVars>>
  PROVE  UnsafeTypeOK' /\ Held' = Held
BY DEF UnsafeTypeOK, ListTypeOK, LinkTypeOK, NodeTypeOK, ThreadTypeOK, Depth, Held,
   linkVars, nodeVars, threadVars, Faults

HandleTypeOK ==
  /\ live \in BOOLEAN
  /\ holds \in [Scoped -> Link] /\ home \in [Scoped -> Link]
  /\ assigning \subseteq Scoped \X Link
  /\ buried \subseteq Node
  /\ locked \in BOOLEAN
  /\ guarded \subseteq Node

\* The mutex is held or it is not.
LEMMA LocksTyped ==
  ASSUME NEW l \in BOOLEAN
  PROVE  Locks(l) \in BOOLEAN
BY DEF Locks

\* ... and so every step.
LEMMA NextTyped == TypeOK /\ [Next]_vars => TypeOK'
<1> SUFFICES ASSUME UnsafeTypeOK, HandleTypeOK, [Next]_vars
             PROVE  UnsafeTypeOK' /\ HandleTypeOK'
  BY DEF TypeOK, UnsafeTypeOK, HandleTypeOK
<1> USE NodeNumbers
<1>1. ASSUME NEW h \in Scoped, FunctorDrops(h)
      PROVE  UnsafeTypeOK' /\ HandleTypeOK'
  BY <1>1, DisconnectThroughTyped, FaultTyped DEF FunctorDrops, HandleTypeOK, Link
<1>2. ASSUME NEW n \in Node, Bury(n)
      PROVE  UnsafeTypeOK' /\ HandleTypeOK'
  <2>1. UnsafeTypeOK'
    BY <1>2 DEF Bury, UnsafeTypeOK, ListTypeOK, LinkTypeOK, NodeTypeOK, ThreadTypeOK, Depth,
       listVars, linkVars, nodeVars, threadVars
  <2>2. locked' \in BOOLEAN
    BY <1>2, LocksTyped DEF Bury, HandleTypeOK
  <2>3. holds' \in [Scoped -> Link]
    BY <1>2 DEF Bury, HandleTypeOK, Link
  <2>4. assigning' \subseteq Scoped \X Link
    BY <1>2 DEF Bury, HandleTypeOK, Link
  <2> QED BY <1>2, <2>1, <2>2, <2>3, <2>4 DEF Bury, HandleTypeOK
<1>3. CASE Connect
  <2>1. UnsafeTypeOK'
    BY <1>3, ConnectTyped DEF Connect, ConnectUnsafe
  <2>2. fresh \in Node
    BY <1>3 DEF Connect, PushBackUnsafe, PushFrontUnsafe, InsertUnsafe, MakeNode
  <2>3. home' \in [Scoped -> Link]
    BY <1>3, <2>2 DEF Connect, Own, HandleTypeOK, Link
  <2> QED BY <1>3, <2>1, <2>3 DEF Connect, HandleTypeOK
<1>4. CASE DisconnectSlot
  BY <1>4, UnhookTyped DEF DisconnectSlot, DisconnectUnsafe, HandleTypeOK, handleVars
<1>5. ASSUME NEW l \in BOOLEAN, RemoveSlots(l)
      PROVE  UnsafeTypeOK' /\ HandleTypeOK'
  <2>1. UnsafeTypeOK'
    BY <1>5, RemoveTyped DEF RemoveSlots, RemoveUnsafe
  <2>2. locked' \in BOOLEAN
    BY <1>5, LocksTyped DEF RemoveSlots
  <2> QED BY <1>5, <2>1, <2>2 DEF RemoveSlots, HandleTypeOK, handleVars
<1>6. CASE Disturb
  BY <1>6, DisturbTyped DEF Disturb, HandleTypeOK, handleVars
<1>7. CASE EmissionStep
  <2>1. CASE AutoDisconnect
    <3>1. Top.at \in Node
      BY <2>1, TopOnNode DEF AutoDisconnect, Walking
    <3> QED BY <1>7, <2>1, <3>1, UnhookTyped DEF AutoDisconnect, EmissionStep, HandleTypeOK, handleVars
  <2>2. CASE EmitUnsafe \/ Skip \/ Enter \/ Return \/ EmitReturns \/ SlotThrows
    BY <1>7, <2>2, EmissionTyped DEF EmissionStep, HandleTypeOK, handleVars
  <2> QED BY <1>7, <2>1, <2>2 DEF EmissionStep, Emission
<1>8. CASE DestroySignal
  <2>1. LinkTypeOK'
    BY <1>8, UnlinkAllTyped DEF DestroySignal, UnsafeTypeOK, ListTypeOK
  <2> QED BY <1>8, <2>1 DEF DestroySignal, UnsafeTypeOK, ListTypeOK, NodeTypeOK, ThreadTypeOK,
             Depth, nodeVars, threadVars, HandleTypeOK, handleVars
<1>9. ASSUME NEW h \in Scoped, NEW n \in Link, AssignScoped(h, n)
      PROVE  UnsafeTypeOK' /\ HandleTypeOK'
  BY <1>9, DisconnectThroughTyped DEF AssignScoped, HandleTypeOK, Link
<1>10. ASSUME NEW h \in Scoped, DestroyScoped(h)
       PROVE  UnsafeTypeOK' /\ HandleTypeOK'
  BY <1>10, DisconnectThroughTyped DEF DestroyScoped, HandleTypeOK, Link
<1>11. ASSUME NEW h \in Scoped, Release(h) \/ \E k \in Scoped \ {h} : CopyScoped(h, k)
       PROVE  UnsafeTypeOK' /\ HandleTypeOK'
  <2>1. UnsafeTypeOK'
    BY <1>11 DEF Release, CopyScoped, UnsafeTypeOK, ListTypeOK, LinkTypeOK, NodeTypeOK,
       ThreadTypeOK, Depth, listVars, linkVars, nodeVars, threadVars
  <2> QED BY <1>11, <2>1 DEF Release, CopyScoped, HandleTypeOK, Link
<1>t. ASSUME NEW h \in Scoped, NEW n \in Link, TakeOver(h, n)
      PROVE  UnsafeTypeOK' /\ HandleTypeOK'
  <2>1. UnsafeTypeOK'
    BY <1>t DEF TakeOver, UnsafeTypeOK, ListTypeOK, LinkTypeOK, NodeTypeOK,
       ThreadTypeOK, Depth, listVars, linkVars, nodeVars, threadVars
  <2> QED BY <1>t, <2>1 DEF TakeOver, HandleTypeOK, Link
<1>12. CASE UNCHANGED vars
  BY <1>12 DEF vars, UnsafeTypeOK, ListTypeOK, LinkTypeOK, NodeTypeOK, ThreadTypeOK, Depth,
     listVars, linkVars, nodeVars, threadVars, HandleTypeOK, handleVars
<1> QED BY <1>1, <1>2, <1>3, <1>4, <1>5, <1>6, <1>7, <1>8, <1>9, <1>10, <1>11, <1>t, <1>12
        DEF Next, ScopedStep

\* The first state has its types too.
LEMMA InitTyped == Init => TypeOK
<1> SUFFICES ASSUME Init PROVE TypeOK
  OBVIOUS
<1>1. ListTypeOK
  BY DEF Init, ListInit, ListTypeOK, LinkTypeOK, NodeTypeOK, Link, Kinds, Faults
<1>2. ThreadTypeOK
  BY DEF Init, ThreadInit, ThreadTypeOK, Depth
<1> QED BY <1>1, <1>2 DEF Init, TypeOK, Link

\* In every behaviour, whatever the client uses, the variables have their
\* types.
THEOREM TypeCorrect == Spec => []TypeOK
BY InitTyped, NextTyped, PTL DEF Spec

-----------------------------------------------------------------------------
(* Owners                                                                  *)

\* What owns the nodes of a set leads to no node outside it.
LEMMA AliveWithin ==
  ASSUME NEW S \in SUBSET Node, Closed(S), NEW held, held \subseteq S \cup {Null},
         {head, tail, groupHead} \subseteq S \cup {Null}, \A n \in Node : next[n] = n => n \in S
  PROVE  Alive(held) \subseteq S
<1>1. ({head, tail, groupHead} \cup held \cup {n \in Node : next[n] = n}) \ {Null} \subseteq S
  OBVIOUS
<1> QED BY <1>1, ReachLeast DEF Alive

\* Nobody that exists leads to a node that does not.
LEMMA ExistingClosed ==
  ASSUME ListTypeOK, LinksExist
  PROVE  /\ Existing \in SUBSET Node /\ Closed(Existing)
         /\ \A n \in Node : next[n] = n => n \in Existing
         /\ \A held : held \subseteq Existing \cup {Null} => Alive(held) \subseteq Existing
<1>1. Existing \in SUBSET Node
  BY KnownNumbers DEF Existing, ListTypeOK
<1>2. Closed(Existing)
  BY DEF LinksExist, Closed
<1>3. \A n \in Node : next[n] = n => n \in Existing
  BY NodeNumbers DEF LinksExist, Existing
<1>4. {head, tail, groupHead} \subseteq Existing \cup {Null}
  BY DEF LinksExist
<1> QED BY <1>1, <1>2, <1>3, <1>4, AliveWithin

\* Relinking inside a set of nodes: what the functions that disconnect do.
Within(S) ==
  /\ {head', tail', groupHead'} \subseteq S \cup {Null}
  /\ \A m \in Node : next'[m] = next[m] \/ (m \in S /\ next'[m] \in S \cup {Null})
  /\ storage' \subseteq storage

\* Taking a node off stores links among the live nodes only: from the front,
LEMMA UnlinkFrontWithin ==
  ASSUME NEW S \in SUBSET Node, Closed(S), {head, tail, groupHead} \subseteq S \cup {Null},
         head # Null, UnlinkFront
  PROVE  Within(S)
BY DEF UnlinkFront, UnlinkOnly, StorageWithout, Grouped, Within, Closed

\* ... from the back,
LEMMA UnlinkBackWithin ==
  ASSUME ListTypeOK, NEW S \in SUBSET Node, Closed(S), {head, tail, groupHead} \subseteq S \cup {Null},
         NEW held, Alive(held) \subseteq S, UnlinkBack(held)
  PROVE  Within(S)
<1>1. PICK p : p = Locked(prev[tail], held)
  OBVIOUS
<1>2. p # Null => p \in S
  BY <1>1 DEF Locked
<1>3. CASE p = Null
  BY <1>1, <1>3 DEF UnlinkBack, UnlinkOnly, StorageWithout, Grouped, Within
<1>4. CASE p # Null
  <2>1. /\ head' = head /\ tail' = p /\ groupHead' \in {groupHead, p}
        /\ next' = [next EXCEPT ![p] = Null] /\ storage' = storage
    BY <1>1, <1>4 DEF UnlinkBack, StorageWithout, Grouped
  <2> QED BY <1>2, <1>4, <2>1 DEF Within, ListTypeOK, LinkTypeOK
<1> QED BY <1>3, <1>4

\* ... from between,
LEMMA UnlinkMiddleWithin ==
  ASSUME ListTypeOK, NEW S \in SUBSET Node, Closed(S), {head, tail, groupHead} \subseteq S \cup {Null},
         NEW n \in S, NEW held, Alive(held) \subseteq S, UnlinkMiddle(n, held)
  PROVE  Within(S)
<1>1. PICK p : p = Locked(prev[n], held)
  OBVIOUS
<1>2. p # Null => p \in S
  BY <1>1 DEF Locked
<1>3. next[n] \in S \cup {Null}
  BY DEF Closed
<1>4. /\ head' = head /\ tail' = tail /\ groupHead' \in {groupHead, p} /\ storage' = storage
      /\ next' = IF p = Null THEN next ELSE [next EXCEPT ![p] = next[n]]
  BY <1>1 DEF UnlinkMiddle, StorageWithout, Grouped
<1> QED BY <1>2, <1>3, <1>4 DEF Within, ListTypeOK, LinkTypeOK

\* ... from wherever it is;
LEMMA UnlinkNodeWithin ==
  ASSUME ListTypeOK, NEW S \in SUBSET Node, Closed(S), {head, tail, groupHead} \subseteq S \cup {Null},
         NEW n \in S, NEW held, Alive(held) \subseteq S, UnlinkNode(n, held)
  PROVE  Within(S)
<1>1. CASE n = head /\ UnlinkFront
  BY <1>1, UnlinkFrontWithin, NodeNumbers
<1>2. CASE n # head /\ n = tail /\ UnlinkBack(held)
  BY <1>2, UnlinkBackWithin
<1>3. CASE n \notin {head, tail} /\ UnlinkMiddle(n, held)
  BY <1>3, UnlinkMiddleWithin
<1> QED BY <1>1, <1>2, <1>3 DEF UnlinkNode

\* ... and so does dropping the list.
LEMMA UnlinkAllWithin ==
  ASSUME NEW S, UnlinkAll
  PROVE  Within(S)
BY DEF UnlinkAll, UnlinkOnly, Within

\* The nodes that erase_unsafe meets are reached from one that exists.
LEMMA EraseWithin ==
  ASSUME UnsafeTypeOK, NEW S \in SUBSET Node, Closed(S),
         {head, tail, groupHead} \subseteq S \cup {Null}, Alive(Held) \subseteq S,
         NEW g, EraseUnsafe(g)
  PROVE  Within(S)
<1>1. PICK iter, endPos, members :
           /\ iter = Along(Locked(LowerBound(g), Held))
           /\ endPos = Locked(UpperBound(g), Held)
           /\ \A n \in members : \E k \in Nat : n = iter[k]
           /\ tail' = tail \/ tail' = Locked(prev[iter[0]], Held)
           /\ head' = head \/ head' = endPos
           /\ next' = [n \in Node |-> IF n \in members THEN endPos ELSE next[n]]
           /\ storage' \subseteq storage /\ groupHead' = groupHead
  BY ErasedNodes
<1>2. \A weak : Locked(weak, Held) \in S \cup {Null}
  BY DEF Locked
<1>3. \A k \in Nat : iter[k] \in S \cup {Null}
  BY <1>1, <1>2, AlongClosed DEF UnsafeTypeOK, ListTypeOK, LinkTypeOK
<1>4. \A m \in Node : m \in members => m \in S
  BY <1>1, <1>3, NodeNumbers
<1>5. {head', tail', groupHead'} \subseteq S \cup {Null}
  BY <1>1, <1>2
<1>6. \A m \in Node : next'[m] = next[m] \/ (m \in S /\ next'[m] \in S \cup {Null})
  BY <1>1, <1>2, <1>4
<1> QED BY <1>1, <1>5, <1>6 DEF Within

\* Relinking among the nodes that exist leads to no other.
LEMMA ExistingKept ==
  ASSUME ListTypeOK, LinksExist, Within(Existing), UNCHANGED <<fresh, buried>>
  PROVE  LinksExist'
<1>1. Known' = Known /\ Existing' = Existing
  BY DEF Known, Existing
<1>2. Existing \subseteq Node /\ Known \subseteq Node
  BY KnownNumbers DEF Existing, ListTypeOK
<1>3. \A n \in Existing : next'[n] \in Existing \cup {Null}
  BY <1>2 DEF Within, LinksExist
<1>4. \A n \in Node \ Known : next'[n] = Null
  BY DEF Within, LinksExist, Existing
<1>5. \A n \in buried : next'[n] # n
  BY <1>2 DEF Within, LinksExist, Existing
<1> QED BY <1>1, <1>3, <1>4, <1>5 DEF LinksExist, Within

\* A new node is linked to nodes that exist, and they to it.
LEMMA ConnectExists ==
  ASSUME UnsafeTypeOK, LinksExist, Held \subseteq Existing \cup {Null}, ConnectUnsafe,
         UNCHANGED buried
  PROVE  LinksExist' /\ Existing \subseteq Existing'
<1> USE NodeNumbers
<1>1. PICK n \in Node : n = fresh
  BY DEF ConnectUnsafe, PushBackUnsafe, PushFrontUnsafe, InsertUnsafe, MakeNode
<1>2. fresh' = n + 1
  BY <1>1 DEF ConnectUnsafe, PushBackUnsafe, PushFrontUnsafe, InsertUnsafe, MakeNode
<1>3. n \notin Known /\ Known' = Known \cup {n}
  BY <1>1, <1>2 DEF Known, UnsafeTypeOK, ListTypeOK, NodeTypeOK
<1>4. Existing' = Existing \cup {n} /\ n \notin buried /\ Existing \subseteq Node /\ next[n] = Null
  BY <1>3, KnownNumbers DEF Existing, LinksExist, UnsafeTypeOK, ListTypeOK
<1>5. /\ {head', tail', groupHead'} \subseteq Existing \cup {n, Null}
      /\ \A m \in Node : \/ next'[m] = next[m]
                         \/ m \in Existing \cup {n} /\ next'[m] \in Existing \cup {n, Null}
      /\ storage' \subseteq storage \cup {n}
  <2>1. CASE \E x \in BOOLEAN : PushBackUnsafe(x)
    <3>1. PushBackImpl(n)
      BY <1>1, <2>1 DEF PushBackUnsafe, PushBackImplUnsafe
    <3> QED BY <3>1 DEF PushBackImpl, LinksExist, UnsafeTypeOK, ListTypeOK, LinkTypeOK
  <2>2. CASE \E x \in BOOLEAN : PushFrontUnsafe(x)
    <3>1. PushFrontImpl(n)
      BY <1>1, <2>2 DEF PushFrontUnsafe, PushFrontImplUnsafe
    <3> QED BY <3>1 DEF PushFrontImpl, LinksExist, UnsafeTypeOK, ListTypeOK, LinkTypeOK
  <2>3. CASE \E g \in Groups, x \in BOOLEAN : InsertUnsafe(g, x)
    <3>1. PICK g \in Groups : InsertImpl(n, g, Held)
      BY <1>1, <2>3 DEF InsertUnsafe, InsertImplUnsafe
    <3>2. CASE InsertBehindGrouped(n, g, Held)
      <4>1. PICK p : p = Locked(Last({m \in storage : group[m] <= g}), Held)
        OBVIOUS
      <4>2. p \in Existing \cup {Null}
        BY <4>1, ExistingClosed DEF Locked, UnsafeTypeOK
      <4>3. CASE p = Null
        BY <3>2, <4>1, <4>3 DEF InsertBehindGrouped, LinksExist
      <4>4. CASE p # Null
        <5>1. p \in Existing /\ next[p] \in Existing \cup {Null}
          BY <4>2, <4>4 DEF LinksExist
        <5>2. /\ HookBehind(n, p) /\ tail' \in {tail, n} /\ head' = head
              /\ groupHead' = groupHead /\ storage' = storage \cup {n}
          BY <3>2, <4>1, <4>4 DEF InsertBehindGrouped
        <5> QED BY <5>1, <5>2 DEF HookBehind, LinksExist, UnsafeTypeOK, ListTypeOK, LinkTypeOK
      <4> QED BY <4>3, <4>4
    <3>3. CASE InsertFirstGrouped(n, g) /\ groupHead # Null
      <4>1. groupHead \in Existing /\ next[groupHead] \in Existing \cup {Null}
        BY <3>3 DEF LinksExist
      <4> QED BY <3>3, <4>1 DEF InsertFirstGrouped, HookBehind, LinksExist, UnsafeTypeOK,
                 ListTypeOK, LinkTypeOK
    <3>4. CASE InsertFirstGrouped(n, g) /\ groupHead = Null
      BY <3>4 DEF InsertFirstGrouped, LinksExist, UnsafeTypeOK, ListTypeOK, LinkTypeOK
    <3> QED BY <3>1, <3>2, <3>3, <3>4 DEF InsertImpl
  <2> QED BY <2>1, <2>2, <2>3 DEF ConnectUnsafe
<1>6. \A m \in Existing' : next'[m] \in Existing' \cup {Null}
  BY <1>4, <1>5 DEF LinksExist
<1>7. \A m \in Node \ Known' : next'[m] = Null
  BY <1>3, <1>4, <1>5 DEF LinksExist, Existing
<1>8. \A m \in buried : next'[m] # m
  BY <1>4, <1>5, KnownNumbers DEF LinksExist, Existing, UnsafeTypeOK, ListTypeOK
<1> QED BY <1>3, <1>4, <1>5, <1>6, <1>7, <1>8 DEF LinksExist

\* Fields that keep their values keep what is said of them.
LEMMA LinksStay ==
  ASSUME LinksExist, UNCHANGED <<linkVars, fresh, buried>>
  PROVE  LinksExist'
BY DEF LinksExist, Existing, Known, linkVars

\* Disconnecting a node that exists, by a caller whose locals exist.
LEMMA UnhookExists ==
  ASSUME UnsafeTypeOK, LinksExist, NEW n \in Existing,
         NEW held, held \subseteq Existing \cup {Null}, Unhook(n, held), UNCHANGED buried
  PROVE  LinksExist' /\ Existing' = Existing
<1>1. Alive(held \cup {n}) \subseteq Existing /\ Existing \in SUBSET Node /\ Closed(Existing)
  BY ExistingClosed DEF UnsafeTypeOK
<1>2. Within(Existing)
  BY <1>1, UnlinkNodeWithin DEF Unhook, UnsafeTypeOK, LinksExist
<1>3. UNCHANGED fresh
  BY DEF Unhook, nodeVars
<1> QED BY <1>2, <1>3, ExistingKept DEF UnsafeTypeOK, Existing, Known

\* What dying nodes lead to exists, and may be locked.
LEMMA HeldYetExists ==
  ASSUME LinksExist, Held \subseteq Existing \cup {Null}
  PROVE  HeldYet \subseteq Existing \cup {Null} /\ Doomed \subseteq Existing
BY DEF HeldYet, Doomed, Existing, LinksExist

\* Disconnecting through a handle whose node is gone does nothing, and else
\* the node exists.
LEMMA DisconnectThroughExists ==
  ASSUME UnsafeTypeOK, LinksExist, Held \subseteq Existing \cup {Null},
         NEW n, NEW held, held \subseteq Existing \cup {Null}, DisconnectThrough(n, held),
         UNCHANGED buried
  PROVE  LinksExist' /\ Existing' = Existing /\ Held' = Held
<1>1. Held' = Held
  BY DisconnectThroughTyped
<1>2. CASE n \in Alive(held) /\ Unhook(n, held)
  <2>1. n \in Existing
    BY <1>2, ExistingClosed DEF UnsafeTypeOK
  <2> QED BY <1>1, <1>2, <2>1, UnhookExists
<1>3. CASE UNCHANGED <<linkVars, nodeVars>>
  BY <1>1, <1>3, LinksStay DEF nodeVars, Existing, Known
<1> QED BY <1>2, <1>3 DEF DisconnectThrough, listVars

\* A dying node is nobody's: no field, no local and no node that exists
\* leads to it.
LEMMA DyingUnowned ==
  ASSUME TypeOK, OwnersLive, NEW n \in Dying
  PROVE  /\ n \in Existing /\ n \notin Alive(Held)
         /\ n \notin {head, tail, groupHead} \cup Held /\ next[n] # n
         /\ \A m \in Existing : next[m] # n
<1>1. n \in Existing /\ n \in Node /\ n \notin Alive(Held)
  BY KnownNumbers DEF Dying, Doomed, Existing, TypeOK, ListTypeOK
<1>2. n \notin {head, tail, groupHead} \cup Held /\ next[n] # n
  BY <1>1, ReachRoots DEF Alive
<1>3. Closed(Alive(Held)) /\ Alive(Held) \subseteq Node
  BY ReachClosed DEF TypeOK, ListTypeOK, LinkTypeOK, Alive
<1>4. ASSUME NEW m \in Existing, next[m] = n
      PROVE  FALSE
  <2>1. CASE m \in Alive(Held)
    BY <1>1, <1>3, <1>4, <2>1, NodeNumbers DEF Closed
  <2>2. CASE m \notin Alive(Held)
    BY <1>4, <2>2 DEF Dying, Doomed, Existing
  <2> QED BY <2>1, <2>2
<1> QED BY <1>1, <1>2, <1>4

\* At first there is no node that could be owned.
LEMMA InitOwners == Init => OwnersLive
BY DEF Init, ListInit, ThreadInit, OwnersLive, AssignmentSound, LinksExist, Existing, Known, Held,
   Depth, Node

\* What existing means of fields, locals and slots entrusted to handles.
OwnersExist ==
  LinksExist /\ Held \subseteq Existing \cup {Null} /\ guarded \subseteq Existing

\* Every step keeps the owners alive.
LEMMA NextOwnersExist == TypeOK /\ OwnersLive /\ [Next]_vars => OwnersExist'
<1> SUFFICES ASSUME TypeOK, OwnersLive, [Next]_vars
             PROVE  OwnersExist'
  OBVIOUS
<1> USE NodeNumbers
<1>t. UnsafeTypeOK
  BY DEF TypeOK, UnsafeTypeOK
<1>e. LinksExist /\ Held \subseteq Existing \cup {Null} /\ guarded \subseteq Existing
  BY DEF OwnersLive
<1>1. ASSUME NEW h \in Scoped, FunctorDrops(h)
      PROVE  OwnersExist'
  <2>1. CASE DisconnectThrough(holds[h], HeldYet)
    BY <1>1, <1>t, <1>e, <2>1, HeldYetExists, DisconnectThroughExists DEF FunctorDrops, OwnersExist
  <2>2. CASE UNCHANGED <<linkVars, fresh, buried, frames, guarded>>
    BY <1>e, <2>2, LinksStay DEF OwnersExist, Existing, Known, Held, Depth
  <2> QED BY <1>1, <2>1, <2>2 DEF FunctorDrops, nodeVars, threadVars
<1>2. ASSUME NEW n \in Node, Bury(n)
      PROVE  OwnersExist'
  <2>1. /\ n \in Existing /\ n \notin {head, tail, groupHead} \cup Held /\ next[n] # n
        /\ \A m \in Existing : next[m] # n
    BY <1>2, DyingUnowned DEF Bury
  <2>2. UNCHANGED <<linkVars, fresh, frames>> /\ buried' = buried \cup {n} /\ guarded' = guarded \ {n}
    BY <1>2 DEF Bury, listVars, nodeVars, threadVars
  <2>3. Known' = Known /\ Existing' = Existing \ {n} /\ Held' = Held
    BY <2>2 DEF Known, Existing, Held, Depth
  <2> QED BY <1>e, <2>1, <2>2, <2>3 DEF OwnersExist, LinksExist, Existing, linkVars
<1>3. CASE Connect
  <2>1. ConnectUnsafe /\ UNCHANGED <<buried, guarded>>
    BY <1>3 DEF Connect, ConnectUnsafe
  <2> QED BY <1>t, <1>e, <2>1, ConnectExists, ConnectTyped DEF OwnersExist
<1>4. CASE DisconnectSlot
  <2>1. PICK n \in Node : n \in Alive(Held) /\ Unhook(n, Held)
    BY <1>4 DEF DisconnectSlot, DisconnectUnsafe
  <2>2. n \in Existing
    BY <1>t, <1>e, <2>1, ExistingClosed DEF UnsafeTypeOK
  <2>3. UNCHANGED <<buried, guarded>>
    BY <1>4 DEF DisconnectSlot, handleVars
  <2> QED BY <1>t, <1>e, <2>1, <2>2, <2>3, UnhookExists, UnhookTyped DEF OwnersExist
<1>5. ASSUME NEW l \in BOOLEAN, RemoveSlots(l)
      PROVE  OwnersExist'
  <2>1. /\ Existing \in SUBSET Node /\ Closed(Existing) /\ Alive(Held) \subseteq Existing
        /\ {head, tail, groupHead} \subseteq Existing \cup {Null}
    BY <1>t, <1>e, ExistingClosed DEF UnsafeTypeOK, LinksExist
  <2>2. RemoveUnsafe /\ UNCHANGED <<buried, guarded>>
    BY <1>5 DEF RemoveSlots, RemoveUnsafe, handleVars
  <2>3. Within(Existing)
    BY <1>t, <2>1, <2>2, UnlinkBackWithin, UnlinkFrontWithin, UnlinkAllWithin, EraseWithin
       DEF RemoveUnsafe, PopBackUnsafe, PopFrontUnsafe, ClearUnsafe, UnsafeTypeOK
  <2>4. UNCHANGED fresh
    BY <2>2 DEF RemoveUnsafe, PopBackUnsafe, PopFrontUnsafe, ClearUnsafe, EraseUnsafe, nodeVars
  <2>5. LinksExist' /\ Existing' = Existing
    BY <1>t, <1>e, <2>2, <2>3, <2>4, ExistingKept DEF UnsafeTypeOK, Existing, Known
  <2> QED BY <1>t, <1>e, <2>2, <2>5, RemoveTyped DEF OwnersExist
<1>6. CASE Disturb
  <2>1. UNCHANGED <<linkVars, fresh, buried, guarded>>
    BY <1>6 DEF Disturb, Expire, Block, listVars, nodeVars, handleVars
  <2>2. Held' = Held
    BY <1>6, <1>t, DisturbTyped DEF Disturb
  <2> QED BY <1>e, <2>1, <2>2, LinksStay DEF OwnersExist, Existing, Known
<1>7. CASE EmissionStep
  <2>1. UNCHANGED <<buried, guarded>>
    BY <1>7 DEF EmissionStep, handleVars
  <2>2. CASE AutoDisconnect
    <3>1. Top.at \in Node /\ Top.at \in Held
      BY <1>t, <2>2, TopOnNode DEF AutoDisconnect, Walking
    <3> QED BY <1>t, <1>e, <2>1, <2>2, <3>1, UnhookExists, UnhookTyped DEF AutoDisconnect, OwnersExist
  <2>3. CASE EmitUnsafe \/ Skip \/ Enter \/ Return \/ EmitReturns \/ SlotThrows
    <3>1. /\ UNCHANGED <<linkVars, nodeVars>>
          /\ Held' \subseteq Held \cup {head} \cup {next[n] : n \in Held \ {Null}}
      BY <1>t, <2>3, EmissionTyped
    <3>2. LinksExist' /\ Existing' = Existing
      BY <1>e, <2>1, <3>1, LinksStay DEF nodeVars, Existing, Known
    <3>3. Held' \subseteq Existing \cup {Null}
      BY <1>e, <3>1 DEF LinksExist
    <3> QED BY <1>e, <2>1, <3>2, <3>3 DEF OwnersExist
  <2> QED BY <1>7, <2>2, <2>3 DEF EmissionStep, Emission
<1>8. CASE DestroySignal
  <2>1. UnlinkAll /\ UNCHANGED <<fresh, buried, guarded, frames>>
    BY <1>8 DEF DestroySignal, nodeVars, threadVars, handleVars
  <2>2. LinksExist' /\ Existing' = Existing /\ Held' = Held
    BY <1>t, <1>e, <2>1, UnlinkAllWithin, ExistingKept
       DEF UnsafeTypeOK, Existing, Known, Held, Depth
  <2> QED BY <1>e, <2>1, <2>2 DEF OwnersExist
<1>9. ASSUME NEW h \in Scoped, NEW n \in Link, AssignScoped(h, n)
      PROVE  OwnersExist'
  <2>1. LinksExist' /\ Existing' = Existing /\ Held' = Held
    BY <1>9, <1>t, <1>e, DisconnectThroughExists DEF AssignScoped
  <2> QED BY <1>9, <1>e, <2>1 DEF AssignScoped, OwnersExist
<1>10. ASSUME NEW h \in Scoped, DestroyScoped(h)
       PROVE  OwnersExist'
  BY <1>10, <1>t, <1>e, DisconnectThroughExists DEF DestroyScoped, OwnersExist
<1>11. ASSUME NEW h \in Scoped, Release(h) \/ \E k \in Scoped \ {h} : CopyScoped(h, k)
       PROVE  OwnersExist'
  <2>1. UNCHANGED <<linkVars, fresh, buried, frames>> /\ guarded' \subseteq guarded
    BY <1>11 DEF Release, CopyScoped, listVars, nodeVars, threadVars
  <2> QED BY <1>e, <2>1, LinksStay DEF OwnersExist, Existing, Known, Held, Depth
<1>a. ASSUME NEW h \in Scoped, NEW n \in Link, TakeOver(h, n)
      PROVE  OwnersExist'
  <2>1. UNCHANGED <<linkVars, fresh, buried, frames>> /\ guarded' = guarded \cup ({n} \ {Null})
    BY <1>a DEF TakeOver, listVars, nodeVars, threadVars
  <2>2. n \in Existing \cup {Null}
    BY <1>a DEF TakeOver, OwnersLive, AssignmentSound
  <2> QED BY <1>e, <2>1, <2>2, LinksStay DEF OwnersExist, Existing, Known, Held, Depth
<1>12. CASE UNCHANGED vars
  <2>1. UNCHANGED <<linkVars, fresh, buried, frames, guarded>>
    BY <1>12 DEF vars, listVars, nodeVars, threadVars, handleVars
  <2> QED BY <1>e, <2>1, LinksStay DEF OwnersExist, Existing, Known, Held, Depth
<1> QED BY <1>1, <1>2, <1>3, <1>4, <1>5, <1>6, <1>7, <1>8, <1>9, <1>10, <1>11, <1>a, <1>12
        DEF Next, ScopedStep

\* An assignment ends before its object does: an object that is in no functor
\* outlives it, and a functor that runs is not destroyed.
LEMMA NextAssignment == TypeOK /\ OwnersLive /\ [Next]_vars => AssignmentSound'
<1> SUFFICES ASSUME TypeOK, OwnersLive, [Next]_vars
             PROVE  AssignmentSound'
  OBVIOUS
<1> USE NodeNumbers
<1>t. UnsafeTypeOK
  BY DEF TypeOK, UnsafeTypeOK
<1>e. LinksExist /\ Held \subseteq Existing \cup {Null} /\ AssignmentSound
  BY DEF OwnersLive
<1>p. \A a \in assigning : a \in Scoped \X Link
  BY DEF TypeOK
<1>1. ASSUME NEW h \in Scoped, FunctorDrops(h)
      PROVE  AssignmentSound'
  <2>1. ~Settled
    BY <1>1 DEF FunctorDrops, Dying, Settled
  <2>2. Existing' = Existing /\ Held' = Held /\ api' = api
    <3>1. CASE DisconnectThrough(holds[h], HeldYet)
      <4>1. Existing' = Existing /\ Held' = Held
        BY <1>1, <1>t, <1>e, <3>1, HeldYetExists, DisconnectThroughExists DEF FunctorDrops, OwnersLive
      <4> QED BY <3>1, <4>1 DEF DisconnectThrough, Unhook, threadVars
    <3>2. CASE UNCHANGED <<nodeVars, threadVars>>
      BY <1>1, <3>2 DEF FunctorDrops, nodeVars, threadVars, Existing, Known, Held, Depth
    <3> QED BY <1>1, <3>1, <3>2 DEF FunctorDrops
  <2> QED BY <1>1, <1>e, <1>p, <2>1, <2>2 DEF FunctorDrops, AssignmentSound, TypeOK
<1>2. ASSUME NEW n \in Node, Bury(n)
      PROVE  AssignmentSound'
  <2>1. ~Settled
    BY <1>2 DEF Bury, Dying, Settled
  <2>2. Existing' = Existing \ {n} /\ Held' = Held /\ UNCHANGED <<api, home>>
    BY <1>2 DEF Bury, listVars, nodeVars, threadVars, Known, Existing, Held, Depth
  <2> SUFFICES ASSUME NEW b \in assigning'
               PROVE  /\ holds'[b[1]] = Null /\ b[2] \in Existing' \cup {Null}
                      /\ "assign_owned" \in api' \/ Settled' \/ home'[b[1]] \in {Null} \cup Held'
    BY DEF AssignmentSound
  <2>3. PICK a \in assigning : b = <<a[1], IF a[2] = n THEN Null ELSE a[2]>>
    BY <1>2 DEF Bury
  <2>4. b[1] = a[1] /\ b[2] = (IF a[2] = n THEN Null ELSE a[2]) /\ a[1] \in Scoped
    BY <1>p, <2>3
  <2>5. holds'[b[1]] = Null
    BY <1>2, <1>e, <2>4 DEF Bury, AssignmentSound
  <2> QED BY <1>e, <2>1, <2>2, <2>4, <2>5 DEF AssignmentSound
<1>3. ASSUME Settled, NEW h \in Scoped, NEW n \in Link, AssignScoped(h, n)
      PROVE  AssignmentSound'
  <2>1. Existing' = Existing /\ Held' = Held
    BY <1>3, <1>t, <1>e, DisconnectThroughExists DEF AssignScoped
  <2>2. api' = api
    BY <1>3 DEF AssignScoped, DisconnectThrough, Unhook, threadVars
  <2>3. holds[h] = Null => Settled'
    <3>1. Null \notin Alive(Held)
      BY AliveNode
    <3>2. holds[h] = Null => UNCHANGED <<listVars, threadVars, buried>>
      BY <1>3, <3>1 DEF AssignScoped, DisconnectThrough
    <3> QED BY <1>3, <3>2 DEF Settled, Doomed, Known, Alive, Reach, Closed, Held, Depth, listVars,
               linkVars, nodeVars, threadVars
  <2>4. assigning' = {<<h, n>>} /\ holds'[h] = Null /\ home' = home /\ n \in Existing \cup {Null}
    BY <1>3 DEF AssignScoped, TypeOK, Existing
  <2>5. "assign_owned" \in api' \/ Settled' \/ home'[h] \in {Null} \cup Held'
    BY <1>3, <2>1, <2>2, <2>3, <2>4 DEF AssignScoped
  <2> QED BY <2>1, <2>4, <2>5 DEF AssignmentSound
<1>4. CASE assigning' = {}
  BY <1>4 DEF AssignmentSound
<1>5. CASE /\ Settled /\ assigning = {}
           /\ Connect \/ DisconnectSlot \/ DestroySignal \/ Disturb \/ EmissionStep
              \/ \E l \in BOOLEAN : RemoveSlots(l)
  BY <1>4, <1>5 DEF Connect, DisconnectSlot, DestroySignal, Disturb, EmissionStep, RemoveSlots,
     handleVars
<1>6. CASE /\ Settled /\ assigning = {}
           /\ \E h \in Scoped : DestroyScoped(h) \/ Release(h) \/ \E k \in Scoped \ {h} : CopyScoped(h, k)
  BY <1>4, <1>6 DEF DestroyScoped, Release, CopyScoped
<1>7. CASE \E h \in Scoped, n \in Link : TakeOver(h, n)
  BY <1>4, <1>7 DEF TakeOver
<1>8. CASE UNCHANGED vars
  <2>1. /\ UNCHANGED <<assigning, holds, home, api>> /\ Existing' = Existing /\ Held' = Held
        /\ Settled' = Settled
    BY <1>8 DEF vars, listVars, linkVars, nodeVars, threadVars, handleVars, Settled, Doomed, Known,
       Existing, Alive, Reach, Closed, Held, Depth
  <2> QED BY <1>e, <2>1 DEF AssignmentSound
<1> QED BY <1>1, <1>2, <1>3, <1>5, <1>6, <1>7, <1>8 DEF Next, ScopedStep

\* Every step keeps both.
LEMMA NextOwners == TypeOK /\ OwnersLive /\ [Next]_vars => OwnersLive'
BY NextOwnersExist, NextAssignment DEF OwnersLive, OwnersExist

\* So a handle that dies with a functor is not in the middle of an
\* assignment, for a client that does not ask for it.
LEMMA NoneAssignedDies ==
  ASSUME TypeOK, OwnersLive, "assign_owned" \notin api, NEW h \in Scoped, FunctorDrops(h)
  PROVE  DisconnectThrough(holds[h], HeldYet)
<1>1. home[h] \in Dying /\ home[h] \notin Held /\ home[h] # Null
  BY DyingUnowned, KnownNumbers, NodeNumbers DEF FunctorDrops, Dying, Doomed, TypeOK, ListTypeOK
<1>2. ~Settled
  BY <1>1 DEF Dying, Settled
<1>3. ASSUME NEW n \in Link, <<h, n>> \in assigning
      PROVE  FALSE
  BY <1>1, <1>2, <1>3 DEF OwnersLive, AssignmentSound
<1> QED BY <1>3 DEF FunctorDrops

\* In every behaviour, whatever the client uses, nobody that exists points to
\* a node that was destroyed.
THEOREM OwnersAreLive == Spec => []OwnersLive
BY TypeCorrect, InitOwners, NextOwners, PTL DEF Spec

\* An emission never stands on a node that is destroyed, or about to be
\* (signal.hpp:1025, 1149, 1198).
THEOREM FunctorsLive == Spec => []FunctorLives
<1>1. TypeOK /\ OwnersLive => FunctorLives
  <2> SUFFICES ASSUME TypeOK, OwnersLive, NEW i \in 1..Depth
               PROVE  frames[i].at \notin buried \cup Dying
    BY DEF FunctorLives
  <2>1. frames[i].at \in Held
    BY DEF Held
  <2>2. frames[i].at \in Existing \cup {Null}
    BY <2>1 DEF OwnersLive
  <2>3. Null \notin buried \cup Dying
    BY NodeNumbers, KnownNumbers DEF TypeOK, Dying, Doomed, ListTypeOK
  <2>4. frames[i].at \notin Dying
    BY <2>1, DyingUnowned
  <2> QED BY <2>2, <2>3, <2>4 DEF Existing
<1> QED BY <1>1, TypeCorrect, OwnersAreLive, PTL

-----------------------------------------------------------------------------
(* Scoped connections                                                      *)

\* Nothing happens after a fault, and a client keeps to its functions.
LEMMA NextRuns == Next => Running /\ api' = api
<1> SUFFICES ASSUME Next PROVE Running /\ api' = api
  OBVIOUS
<1>1. ASSUME NEW n, NEW held, Running, DisconnectThrough(n, held)
      PROVE  Running /\ api' = api
  BY <1>1 DEF DisconnectThrough, Unhook, threadVars
<1>2. CASE Running /\ \E h \in Scoped : FunctorDrops(h)
  BY <1>1, <1>2 DEF FunctorDrops, threadVars
<1>3. CASE Running /\ \E n \in Node : Bury(n)
  BY <1>3 DEF Bury, threadVars
<1>4. CASE Connect \/ DisconnectSlot \/ DestroySignal \/ Disturb
  BY <1>4 DEF Connect, DisconnectSlot, DestroySignal, Disturb, PushBackUnsafe, PushFrontUnsafe,
     InsertUnsafe, DisconnectUnsafe, Unhook, Expire, Block, Control, threadVars
<1>5. CASE \E l \in BOOLEAN : RemoveSlots(l)
  BY <1>5 DEF RemoveSlots, PopBackUnsafe, PopFrontUnsafe, ClearUnsafe, EraseUnsafe, Control
<1>6. CASE EmissionStep
  BY <1>6 DEF EmissionStep, Emission, EmitUnsafe, Skip, AutoDisconnect, Unhook, Enter, Return,
     EmitReturns, SlotThrows, Walking, Control
<1>7. CASE ScopedStep
  BY <1>1, <1>7 DEF ScopedStep, AssignScoped, CopyScoped, Release, DestroyScoped, UsesScoped,
     Control, threadVars
<1>8. CASE \E h \in Scoped, n \in Link : TakeOver(h, n)
  BY <1>8 DEF TakeOver, threadVars
<1> QED BY <1>2, <1>3, <1>4, <1>5, <1>6, <1>7, <1>8 DEF Next

\* No function brings a slot back that was disconnected.
LEMMA StaysDisconnected ==
  ASSUME TypeOK, Next, NEW n \in Known, Connected(unusable'[n])
  PROVE  Connected(unusable[n])
<1>1. n \in Node /\ n # fresh
  BY KnownNumbers DEF Known, TypeOK, ListTypeOK, NodeTypeOK
<1>2. ASSUME NEW S, Mark(S)
      PROVE  Connected(unusable[n])
  BY <1>1, <1>2 DEF Mark, Connected
<1>3. CASE UNCHANGED unusable
  BY <1>3
<1>4. ASSUME NEW p, NEW held, DisconnectThrough(p, held)
      PROVE  Connected(unusable[n])
  BY <1>2, <1>3, <1>4 DEF DisconnectThrough, Unhook, listVars
<1>5. CASE \E h \in Scoped : FunctorDrops(h)
  BY <1>3, <1>4, <1>5 DEF FunctorDrops
<1>6. CASE \E m \in Node : Bury(m)
  BY <1>3, <1>6 DEF Bury, listVars
<1>7. CASE Connect
  <2>1. \E word : unusable' = [unusable EXCEPT ![fresh] = word]
    BY <1>7 DEF Connect, PushBackUnsafe, PushFrontUnsafe, InsertUnsafe, MakeNode
  <2> QED BY <1>1, <2>1 DEF TypeOK, ListTypeOK, NodeTypeOK
<1>8. CASE DisconnectSlot
  BY <1>2, <1>8 DEF DisconnectSlot, DisconnectUnsafe, Unhook
<1>9. CASE DestroySignal
  BY <1>3, <1>9 DEF DestroySignal
<1>10. CASE Disturb
  <2>1. CASE \E m \in Node : Expire(m)
    BY <1>3, <2>1 DEF Expire, listVars
  <2>2. CASE \E m \in Node, d \in {-1, 1} : Block(m, d)
    <3>1. PICK m \in Node, d \in {-1, 1} : Connected(unusable[m]) /\ unusable' = [unusable EXCEPT ![m] = @ + d]
      BY <2>2 DEF Block
    <3>2. n # m => unusable'[n] = unusable[n]
      BY <1>1, <3>1 DEF TypeOK, ListTypeOK, NodeTypeOK
    <3> QED BY <3>1, <3>2
  <2> QED BY <1>10, <2>1, <2>2 DEF Disturb
<1>11. CASE \E l \in BOOLEAN : RemoveSlots(l)
  BY <1>2, <1>11 DEF RemoveSlots, PopBackUnsafe, PopFrontUnsafe, ClearUnsafe, EraseUnsafe
<1>12. CASE EmissionStep
  BY <1>2, <1>3, <1>12 DEF EmissionStep, Emission, EmitUnsafe, Skip, AutoDisconnect, Unhook, Enter,
     Return, EmitReturns, SlotThrows, listVars
<1>13. CASE ScopedStep
  BY <1>3, <1>4, <1>13 DEF ScopedStep, AssignScoped, CopyScoped, Release, DestroyScoped, listVars
<1>14. CASE \E h \in Scoped, m \in Link : TakeOver(h, m)
  BY <1>3, <1>14 DEF TakeOver, listVars
<1> QED BY <1>5, <1>6, <1>7, <1>8, <1>9, <1>10, <1>11, <1>12, <1>13, <1>14 DEF Next

\* As AliveWithin, of the nodes that can be locked after a step.
LEMMA AliveYetWithin ==
  ASSUME NEW S \in SUBSET Node, Closed(S)', HeldYet' \subseteq S \cup {Null},
         {head', tail', groupHead'} \subseteq S \cup {Null},
         \A n \in Node : next'[n] = n => n \in S
  PROVE  Alive(HeldYet)' \subseteq S
<1>1. \A n \in Alive(HeldYet)' : n \in S
  BY DEF Alive, Reach
<1> QED BY <1>1

\* While nodes die, what cannot be locked any more never can be again: they
\* disconnect others, and relink what can be locked.
LEMMA DropKeepsAlive ==
  ASSUME TypeOK, OwnersLive, NEW n, DisconnectThrough(n, HeldYet), UNCHANGED buried
  PROVE  Alive(HeldYet)' \subseteq Alive(HeldYet)
<1> USE NodeNumbers
<1>1. PICK A : A = Alive(HeldYet)
  OBVIOUS
<1>2. A \in SUBSET Node /\ Closed(A)
  BY <1>1, ReachClosed DEF TypeOK, ListTypeOK, LinkTypeOK, Alive
<1>3. /\ HeldYet \subseteq A \cup {Null} /\ {head, tail, groupHead} \subseteq A \cup {Null}
      /\ \A m \in Node : next[m] = m => m \in A
  <2>1. HeldYet \subseteq Link
    BY HeldYetExists, KnownNumbers DEF OwnersLive, Existing, TypeOK, ListTypeOK, Link
  <2> QED BY <1>1, <2>1, ReachRoots DEF Alive, TypeOK, ListTypeOK, LinkTypeOK
<1>4. Alive(Held) \subseteq A
  BY <1>2, <1>3, AliveWithin DEF HeldYet
<1>5. Within(A) /\ UNCHANGED fresh /\ Held' = Held
  <2>1. CASE n \in A /\ Unhook(n, HeldYet)
    <3>1. Alive(HeldYet \cup {n}) \subseteq A
      <4>1. HeldYet \cup {n} \subseteq A \cup {Null}
        BY <1>3, <2>1
      <4> QED BY <1>2, <1>3, <4>1, AliveWithin
    <3>2. UNCHANGED fresh /\ Held' = Held
      BY <1>2, <2>1, UnhookTyped DEF Unhook, nodeVars, TypeOK, UnsafeTypeOK
    <3> QED BY <1>2, <1>3, <2>1, <3>1, <3>2, UnlinkNodeWithin DEF Unhook, TypeOK
  <2>2. CASE UNCHANGED <<linkVars, nodeVars, threadVars>>
    BY <1>3, <2>2 DEF Within, linkVars, nodeVars, threadVars, Held, Depth
  <2> QED BY <1>1, <2>1, <2>2 DEF DisconnectThrough, listVars
<1>6. Closed(A)' /\ \A m \in Node : next'[m] = m => m \in A
  BY <1>2, <1>3, <1>5 DEF Within, Closed
<1>7. \A m \in Doomed' : m \in Node /\ next'[m] \in A \cup {Null}
  <2> SUFFICES ASSUME NEW m \in Doomed' PROVE m \in Node /\ next'[m] \in A \cup {Null}
    OBVIOUS
  <2>1. m \in Existing /\ m \in Node
    BY <1>5, KnownNumbers DEF Doomed, Existing, Known, TypeOK, ListTypeOK
  <2>2. CASE m \in Doomed
    BY <1>3, <1>5, <2>1, <2>2 DEF HeldYet, Within
  <2>3. CASE m \in A
    BY <1>2, <1>5, <2>1, <2>3 DEF Closed, Within
  <2> QED BY <1>4, <2>1, <2>2, <2>3 DEF Doomed, Existing
<1>8. HeldYet' \subseteq A \cup {Null}
  BY <1>3, <1>5, <1>7 DEF HeldYet
<1>9. Alive(HeldYet)' \subseteq A
  BY <1>2, <1>5, <1>6, <1>8, AliveYetWithin DEF Within
<1> QED BY <1>1, <1>9

\* Without copies of scoped_connections, and as long as no functor locks the
\* mutex it dies under.
ScopedKept == fault # "self_lock" /\ "copy_scoped" \notin api => ScopedSlotsEnd

\* What becomes of the slot that a handle lets go: it is gone, disconnected,
\* or was never reached.
LEMMA LetGo ==
  ASSUME TypeOK, NEW n \in Node, NEW held, DisconnectThrough(n, held), live' = live
  PROVE  \/ n \notin Alive(held) /\ UNCHANGED <<listVars, threadVars>>
         \/ ~Connected(unusable'[n])
         \/ ~live'
         \/ fault' = "self_lock"
<1>1. CASE Unhook(n, held)
  BY <1>1 DEF Unhook, Mark, Connected, TypeOK
<1>2. CASE ~Connected(unusable[n]) /\ UNCHANGED <<listVars, threadVars>>
  BY <1>2 DEF listVars
<1> QED BY <1>1, <1>2 DEF DisconnectThrough

\* Every step keeps what a scoped connection owes its slot.
LEMMA NextScoped == TypeOK /\ OwnersLive /\ ScopedKept /\ [Next]_vars => ScopedKept'
<1> SUFFICES ASSUME TypeOK, OwnersLive, ScopedKept, [Next]_vars,
                    fault' # "self_lock", "copy_scoped" \notin api',
                    NEW n \in guarded', live', Connected(unusable'[n]), n \in Alive(HeldYet)'
             PROVE  \E h \in Scoped : holds'[h] = n
  BY DEF ScopedKept, ScopedSlotsEnd
<1> USE NodeNumbers
<1>1. CASE UNCHANGED vars
  <2>1. HeldYet' = HeldYet /\ Alive(HeldYet)' = Alive(HeldYet)
    BY <1>1 DEF vars, listVars, linkVars, nodeVars, threadVars, HeldYet, Doomed, Held, Depth, Known,
       Alive, Reach, Closed
  <2> QED BY <1>1, <2>1 DEF vars, listVars, threadVars, handleVars, ScopedKept, ScopedSlotsEnd
<1>2. CASE Next
  <2>1. fault = "none" /\ "copy_scoped" \notin api
    BY <1>2, NextRuns DEF Running
  <2>2. ASSUME n \in guarded, live, n \in Alive(HeldYet)
        PROVE  \E k \in Scoped : holds[k] = n
    <3>1. n \in Known
      BY <2>2 DEF OwnersLive, Existing
    <3> QED BY <1>2, <2>1, <2>2, <3>1, StaysDisconnected DEF ScopedKept, ScopedSlotsEnd
  <2>3. ASSUME Settled, n \in guarded
        PROVE  n \in Alive(Held) /\ n \in Alive(HeldYet)
    <3>1. n \in Alive(Held) /\ HeldYet = Held
      BY <2>3 DEF OwnersLive, Existing, Settled, Doomed, HeldYet
    <3> QED BY <3>1
  <2>4. ASSUME NEW h \in Scoped, NEW held, n = holds[h], n \in Alive(held),
               DisconnectThrough(holds[h], held), live' = live
        PROVE  FALSE
    BY <2>4, AliveNode, LetGo
  <2>5. ASSUME NEW h \in Scoped, FunctorDrops(h)
        PROVE  \E k \in Scoped : holds'[k] = n
    <3>1. n \in guarded /\ live /\ live' = live /\ n \in Alive(HeldYet)
      <4>1. CASE UNCHANGED <<linkVars, nodeVars, threadVars, buried>>
        <5>1. Alive(HeldYet)' = Alive(HeldYet)
          BY <4>1 DEF linkVars, nodeVars, threadVars, HeldYet, Doomed, Held, Depth, Known,
             Alive, Reach, Closed
        <5> QED BY <2>5, <5>1 DEF FunctorDrops
      <4> QED BY <2>5, <4>1, DropKeepsAlive DEF FunctorDrops
    <3>2. PICK k \in Scoped : holds[k] = n
      BY <2>2, <3>1
    <3>3. k # h
      <4>1. CASE \E m \in Link : <<h, m>> \in assigning
        <5>1. holds[h] = Null
          BY <4>1 DEF OwnersLive, AssignmentSound
        <5>2. n # Null
          BY <3>1 DEF TypeOK
        <5> QED BY <3>2, <5>1, <5>2
      <4> QED BY <2>4, <2>5, <3>1, <3>2, <4>1 DEF FunctorDrops
    <3> QED BY <2>5, <3>2, <3>3 DEF FunctorDrops, TypeOK
  <2>6. ASSUME NEW m \in Node, Bury(m)
        PROVE  \E k \in Scoped : holds'[k] = n
    <3>1. n \in guarded /\ n # m /\ live
      BY <2>6 DEF Bury
    <3>2. UNCHANGED <<linkVars, fresh, frames>> /\ buried' = buried \cup {m}
      BY <2>6 DEF Bury, listVars, nodeVars, threadVars
    <3>3. HeldYet' \subseteq HeldYet
      BY <3>2 DEF linkVars, HeldYet, Doomed, Held, Depth, Known, Alive, Reach, Closed
    <3>4. n \in Alive(HeldYet)
      BY <3>2, <3>3 DEF linkVars, Alive, Reach, Closed
    <3>5. PICK k \in Scoped : holds[k] = n
      BY <2>2, <3>1, <3>4
    <3> QED BY <2>6, <3>1, <3>5 DEF Bury, TypeOK
  <2>7. CASE Settled /\ (Connect \/ DisconnectSlot \/ Disturb \/ EmissionStep
                            \/ \E l \in BOOLEAN : RemoveSlots(l))
    <3>1. UNCHANGED <<holds, guarded, live>>
      BY <2>7 DEF Connect, DisconnectSlot, Disturb, EmissionStep, RemoveSlots, handleVars
    <3> QED BY <2>2, <2>3, <2>7, <3>1
  <2>8. CASE DestroySignal
    BY <2>8 DEF DestroySignal
  <2>9. ASSUME NEW h \in Scoped, NEW m \in Link, Settled, TakeOver(h, m)
        PROVE  \E k \in Scoped : holds'[k] = n
    <3>1. CASE n = m
      BY <2>9, <3>1 DEF TakeOver, TypeOK
    <3>2. CASE n # m
      <4>1. n \in guarded /\ live /\ n # Null
        BY <2>9, <3>2 DEF TakeOver, TypeOK
      <4>2. PICK k \in Scoped : holds[k] = n
        BY <2>2, <2>3, <2>9, <4>1
      <4>3. holds[h] = Null
        BY <2>9 DEF TakeOver, OwnersLive, AssignmentSound
      <4> QED BY <2>9, <4>1, <4>2, <4>3 DEF TakeOver, TypeOK
    <3> QED BY <3>1, <3>2
  <2>10. ASSUME Settled, NEW h \in Scoped,
                DestroyScoped(h) \/ \E m \in Link : AssignScoped(h, m)
         PROVE  \E k \in Scoped : holds'[k] = n
    <3>0. /\ DisconnectThrough(holds[h], Held) /\ UNCHANGED <<live, guarded>>
          /\ holds' = [holds EXCEPT ![h] = Null]
      BY <2>10 DEF DestroyScoped, AssignScoped
    <3>1. n \in guarded /\ live /\ live' = live
      BY <3>0
    <3>2. PICK k \in Scoped : holds[k] = n
      BY <2>2, <2>3, <2>10, <3>1
    <3>3. k # h
      BY <2>3, <2>4, <2>10, <3>0, <3>1, <3>2
    <3> QED BY <3>0, <3>2, <3>3 DEF TypeOK
  <2>11. ASSUME Settled, NEW h \in Scoped, Release(h) \/ \E k \in Scoped \ {h} : CopyScoped(h, k)
         PROVE  \E k \in Scoped : holds'[k] = n
    <3>1. n \in guarded /\ live
      BY <2>11 DEF Release, CopyScoped
    <3>2. PICK k \in Scoped : holds[k] = n
      BY <2>2, <2>3, <2>11, <3>1
    <3>3. \E j \in Scoped : holds[j] = n /\ holds'[j] = holds[j]
      <4>1. CASE Release(h)
        <5>1. \E j \in Scoped \ {h} : holds[j] = n
          BY <3>2, <4>1 DEF Release
        <5> QED BY <4>1, <5>1 DEF Release, TypeOK
      <4>2. CASE \E j \in Scoped \ {h} : CopyScoped(h, j)
        <5>1. holds[h] = Null
          BY <2>1, <4>2 DEF CopyScoped
        <5>2. n # Null
          BY <3>1 DEF TypeOK
        <5> QED BY <3>2, <4>2, <5>1, <5>2 DEF CopyScoped, TypeOK
      <4> QED BY <2>11, <4>1, <4>2
    <3> QED BY <3>3
  <2> QED BY <1>2, <2>5, <2>6, <2>7, <2>8, <2>9, <2>10, <2>11 DEF Next, ScopedStep
<1> QED BY <1>1, <1>2

\* In every behaviour: a slot entrusted to a scoped_connection ends with it
\* (connection.hpp:186-219).
THEOREM ScopedEnd ==
  Spec => [](fault # "self_lock" /\ "copy_scoped" \notin api => ScopedSlotsEnd)
<1>1. Init => ScopedKept
  BY DEF Init, ScopedKept, ScopedSlotsEnd
<1>2. ScopedKept <=> (fault # "self_lock" /\ "copy_scoped" \notin api => ScopedSlotsEnd)
  BY DEF ScopedKept
<1> QED BY <1>1, <1>2, NextScoped, TypeCorrect, OwnersAreLive, PTL DEF Spec
=============================================================================
