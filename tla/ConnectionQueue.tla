--------------------------- MODULE ConnectionQueue ---------------------------
(***************************************************************************)
(* A thread that calls back into a signal whose slots it connects at the   *)
(* back only: its nodes are listed by number, whatever emissions and       *)
(* scoped connections do meanwhile.                                        *)
(***************************************************************************)
EXTENDS ConnectionProperties, SlotChain

QueueOperations == {"safe", "unsafe", "push_back", "pop_front", "pop_back", "disconnect",
                    "clear", "block", "expire", "throw", "scoped", "copy_scoped", "own",
                    "destroy_signal"}

\* Besides, pop_back() is not combined with what leaves a stale prev in the
\* node that becomes head (signal.hpp:389), and functors own no scoped
\* connection where they could die under the mutex or with the signal.
QueueClient ==
  /\ api \subseteq QueueOperations
  /\ "pop_back" \in api =>
       api \cap {"pop_front", "disconnect", "expire", "scoped", "own"} = {}
  /\ "own" \in api =>
       /\ "destroy_signal" \notin api
       /\ "safe" \in api => api \cap {"pop_front", "pop_back", "clear"} = {}

\* What a build has to grant: words that start as counts, and counts that
\* stay away from the sentinel.
PlainWords ==
  /\ \A word \in InitialWords : Connected(word)
  /\ Disconnected \notin (-MaxBlock)..MaxBlock

-----------------------------------------------------------------------------
\* L is the list: the connected slots of a signal that exists.
Current == {n \in Known : live /\ Connected(unusable[n])}

Listing(L) ==
  /\ L = Current
  /\ Chain(L) /\ NextPasses(L)
  /\ \A n \in Node : kind[n] = IF n \in Known THEN "back" ELSE "none"
  /\ fault = "none" /\ groupHead = Null /\ extended = {}

\* Where the last slot is popped, the first has no prev, so that it is known
\* for the only one (signal.hpp:351).
HeadHasNoPrev ==
  "pop_back" \in api =>
    /\ head # Null => prev[head] = Null
    /\ \A n \in Node \ Known : prev[n] = Null
    /\ owned = Node

\* No handle is in the way of nodes that die.
HandlesApart ==
  /\ locked => ~Settled
  /\ "own" \in api => live /\ ~locked
  /\ "own" \notin api => \A h \in Scoped : home[h] = Null
  /\ ~live => frames = <<>>

\* An emission stands behind what it has called, and before or on what it
\* owes, which can be called.
InTurn(f) ==
  /\ f.seen \cup f.owed \cup f.barred \subseteq Known
  /\ \A n \in f.owed : Callable(n)
  /\ \A n \in f.barred : ~Connected(unusable[n])
  /\ f.step = "walk" => (\A n \in f.seen : n < f.at) /\ (\A n \in f.owed : f.at <= n)
  /\ f.step = "call" => (\A n \in f.seen : n <= f.at) /\ (\A n \in f.owed : f.at < n)
  /\ f.step = "done" => f.owed = {}

\* Where its way ends off the list, nothing that it owes lies behind: the
\* node was the tail after the emission had begun.
WayEnds(f) ==
  \A n \in Reach({f.at}) \ Current : next[n] = Null => \A m \in f.owed : m <= n

EmissionsInTurn == \A i \in 1..Depth : InTurn(frames[i]) /\ WayEnds(frames[i])

\* The inductive invariant of such a client, with TypeOK and OwnersLive.
QueueInvariant ==
  QueueClient => /\ \E L \in SUBSET Node : Listing(L)
                 /\ HeadHasNoPrev /\ HandlesApart /\ EmissionsInTurn
=============================================================================
