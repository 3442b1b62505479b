--------------------------- MODULE MCConnections ----------------------------
(***************************************************************************)
(* Constants of Connections for TLC.                                       *)
(***************************************************************************)
EXTENDS ConnectionQueue, TLC

MCDisconnected == -9

\* One scoped_connection is as good as another.
Symmetry == Permutations(Scoped)

ZeroedWords == {0}

TwoGroups == {1, 2}

NoGroups == {}

\* Clients that call back, with either variant of the functions.
ReentrantClients ==
  {{"unsafe", "push_back", "pop_front", "disconnect", "clear"},
   {"unsafe", "push_back", "disconnect", "expire"},
   {"safe", "push_back", "pop_back", "clear", "block", "throw"},
   {"unsafe", "push_front", "push_back", "pop_front", "clear"},
   {"unsafe", "push_back", "insert", "clear"},
   {"unsafe", "insert", "erase"}}

\* Clients with scoped connections: owned by functors as long as nothing is
\* dropped under the mutex, outliving the signal as long as no functor owns
\* them.
HandleClients ==
  {{"unsafe", "push_back", "pop_front", "disconnect", "clear", "scoped", "own"},
   {"safe", "push_back", "pop_front", "scoped", "destroy_signal"}}

WholeClients == ReentrantClients \cup HandleClients

FunctorClient == {{"safe", "push_back", "pop_front", "scoped", "own"}}
=============================================================================
