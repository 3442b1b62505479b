------------------------------ MODULE MCSignal ------------------------------
(***************************************************************************)
(* Constants of Signal for TLC.                                            *)
(***************************************************************************)
EXTENDS SignalRefinement, SignalForward, SignalOrder, TLC

MCDisconnected == -9

\* A build that zeroes _unusable.
ZeroedWords == {0}

TwoGroups == {1, 2}

NoGroups == {}

Back == {"push_back", "pop_front", "disconnect", "clear"}

Front == {"push_front", "push_back", "pop_front", "clear"}

Group == {"push_back", "insert", "clear"}

\* Clients whose list stays whole.
WholeClients == {Back, Front, Group}

\* Clients whose slots expire, are blocked or throw, and two that connect
\* elsewhere than at the back.
SharingClients == {{"push_back", "pop_front", "disconnect", "expire"},
                   {"push_back", "block", "throw"},
                   {"push_front", "push_back", "pop_front"},
                   {"insert", "clear"}}

Linking == Operations \ {"extended", "block", "expire", "throw"}

\* Clients that use every operation that links or unlinks, and every one but
\* erase(), and two that do to their slots whatever else can happen to them.
AllClients == {Linking, Linking \ {"erase"},
               {"push_back", "extended", "disconnect", "expire"},
               {"push_back", "disconnect", "block", "throw"}}

\* The calls that take the mutex for several steps, with and without slots
\* that expire.
LiveClients == {Back, Back \cup {"expire"}}

\* Each of these clients breaks a promise.
BackPopBackClient == {{"push_back", "pop_front", "pop_back"}}

InsertDisconnectClient == {{"insert", "disconnect"}}

EraseClient == {{"insert", "erase"}}

ExtendedClient == {{"push_back", "extended"}}

Symmetry == Permutations(Writers) \cup Permutations(Emitters)
=============================================================================
