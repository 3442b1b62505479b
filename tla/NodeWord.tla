------------------------------ MODULE NodeWord ------------------------------
(***************************************************************************)
(* The meaning of the one integer, _unusable, in which node_base keeps     *)
(* both how often a slot is blocked and whether it is disconnected.        *)
(***************************************************************************)
EXTENDS Integers

CONSTANT Disconnected   \* the sentinel _disconnected (-0xFFFF in the code)

ASSUME DisconnectedAssumption == Disconnected \in Int /\ Disconnected < 0

\* connected(): anything but the sentinel.
Connected(word) == word # Disconnected

\* blocked(): more block() than unblock() calls.
Blocked(word) == word > 0

\* Mutant of Usable: the sentinel is negative, so it passes for a count.
UsableByCount(word) == ~Blocked(word)

\* usable(): what an emission asks before it calls the slot.
Usable(word) == Connected(word) /\ ~Blocked(word)
=============================================================================
