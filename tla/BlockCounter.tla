---------------------------- MODULE BlockCounter ----------------------------
(***************************************************************************)
(* What node_base promises its callers: block, unblock and disconnect each *)
(* take effect at one instant, and nothing happens to the word after the   *)
(* disconnect.  Signal relies on exactly this.                             *)
(***************************************************************************)
EXTENDS NodeWord

CONSTANT InitialWords   \* what the word may hold when the node is built

VARIABLE word

Init == word \in InitialWords

Block == Connected(word) /\ word' = word + 1

Unblock == Connected(word) /\ word' = word - 1

Disconnect == word' = Disconnected

Next == Block \/ Unblock \/ Disconnect

Spec == Init /\ [][Next]_word
=============================================================================
