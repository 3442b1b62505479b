----------------------------- MODULE MCNodeBase -----------------------------
(***************************************************************************)
(* Constants of NodeBase for TLC.  The sentinel -0xFFFF is scaled down.    *)
(***************************************************************************)
EXTENDS NodeBase

\* Out of reach of MaxCalls unblock() calls, as -0xFFFF is in practice.
FarSentinel == -6

\* A node whose word was zeroed.
ZeroedWords == {0}
=============================================================================
