----------------------------- MODULE MCTracking -----------------------------
(***************************************************************************)
(* Constants of SlotTracking for TLC.                                      *)
(***************************************************************************)
EXTENDS TrackingProperties

CONSTANTS x, y

\* Slots that lock the same objects in opposite orders, and one between.
CrossedTracks == <<<<x, y>>, <<y>>, <<y, x>>>>
=============================================================================
