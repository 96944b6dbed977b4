--------------------------- MODULE MCReplayEngine ---------------------------
(* ReplayEngine for TLC: more submissions than replay slots and one-element *)
(* channels, so that workers queue for the slot and block on updates.       *)
EXTENDS ReplayEngine
=============================================================================
