---------------------------- MODULE MC_MapManager ----------------------------
(* Instances of MapManager for TLC. *)
EXTENDS MapManager

MCKey == 0..(BlockCount - 1)
==============================================================================
