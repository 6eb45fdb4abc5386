--------------------------- MODULE MCTileContent ---------------------------
(***************************************************************************)
(* Bounds for model-checking TileContent and, with it, Startup.  The tile  *)
(* is a box of a grid of 4 x 4; one row lies across its western edge, one  *)
(* north of it, and one within it has lost its geometry.  Every way of     *)
(* putting the rows into two files is checked.                             *)
(***************************************************************************)
EXTENDS TileContent

CONSTANTS across, north, blank

MCTile == <<1, 1, 2, 2>>

MCBox ==
  across :> <<0, 2, 1, 2>> @@ north :> <<1, 3, 2, 3>> @@ blank :> <<1, 1, 1, 1>>

MCEntries == {"divisions", Unknown, Malformed}

MCClauses == {{across, north}}

MCLacking == {"pop_rank"}
=============================================================================
