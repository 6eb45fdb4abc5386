---------------------------- MODULE MCTileServer ----------------------------
(***************************************************************************)
(* Bounds for model-checking TileServer.  More clients than workers, so    *)
(* that jobs queue up behind followers; clients are interchangeable.       *)
(***************************************************************************)
EXTENDS TileServer, TLC

Symmetry == Permutations(Clients)
=============================================================================
