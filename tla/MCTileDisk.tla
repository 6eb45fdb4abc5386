----------------------------- MODULE MCTileDisk -----------------------------
(***************************************************************************)
(* Bounds for model-checking TileDisk.  Every process can hold one inode   *)
(* open and two more have names, so that inodes never run out.  There are  *)
(* two tiles, one longer than the other.                                   *)
(***************************************************************************)
EXTENDS TileDisk, FiniteSets, TLC

CONSTANTS short, long

MCLength == short :> 1 @@ long :> 2

ASSUME EnoughInodes == Cardinality(Inodes) >= Cardinality(Procs) + 2
=============================================================================
