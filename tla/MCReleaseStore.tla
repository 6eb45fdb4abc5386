--------------------------- MODULE MCReleaseStore ---------------------------
(***************************************************************************)
(* Bounds for model-checking ReleaseStore: three releases, so that the     *)
(* catalog can move on twice and delete what a process is pinned to.  The  *)
(* last two are of one day, with counters of one and two digits.           *)
(***************************************************************************)
EXTENDS ReleaseStore, TLC

MCDay == <<1, 2, 2>>
MCCount == <<0, 9, 10>>

ASSUME RoomToMoveOn == MaxRelease >= 3
=============================================================================
