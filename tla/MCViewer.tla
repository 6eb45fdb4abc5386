------------------------------ MODULE MCViewer ------------------------------
(***************************************************************************)
(* Bounds for model-checking Viewer.  The page is opened with a dataset of *)
(* the seed list, one that only the server has and whose layer has another *)
(* name, and one that does not exist.                                      *)
(***************************************************************************)
EXTENDS Viewer

MCFromUrl == {"buildings", "population", "rivers"}

ASSUME OneIsUnknown == MCFromUrl \ Ids # {}
=============================================================================
