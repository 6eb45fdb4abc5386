--------------------------- MODULE MCQueryEngine ---------------------------
(***************************************************************************)
(* Bounds for model-checking QueryEngine.  One cursor name more than       *)
(* threads leaves room for a callback that outlives its query.  A thread   *)
(* is told from another by the semaphores it made, and liveness is         *)
(* checked, so there is no symmetry.                                       *)
(***************************************************************************)
EXTENDS QueryEngine, TLC

ASSUME RoomForCallbacks == Cardinality(Cursors) > Cardinality(Threads)
=============================================================================
