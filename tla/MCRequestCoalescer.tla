------------------------- MODULE MCRequestCoalescer -------------------------
(***************************************************************************)
(* Bounds for model-checking RequestCoalescer.  Threads and keys are       *)
(* interchangeable, so the runs that check invariants only use symmetry.   *)
(***************************************************************************)
EXTENDS RequestCoalescer, TLC

Symmetry == Permutations(Threads) \cup Permutations(Keys)
=============================================================================
