-------------------------- MODULE MCFilterCompiler --------------------------
(***************************************************************************)
(* Bounds for model-checking FilterCompiler.  Threads and keys are         *)
(* interchangeable, so the runs that check invariants only use symmetry.   *)
(***************************************************************************)
EXTENDS FilterCompiler, TLC

Symmetry == Permutations(Threads) \cup Permutations(Keys)
=============================================================================
