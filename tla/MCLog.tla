------------------------------- MODULE MCLog -------------------------------
(* Log for TLC: safety, refinement and power failures. *)
EXTENDS Log, TLC

Symmetry ==
    Permutations(Procs \ {InitProc}) \cup Permutations(Blocks)
=============================================================================
