------------------------------- MODULE MCProc -------------------------------
(* The process table for TLC. *)
EXTENDS Proc, TLC

Symmetry == Permutations(CPUs)
=============================================================================
