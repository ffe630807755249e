------------------------------- MODULE MCPipe -------------------------------
(* The pipe for TLC. *)
EXTENDS Pipe, TLC

Symmetry == Permutations(Procs \ {Creator}) \cup Permutations(Byte)
=============================================================================
