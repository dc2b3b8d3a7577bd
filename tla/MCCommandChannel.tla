--------------------------- MODULE MCCommandChannel ---------------------------
(* CommandChannel with interchangeable processes.                          *)
EXTENDS CommandChannel, TLC

Symmetry == Permutations(Procs)
=============================================================================
