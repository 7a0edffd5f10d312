--------------------------- MODULE MCEnvironHook ---------------------------
(* TLC instance of EnvironHook. *)
EXTENDS EnvironHook, TLC

Symmetry == Permutations(Threads)

=============================================================================
