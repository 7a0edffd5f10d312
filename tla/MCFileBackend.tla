--------------------------- MODULE MCFileBackend ---------------------------
(* TLC instance of FileBackend. *)
EXTENDS FileBackend, TLC

Symmetry == Permutations(Tasks)

=============================================================================
