------------------------------ MODULE MCFileIO ------------------------------
(* A small volume for FileIO: clusters are alike.                          *)
EXTENDS FileIO, TLC

Symmetry == Permutations(Clus)

=============================================================================
