----------------------------- MODULE MCFileLock -----------------------------
(* FileLock on a small instance: three handles, two slots, two entries.    *)
EXTENDS FileLock, TLC

\* Handles and names are interchangeable.
Symmetry == Permutations(Handles) \cup Permutations(Names)
=============================================================================
