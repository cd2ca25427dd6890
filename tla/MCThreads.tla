------------------------------ MODULE MCThreads -------------------------------
(* Two threads and two drivers for Threads.                                 *)
EXTENDS Threads, TLC

\* Threads are alike, and so are drivers.
Alike == Permutations(Thread) \cup Permutations(Driver)

=============================================================================
