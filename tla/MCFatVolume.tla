---------------------------- MODULE MCFatVolume ----------------------------
(* FatVolume with a FAT of two sectors, the first one with a single entry.  *)
EXTENDS FatVolume, TLC

CONSTANTS f1, f2

TwoSectors == [c \in 2 .. NClust + 1 |-> IF c = 2 THEN "fat1" ELSE "fat2"]

\* What a behaviour may meet: no trouble; a failed transfer and a power loss; one
\* failed transfer; f_getfree among the calls.
NoTrouble == [faults |-> 0, crashes |-> 0, counting |-> FALSE]
FaultAndCrash == [faults |-> 1, crashes |-> 1, counting |-> FALSE]
OneFault == [faults |-> 1, crashes |-> 0, counting |-> FALSE]
CountingOnly == [faults |-> 0, crashes |-> 0, counting |-> TRUE]
Smooth == {NoTrouble}
Troubled == {FaultAndCrash, CountingOnly}
Faulty == {OneFault}

Symmetry == Permutations({f1, f2})
=============================================================================
