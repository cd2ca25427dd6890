---------------------------- MODULE MCAlgorithms -----------------------------
(* Inputs for Algorithms; sizes of drives round the limits of f_mkfs.       *)
EXTENDS Algorithms

Sizes ==
  {0, 63, 190, 191, 256, 4213, 4214, 8000, 16384, 65599, 66600, 67000, 131135, 140000, 262207,
   1048576, 2200000, 4200000, 4300000, 8400000, 40000000, 500000000}
Opts ==
  {{}, {"FAT"}, {"FAT32"}, {"FAT", "FAT32"}, {"FAT", "SFD"}, {"FAT32", "SFD"}, {"FAT", "FAT32", "SFD"}}

Words(S, n) == UNION {[1 .. k -> S] : k \in 0 .. n}
PathsOf == Words({"a", "A", "0", ".", "/", " ", ":", "x80"}, 5)
PatternsOf == Words({"A", "B", "?", "*"}, 5)
NamesOf == Words({"A", "B"}, 5)
Texts == UNION {[1 .. k -> {"x", NL, CR}] : k \in 1 .. 4}
BuffersOf == UNION {[1 .. k -> {"x", NL, NUL}] : k \in 1 .. 3}

=============================================================================
