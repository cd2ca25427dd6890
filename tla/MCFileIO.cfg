CONSTANTS
  Clus = {c1, c2}
  Csize = 2
  SS = 2
  ReadLengths = {8}
  WriteLengths = {5}
  Takes = {0, 2}
  Offsets = {0, 5}
  MaxWrites = 2
  MaxFaults = 1
  None = None
  Other = Other
  EOC = EOC
SPECIFICATION Spec
SYMMETRY Symmetry
INVARIANTS
  TypeOK
  DurableStays
  ReadsBack
  DeliversWritten
  OthersUntouched
