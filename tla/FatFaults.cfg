CONSTANTS
  f1 = f1
  f2 = f2
  Files = {f1, f2}
  NoFile = NoFile
  NClust = 2
  FatSec <- TwoSectors
  MaxSize = 2
  Bounds <- Troubled
SPECIFICATION Spec
SYMMETRY Symmetry
INVARIANTS ChainsSound SyncedSurvives FreeNotUnderstated
