CONSTANTS
  f1 = f1
  f2 = f2
  Files = {f1, f2}
  NoFile = NoFile
  NClust = 2
  FatSec <- TwoSectors
  MaxSize = 2
  Bounds <- Faulty
SPECIFICATION Spec
SYMMETRY Symmetry
INVARIANT SyncOkIsOnCard
