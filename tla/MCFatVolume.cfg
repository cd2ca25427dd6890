CONSTANTS
  f1 = f1
  f2 = f2
  Files = {f1, f2}
  NoFile = NoFile
  NClust = 3
  FatSec <- TwoSectors
  MaxSize = 2
  Bounds <- Smooth
SPECIFICATION Spec
SYMMETRY Symmetry
INVARIANTS TypeOK CrashSound NothingLost CursorOnChain FullMeansFull
