CONSTANTS
  Paths <- SmallPaths
  Listed = {}
  Labels = {"l"}
  RootSects = 2
  NClust = 3
  Csize = 1
  SpS = 2
  MaxObjs = 2
  MaxStops = 1
SPECIFICATION Spec
INVARIANTS
  TypeOK
  TablesSound
  TreeSound
  Answers
PROPERTY KeepsPromise
