CONSTANTS
  Paths <- DeepPaths
  Listed <- SubListed
  Labels = {}
  RootSects = 1
  NClust = 2
  Csize = 1
  SpS = 2
  MaxObjs = 3
  MaxStops = 1
SPECIFICATION Spec
INVARIANT ListedOnce
