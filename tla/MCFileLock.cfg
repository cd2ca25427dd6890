CONSTANTS
  Handles = {h1, h2, h3}
  Names = {a, b}
  Offs = {0, 1}
  Clusters = {5}
  NLock = 2
  WriteMark = 256
  MaxMounts = 2
SPECIFICATION Spec
SYMMETRY Symmetry
INVARIANTS WriterExclusive TableAgrees OpenFileKeepsEntry
PROPERTY SharingRefinement
