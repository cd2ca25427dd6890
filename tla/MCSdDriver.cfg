CONSTANTS
  c1 = c1
  c2 = c2
  Cards = {c1, c2}
  Kind <- KindPair
  NoCard = NoCard
  Sectors = {1}
  MaxCount = 2
  Word = 1024
  CardDetect = TRUE
  WpDetect = TRUE
SPECIFICATION FairSpec
INVARIANTS TypeOK LockBalanced OwnSettings BusyNoticed WriteOkMeansWritten ProtectedUntouched
PROPERTY CallsReturn
