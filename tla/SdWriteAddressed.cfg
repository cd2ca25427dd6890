CONSTANTS
  c1 = c1
  c2 = c2
  Cards = {c1}
  Kind <- KindOne
  NoCard = NoCard
  Sectors = {1}
  MaxCount = 1
  Word = 1024
  CardDetect = TRUE
  WpDetect = FALSE
SPECIFICATION Spec
INVARIANT WriteAddressed
