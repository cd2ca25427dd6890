SPECIFICATION AlgSpec
CONSTANTS
  Drives <- Sizes
  Options <- Opts
  Blocks = {0, 8, 256, 8192, 32768, 65536}
  Units = {0, 100, 512, 4096, 65536, 131072}
  Body = 2
  Ext = 1
  PutBuf = 6
  WordBits = 4
  Wrap = 32
  Pause = 3
  Paths <- PathsOf
  Patterns <- PatternsOf
  Shown <- NamesOf
  Rooms = {0, 2, 3, 5}
  Files <- Texts
  Buffers <- BuffersOf
INVARIANTS BlankUntilDone MountsAsFormatted ShownReopens MatchesGlob PrintsAllOrEof LinesDelivered ExpiresInTime
CHECK_DEADLOCK FALSE
