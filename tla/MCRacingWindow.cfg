SPECIFICATION RSpec
CONSTANTS
  MSS = 2
  AppBuffer = 3
  SeqMod = 16
  RecWin = 2
  QuickSkip = 2
  MaxWritten = 3
  SendFails = TRUE
  Goroutines = {0, 1, 2}
  DefCong = 1
  MinCong = 1
  MaxCong = 2
  MaxRaces = 1
INVARIANT RTypeOK
INVARIANT NoStrandedData
INVARIANT HeadUnacked
INVARIANT ShutByRaces
PROPERTY Repairs
PROPERTY AnyWindow
CONSTRAINT RacedOrClosed
CHECK_DEADLOCK FALSE
