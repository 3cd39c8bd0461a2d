\* swnd.go:317: the rest in appBuffer is flushed; not once races left no window.
SPECIFICATION RSpec
CONSTANTS
  MSS = 2
  AppBuffer = 5
  SeqMod = 16
  RecWin = 3
  QuickSkip = 2
  MaxWritten = 5
  SendFails = FALSE
  Goroutines = {0, 1, 2, 3, 4}
  DefCong = 2
  MinCong = 2
  MaxCong = 4
  MaxRaces = 2
CONSTRAINT Unhurried
INVARIANT RestIsFlushed
CHECK_DEADLOCK FALSE
