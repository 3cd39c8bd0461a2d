\* readme.md:3: reliable, also when a flush sends beyond the receive window.
SPECIFICATION TSpec
CONSTANTS
  SeqMod = 4
  RecWin = 2
  MSS = 1
  AppBuffer = 2
  QuickSkip = 2
  MaxWritten = 6
  SendFails = FALSE
  ReadBuffer = 1
  Lifetime = 2
INVARIANT NoLossByFlush
CHECK_DEADLOCK FALSE
