SPECIFICATION TSpec
CONSTANTS
  SeqMod = 4
  RecWin = 2
  MSS = 1
  AppBuffer = 2
  QuickSkip = 2
  MaxWritten = 6
  SendFails = TRUE
  ReadBuffer = 1
  Lifetime = 2
INVARIANT DroppedIsReceived
PROPERTY ImplementsStream
CONSTRAINT Unbroken
CHECK_DEADLOCK FALSE
