\* Liveness, on a smaller instance.
SPECIFICATION TLiveSpec
CONSTANTS
  SeqMod = 4
  RecWin = 2
  MSS = 2
  AppBuffer = 2
  QuickSkip = 2
  MaxWritten = 2
  SendFails = FALSE
  ReadBuffer = 1
  Lifetime = 2
PROPERTY GetsOn
PROPERTY Drains
PROPERTY FlusherEnds
CHECK_DEADLOCK FALSE
