\* Dial, Close, the server and the reader of messages come to their end.
SPECIFICATION Spec
CONSTANTS
  ResendCount = 1
  MaxFins = 1
  IOFails = FALSE
PROPERTY CallsReturn
PROPERTY ServerFollows
PROPERTY ReaderReleased
CHECK_DEADLOCK FALSE
