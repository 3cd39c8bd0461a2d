\* Both ends, with errors of the socket of the dialer.
SPECIFICATION Spec
CONSTANTS
  ResendCount = 1
  MaxFins = 1
  IOFails = TRUE
INVARIANT TypeOK
INVARIANT NoNilWindow
INVARIANT FinAfterWindow
PROPERTY ClosedOnce
PROPERTY ImplementsSession
CHECK_DEADLOCK FALSE
