\* conn.go:67: a dial that timed out says so.
SPECIFICATION Spec
CONSTANTS
  ResendCount = 1
  MaxFins = 1
  IOFails = FALSE
INVARIANT DialMeansEstablished
CHECK_DEADLOCK FALSE
