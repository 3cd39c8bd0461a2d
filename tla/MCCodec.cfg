\* Every method, and the longest payload of a segment.
SPECIFICATION Spec
CONSTANTS
  Goroutines = {"c1", "c2", "s"}
  EndOf <- MCEndOf
  Seqs = {0, 65535}
  Payloads = {0, 1, 1442, 1458}
  MaxSent = 2
INVARIANT TypeOK
INVARIANT RoundTrip
INVARIANT NoPanic
CHECK_DEADLOCK FALSE
