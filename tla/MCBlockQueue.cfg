SPECIFICATION Spec
CONSTANTS
  Producers = {p1, p2}
  Consumers = {c1}
  Size = 2
  MaxCall = 2
  MaxBytes = 2
  Deadline = TRUE
  p1 = p1
  p2 = p2
  c1 = c1
INVARIANT TypeOK
INVARIANT Capacity
INVARIANT NoLostWakeup
INVARIANT InOrder
INVARIANT NoEmptyRead
INVARIANT NoPanic
PROPERTY ReaderServed
PROPERTY WriterServed
CHECK_DEADLOCK FALSE
