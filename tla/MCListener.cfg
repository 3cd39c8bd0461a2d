\* Two connections, of two peers or of one that comes back, and channels of one message.
SPECIFICATION Spec
CONSTANTS
  Addrs = {"a", "b"}
  MaxConns = 2
  QSize = 1
INVARIANT TypeOK
INVARIANT Reachable
INVARIANT FirstIsSyn1
PROPERTY ReaderGoesOn
PROPERTY ClosesAll
CONSTRAINT FirstIsFirst
CHECK_DEADLOCK FALSE
