SPECIFICATION Spec
CONSTANT maxTickerResendC = 1
INVARIANT TypeOK
INVARIANT Handshake
INVARIANT EndsOnce
PROPERTY CallerReturns
PROPERTY ResenderEnds
CHECK_DEADLOCK FALSE
