SPECIFICATION FairSpec
CONSTANTS
  Workers = {w1, w2}
  SendCap = 2
  ReadCap = 1
  MaxRequests = 2
  MaxMessages = 2
  MaxPings = 1
INVARIANTS ClosesLast
PROPERTIES LossEndsBot ShutDownEnds
CHECK_DEADLOCK FALSE
