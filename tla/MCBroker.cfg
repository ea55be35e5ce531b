SPECIFICATION Spec
CONSTANTS
  Chans = {c1, c2}
  Publishers = {p1, p2}
  NoChan = NoChan
  PublishCap = 1
  ChanCap = 1
  MaxMessages = 4
INVARIANTS TypeOK SendIsSafe EveryMessageAccounted ClosedOnlyAfterLeaving
PROPERTIES ImplementsPubSub PublishReturns LeaverIsClosed
CHECK_DEADLOCK FALSE
