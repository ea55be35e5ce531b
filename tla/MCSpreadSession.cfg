SPECIFICATION Spec
CONSTANT MaxRequests = 3
INVARIANTS TypeOK OneLiveOrder NoBuyWhileSelling NeedMeansIdle BookedOnce
  DoneIsFlat WatcherHasActive NoNilOrder OnlyTwoTraps
CHECK_DEADLOCK FALSE
