SPECIFICATION Spec
CONSTANTS
  MaxPrice = 3
  QueueCap = 1
  MaxMessages = 2
INVARIANTS PricesFollow BookIsMarket NoLostWakeUp
CHECK_DEADLOCK FALSE
