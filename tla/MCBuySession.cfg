SPECIFICATION FairSpec
CONSTANTS
  MaxRequests = 2
  BuyTotal = 2
INVARIANTS SessionSafe SpendsNoMore EndedIsFlat
PROPERTIES SessionProgress
CHECK_DEADLOCK FALSE
