SPECIFICATION FairSpec
CONSTANT MaxRequests = 2
PROPERTIES RefusedBuyAllowsSell
CHECK_DEADLOCK FALSE
