SPECIFICATION FairSpec
CONSTANT MaxRequests = 2
PROPERTIES CreatedOrderWatched
CHECK_DEADLOCK FALSE
