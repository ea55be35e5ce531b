SPECIFICATION FairSpec
CONSTANT MaxRequests = 2
PROPERTIES RequestsSettle FinalOrderNoticed
CHECK_DEADLOCK FALSE
