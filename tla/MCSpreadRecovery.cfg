SPECIFICATION FairRecoverySpec
CONSTANT MaxRequests = 2
INVARIANTS RecoverySafe
PROPERTIES ResumedIsWatched FileIsUsed
CHECK_DEADLOCK FALSE
