SPECIFICATION FairSpec
CONSTANTS
  Sess = {s1, s2, s3}
  NoSess = NoSess
  MaxLives = 3
INVARIANTS ManagerSafe OpenIsKnown
PROPERTIES TradesAgain
CHECK_DEADLOCK FALSE
