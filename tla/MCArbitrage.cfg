SPECIFICATION FairSpec
CONSTANTS
  Pairs = {p1, p2}
  ChSize = 1
  Volume = 2
  MaxChains = 1
  MaxNoise = 1
INVARIANTS ChainSafe EndedIsFlat
PROPERTIES ChainProgress
CHECK_DEADLOCK FALSE
