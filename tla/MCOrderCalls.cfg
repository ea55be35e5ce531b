SPECIFICATION FairSpec
CONSTANTS
  Callers = {c1, c2}
  Orders = {o1, o2}
  Nobody = Nobody
  Noisy = {c1}
INVARIANTS CallsSafe AnswerIsFresh
PROPERTIES CallsEnd
CHECK_DEADLOCK FALSE
