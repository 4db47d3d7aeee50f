SPECIFICATION Spec
CONSTANTS
  p1 = p1
  p2 = p2
  t1 = t1
  t2 = t2
  None = None
  Thread = {p1, p2}
  KeyTriple = {t1, t2}
  USER_MIN = 0
  USER_MAX = 3
  Turns <- TakingTurns
  Errors = FALSE
  Crashes = TRUE
PROPERTY AbsentKeysDeleted
CHECK_DEADLOCK FALSE
