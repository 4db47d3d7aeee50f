SPECIFICATION Spec
CONSTANTS
  Thread = {p1, p2}
  p1 = p1
  p2 = p2
  t1 = t1
  KeyTriple = {t1}
  None = None
  USER_MIN = 1
  USER_MAX = 3
  Turns = {}
  Errors = FALSE
  Crashes = FALSE
INVARIANT UndoneKeyPrivate
