\* Clients of t2 take turns, those of t1 do not; errors and restarts.
SPECIFICATION FairSpec
CONSTANTS
  p1 = p1
  p2 = p2
  p3 = p3
  t1 = t1
  t2 = t2
  Thread = {p1, p2, p3}
  KeyTriple = {t1, t2}
  None = None
  USER_MIN = 1
  USER_MAX = 4
  Turns = {t2}
  Errors = TRUE
  Crashes = TRUE
INVARIANTS TypeOK UsesOwnKey IdsDistinct DestroyedKeyUnmapped MappedKeysExist NoOrphanKeys
PROPERTIES FailedCreateFreesName MutexReleased
