SPECIFICATION Spec
CONSTANTS
  p1 = p1
  p2 = p2
  t1 = t1
  t2 = t2
  i1 = i1
  i2 = i2
  None = None
  Thread = {p1, p2}
  KeyTriple = {t1, t2}
  Id = {i1, i2}
  Attr <- Attributes
  allow_export = FALSE
  Turns <- TakingTurns
  Collide = FALSE
  Errors = TRUE
  Crashes = TRUE
SYMMETRY Symmetry
INVARIANTS TypeOK FindsOwnKey MappedKeysWhole ValidatedPolicyIsCurrent UsesValidatedObject NothingLeft
