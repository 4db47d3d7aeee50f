CONSTANTS
  KeyTriple = {t1, t2, t3}
  KeyInfo = {i1, i2}
  NoInfo = NoInfo
  Torn = Torn
  IoErrors = TRUE
SPECIFICATION Spec
INVARIANT TypeOK
PROPERTY ImplementsKeyInfoStore
