CONSTANTS
  KeyTriple = {t1, t2}
  KeyInfo = {i1, i2}
  NoInfo = NoInfo
  Torn = Torn
  IoErrors = FALSE
SPECIFICATION Spec
INVARIANTS OtherMappingsReadable
