SPECIFICATION Spec
CONSTANTS
  p1 = p1
  t1 = t1
  t2 = t2
  None = None
  MIN_SLOT_IDX_FOR_PUB_KEY = 2
  Config <- FiveSlots
  DeviceType = "ATECC608A"
  Thread = {p1}
  KeyTriple = {t1, t2}
  SLOTS_COUNT = 5
  Attr <- PairAndPublic
  HwLocked <- Slot3
  Exclusive = TRUE
  Errors = FALSE
  Crashes = TRUE
PROPERTY ValidMappingsKept
