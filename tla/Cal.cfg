SPECIFICATION Spec
CONSTANTS
  p1 = p1
  p2 = p2
  t1 = t1
  t2 = t2
  t3 = t3
  None = None
  Thread = {p1, p2}
  KeyTriple = {t1, t2, t3}
  SLOTS_COUNT = 5
  MIN_SLOT_IDX_FOR_PUB_KEY = 2
  Config <- FiveSlots
  HwLocked <- Slot3
  DeviceType = "ATECC608A"
  Attr <- AllAttributes
  Exclusive = TRUE
  Errors = TRUE
  Crashes = TRUE
SYMMETRY Symmetry
INVARIANTS TypeOK MappedSlotsOwned NoSlotLeak MappedKeysFit
