\* Two threads and every configuration of up to two providers.
SPECIFICATION Spec
CONSTANTS
  None = None
  Missing = Missing
  DeviceType = "AtcaTestDevSuccess"
  Thread = {p1, p2}
  p1 = p1
  p2 = p2
  KeyTriple <- Triples
  App <- Apps
  Attr <- Attributes
  Configs <- AllConfigs
  KeyName = {"k"}
  Traffic <- WellFormed
  Errors = TRUE
SYMMETRY Symmetry
VIEW View
INVARIANTS TypeOK RequestsDecided ListedProvidersServe SkippedAsIfAbsent ContextMatchesAttributes DeletedClientHasNoKeys ListsAreComplete
PROPERTY OnlyOwnersAndAdmins
CHECK_DEADLOCK FALSE
