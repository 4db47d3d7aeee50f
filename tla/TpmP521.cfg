\* Keys of every curve that the TPM provider converts; no failures.
SPECIFICATION Spec
CONSTANTS
  None = None
  Missing = Missing
  DeviceType = "AtcaTestDevSuccess"
  Thread = {p1}
  p1 = p1
  KeyTriple <- Triples
  App <- Apps
  Attr <- EccAttributes
  Configs <- TpmConfig
  KeyName = {"k"}
  Traffic <- DirectTraffic
  Errors = FALSE
INVARIANT ValidKeysConvert
CHECK_DEADLOCK FALSE
