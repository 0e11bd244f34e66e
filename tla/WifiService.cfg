\* Two attempts to reconnect, two stations at the access point, failing calls.
SPECIFICATION FairSpec
CONSTANTS
  WIFI_MAX_RETRY = 2
  AP_MAX_CONNECTION = 2
  CallsFail = TRUE
  MaxPending = 3
INVARIANTS
  ModeAsRequested
  ScanUndisturbed
  BitsTruthful
PROPERTIES
  GivesUpLate
  NeverSilentlyDown
