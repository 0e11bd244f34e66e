\* The polled sensor alone on a bus that never fails.
SPECIFICATION FairSpec
CONSTANTS
  SyncTasks = {}
  SyncOps <- TwoReads
  HdcPolls = TRUE
  QueueLen = 1
  MAX_RETRY = 3
  BusFails = FALSE
  MayTimeout = FALSE
PROPERTIES
  HumidityMeasured
