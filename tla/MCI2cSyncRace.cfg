\* The same assertions beside the polled sensor, on a bus that never fails.
SPECIFICATION Spec
CONSTANTS
  SyncTasks = {t1}
  SyncOps <- TwoReads
  HdcPolls = TRUE
  QueueLen = 1
  MAX_RETRY = 3
  BusFails = FALSE
  MayTimeout = FALSE
INVARIANTS
  SyncOkMeansDone
