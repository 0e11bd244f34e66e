\* A caller with time limits beside the polled sensor, on a bus that fails.
SPECIFICATION FairSpec
CONSTANTS
  SyncTasks = {t1}
  SyncOps <- MixedOps
  HdcPolls = TRUE
  QueueLen = 1
  MAX_RETRY = 1
  BusFails = TRUE
  MayTimeout = TRUE
INVARIANTS
  CallbacksInOrder
  OpsAlive
  AnswerAfterWork
PROPERTIES
  RequestsTaken
