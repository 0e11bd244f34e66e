\* Requests at any point of a tick, on two events and two slots.
SPECIFICATION FairSpec
CONSTANTS
  EventIds = {1, 2}
  Ctxs = {c1}
  NullCtx = null
  Delays = {0, 2}
  Invokes <- MCInvokes
  ListLen = 2
  NewQueueLen = 1
  EvnQueueLen = 1
  MsModulus = 2
INVARIANTS
  LastRequestGoverns
PROPERTIES
  ImplementsTimers
  ForeverComesDue
