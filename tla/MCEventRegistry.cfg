\* One task and the handlers themselves register, unregister and send while the
\* event task dispatches.
SPECIFICATION FairSpec
CONSTANTS
  EventIds = {1}
  EVN_ANY = 9
  Handlers = {h1, h2}
  NO_HANDLER = null
  MaxHandlers = 2
  EvnQueueLen = 1
  Registrars = {main, evn}
  Unregistrars = {main, evn}
  Senders = {main, evn}
  EvnTask = evn
  Serialised = TRUE
INVARIANTS
  RegistrationHolds
  UnregisterPreventsCall
  NoNullCall
  ServedOnce
PROPERTIES
  ServedAll
  CallsReturn
