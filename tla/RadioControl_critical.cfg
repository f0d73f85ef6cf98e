SPECIFICATION Spec
CONSTANTS
  Handle = {h1, h2}
  NoHandle = NoHandle
  MaxMessages = 2
  MaxEvents = 2
INVARIANTS
  NoBleAfterCritical
CHECK_DEADLOCK FALSE
