SPECIFICATION FairSpec
CONSTANTS
  Capacity = 3
  IrqLevels = 2
  MayFail = TRUE
  a = a
  b = b
  Error = Error
  NoElement = NoElement
  Message <- MCMessage
  Element <- MCElement
INVARIANTS
  NoLostWakeUp
PROPERTIES
  ImplementsQueue
  ImplementsFairQueue
CHECK_DEADLOCK FALSE
