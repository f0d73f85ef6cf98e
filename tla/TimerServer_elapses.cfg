SPECIFICATION Spec
CONSTANTS
  MaxNbrConcurrentTimer = 3
  ButtonTimers = {2}
  ModesOf <- MCModes
  Timeouts = {1, 5}
  SynchPrescaler = 5
  HandlerMaxDelay = 1
  MaxCalls = 4
INVARIANTS
  ListIsLinked
  ListIsSorted
  WakeupIsNotLost
  WakeupFindsTimer
  
PROPERTIES
  NeverEarly
