SPECIFICATION Spec
CONSTANTS
  MaxErrors = 3
  MaxFaults = 0
INVARIANT TransfersDoNotOverlap
CHECK_DEADLOCK FALSE
