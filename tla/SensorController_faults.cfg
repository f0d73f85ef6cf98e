SPECIFICATION FairSpec
CONSTANTS
  MaxErrors = 3
  MaxFaults = 5
INVARIANTS
  DataMatchesCommand
  GivesUpOnlyWithoutReset
  AssertsOnlyIfIrregular
PROPERTIES
  MeasurementsContinue
CHECK_DEADLOCK FALSE
