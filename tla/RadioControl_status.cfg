SPECIFICATION FairSpec
CONSTANTS
  Handle = {h1}
  NoHandle = NoHandle
  MaxMessages = 2
  MaxEvents = 2
INVARIANTS
  StatusAgrees
  OffMeansSilent
  SymbolFollowsRadio
  StaysConnectable
PROPERTIES
  CriticalSwitchesOff
