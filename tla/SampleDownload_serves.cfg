SPECIFICATION FairSpec
CONSTANTS
  PageItems = 2
  NrOfPages = 3
  SamplesPerFrame = 2
  InitialCounts = {0, 5}
  Requests = {0, 3, 8}
  EventKinds = {"add", "refuse", "read", "unsubscribe"}
  MaxSubscriptions = 2
  MaxEvents = 3
INVARIANTS
  TypeOK
PROPERTIES
  CacheIsStable
  ImplementsDownload
  
  
CHECK_DEADLOCK FALSE
