SPECIFICATION FairSpec
CONSTANTS
  short = short
  long = long
  NoInterval = NoInterval
  NoItem = NoItem
  Interval <- MCInterval
  Default = long
  InitialInterval = short
  MaxMessages = 3
INVARIANTS
  
  IntervalIsSaved
  
PROPERTIES
  PairsLostOnlyAroundPageWrap
  LoggingResumes
