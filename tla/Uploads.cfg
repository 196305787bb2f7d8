SPECIFICATION FairSpec
CONSTANTS
  None = None
  Generations <- TwoGenerations
  Calls <- OneCall
  Closing = "close"
  MaxActive = 1
  MaxQueued = 2
  MaxJobs = 4
CHECK_DEADLOCK FALSE
INVARIANTS
  WorkIsBounded
  QueueIsServed
  TotalsBalance
  ResolvedIsQuiet
PROPERTIES
  CancelledNeverBegins
  WaitsEnd
