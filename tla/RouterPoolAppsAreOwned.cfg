\* An AVD that is started while it is being stopped.
SPECIFICATION RouterSpec
CONSTANTS
  Requests <- ThreeRequests
  Stops <- OneStop
  MaxCalls = 5
INVARIANTS
  AppsAreOwned
CHECK_DEADLOCK FALSE
