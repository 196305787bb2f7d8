\* The device's apps, with two stops of its AVD, which may overlap, starts of it and
\* one close of the router. The calls are bounded, so the system stops.
SPECIFICATION RouterSpec
CONSTANTS
  Requests <- ThreeRequests
  Stops <- TwoStops
  MaxCalls = 5
INVARIANTS
  AppsAreOwnedInOrder
PROPERTIES
  RequestsSettle
CHECK_DEADLOCK FALSE
