SPECIFICATION Spec
CONSTANTS
  Issuers <- AllIssuers
  Others <- OtherIssuers
  LaneOf <- Lanes
  MaxActive = 2
  MaxQueued = 2
  ActiveReserve = 1
  QueueReserve = 1
  MaxAttempts = 2
  MaxPackets = 3
\* The session ends closed.
CHECK_DEADLOCK FALSE
INVARIANTS
  SlotsAreUsed
  DeviceIsLeftClean
  StreamIsWhole
PROPERTY
  LaunchSettles
