SPECIFICATION Spec
CONSTANTS
  s1 = s1
  s2 = s2
  o1 = o1
  o2 = o2
  o3 = o3
  None = None
  Serials <- TwoSerials
  FirstSerial <- s1
  Ops <- ThreeOps
  MaxContexts = 2
CONSTRAINT OneEnder
SYMMETRY Symmetry
\* Once every request is answered the server may have nothing left to do.
CHECK_DEADLOCK FALSE
INVARIANTS
  TypeOK
  NoStrayContext
  PublishedSessionDrivesItsDevice
  ReplayTargetsPublished
  StagedStateStaysOpen
  StopLeavesNothing
PROPERTIES
  ImplementsPublishedSession
  VerdictIsFinal
