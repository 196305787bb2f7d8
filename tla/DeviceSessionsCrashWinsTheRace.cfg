SPECIFICATION FairSpec
CONSTANTS
  s1 = s1
  s2 = s2
  o1 = o1
  o2 = o2
  o3 = o3
  None = None
  Serials <- TwoSerials
  FirstSerial <- s1
  Ops <- TwoOps
  MaxContexts = 1
\* Once every request is answered the server may have nothing left to do.
CHECK_DEADLOCK FALSE
PROPERTY
  CrashWinsTheRace
