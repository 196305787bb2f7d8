SPECIFICATION DeliverySpec
CONSTANTS
  c1 = c1
  w1 = w1
  w2 = w2
  NoSession = NoSession
  Clients <- OneClient
  SessionIds <- TwoSessions
  MaxCancelled = 1
  Interval = 2
  Cooldown = 1
  FirstFrame = 4
  Stall = 3
  Retry = 3
SYMMETRY Symmetry
INVARIANTS
  IntactWhenServed
  AwaitingIsRetried
  PeersAreTracked
  NothingOutlivesSession
