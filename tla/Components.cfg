SPECIFICATION Spec
CONSTANTS
  EventSizes = {1, 3}
  EventLimit = 2
  ByteLimit = 6
  RouteSteps = 2
  MaxRuns = 2
  MaxEpochs = 2
  Subscribers = {s1, s2}
  MaxSubscribers = 2
  MaxQueueLines = 1
  MaxLine = 1
  MaxChunks = 2
  MaxChildren = 2
  BodyLimit = 3
  InitialCapacity = 1
  MinimalGrowth = 1
  ChunkLimit = 2
  YieldInterval = 2
  Touches = {p0, p1}
  Keys = {k0, k1}
  MaxDisplay = 3
  MaxProbes = 2
  MaxForced = 3
  Payloads <- MCPayloads
  HeaderBytes = 2
  PreambleBytes = 3
  ExtraBytes = 1
  ChunkBytes = 4
  BufferLimit = 6
  Viewers = {v1, v2}
  MaxCaptures = 3
  MaxEffects = 2
  MaxGenerations = 4
  MaxEvents = 1
  MaxSessions = 2
  MaxRevisions = 4
  MaxMutations = 2
  Clients = {"c0", "c1"}
  MaxPublications = 2
  MaxImages = 4
  ReadSizes = {5, 9}
  PendingLimit = 21
  MaxPackets = 5
  MaxLinks = 2
  MaxMseEffects = 2
  Callers = {"c0", "c1"}
  MaxAppGenerations = 5
  Cells = 2
  StableReads = 2
  CleanupTries = 2
  MaxShots = 3
  MaxNotices = 2
  Users = {"u0"}
  Facings = {"back", "front"}
  MaxLaunches = 2
INVARIANTS
  NothingLeftBehind
  NothingStranded
  WhatIsHandedOnIsWhole
PROPERTIES
  StaleIsIgnored
CHECK_DEADLOCK FALSE
