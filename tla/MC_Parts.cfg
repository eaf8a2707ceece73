SPECIFICATION PartsSpec
CONSTANTS
  l1 = l1
  Prices = {l1}
  MaxQty = 1
  FirstId = 2
  MaxId = 6
  MaxInit = 2
  MaxBooks = 2
  MaxRetries = 2
  BinanceMarkets = {"Spot", "Future"}
  t1 = t1
  t2 = t2
  p1 = p1
  p2 = p2
  p3 = p3
  Tasks = {t1, t2}
  Watched = {p1, p2, p3}
  Limit = 2
  MaxClients = 2
  MaxWire = 2
  MaxOvertaken = 1
  Symbols = {s1, s2, s3}
  Catches = {c1, c2}
  MexcClients = {k1, k2}
  MaxOrders = 2
  MaxSockets = 2
  MaxSymbols = 2
  MaxUpdates = 2
  x1 = x1
  Sessions = {x1}
  Capacity = 2
  MaxNotifications = 3
  Keep = 2
  MaxTime = 5
  MaxMoves = 3
  Tops <- SomeTops
  Orders <- SomeOrders
  Requests <- SomeRequests
  MaxSteps = 5
  Items = {s1, s2}
  MaxSent = 3
  MaxSenders = 2
SYMMETRY Symmetric
VIEW View
INVARIANTS
  PartsTypeOK
  SynchronisingHasHandler
  OnlyLossTears
  PooledSocketsAreUsed
  OrphansWereOvertaken
  EveryOrderOnce
  StreamsAreHeld
  PlanIsLargest
  SnapshotIsLastRead
  Uninterrupted
  Delivered
PROPERTIES
  Mirrored
  CrossingNeedsDial
  CountedOnceInAWhile
CHECK_DEADLOCK FALSE
