SPECIFICATION ThreadsSpec
CONSTANTS
  Threads = {1, 2}
  Tasks <- Workers
  Exchanges = {"gate", "binance"}
  NoTask = "none"
  ThreadOf <- On
  Joins <- Join
  NumCpus = 2
  s1 = s1
  s2 = s2
  s3 = s3
  c1 = c1
  c2 = c2
  r1 = r1
  Symbols = {s1, s2, s3}
  Calls = {c1, c2}
  Requests = {r1}
INVARIANTS
  AskedOnce
  LimitersAreSet
  DispatchTypeOK
  Routed
  MonitoredOnce
PROPERTIES
  SetupEnds
  HandOutsReachWorkers
  StarvedOnlyByEarlier
CHECK_DEADLOCK FALSE
