SPECIFICATION WindowSpec
CONSTANTS
  t1 = t1
  Threads = {t1}
  Capacity = 2
  RefillAmount = 2
  Interval = 3
  InitialAvailable = 2
  Align = 3
  BuildTimes = {3}
  Requests = {1}
  MaxNow = 9
INVARIANT
  SlidingWindowBound
