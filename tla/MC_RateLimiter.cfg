SPECIFICATION Spec
CONSTANTS
  t1 = t1
  t2 = t2
  t3 = t3
  Threads = {t1, t2, t3}
  Capacity = 2
  RefillAmount = 2
  Interval = 2
  InitialAvailable = 1
  Align = 3
  BuildTimes = {4}
  Requests = {1, 2}
  MaxNow = 8
SYMMETRY Symmetric
INVARIANTS
  Conservation
  TicksAreElapsedTime
  RateBound
PROPERTY
  QuotaSpec
