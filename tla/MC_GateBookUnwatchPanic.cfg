SPECIFICATION Spec
CONSTANTS
  b1 = b1
  b2 = b2
  a1 = a1
  BidLevels = {b1, b2}
  AskLevels = {a1}
  MaxQty = 1
  FirstId = 2
  MaxId = 6
  Overlap = 0
  MaxInit = 2
  MaxBooks = 2
  MaxRetries = 2
  AllowUnwatch = TRUE
SYMMETRY Symmetric
INVARIANT
  NoBidPanic
CHECK_DEADLOCK FALSE
