SPECIFICATION Spec
CONSTANTS
  Threads = {1, 2}
  Tasks <- Starting
  Exchanges = {"gate", "binance"}
  NoTask = "none"
  ThreadOf <- StartOn
  Joins <- StartJoin
INVARIANT
  NoDeadlock
CHECK_DEADLOCK FALSE
