SPECIFICATION Spec
CONSTANTS
  w1 = w1
  w2 = w2
  s1 = s1
  NoWatcher = NoWatcher
  Watchers = {w1, w2}
  Symbols = {s1}
  IdMax = 3
INVARIANT
  AwaitedIsRequested
