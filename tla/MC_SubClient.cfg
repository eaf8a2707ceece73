SPECIFICATION FairSpec
CONSTANTS
  w1 = w1
  w2 = w2
  w3 = w3
  s1 = s1
  s2 = s2
  NoWatcher = NoWatcher
  Watchers = {w1, w2, w3}
  Symbols = {s1, s2}
  IdMax = 2
INVARIANTS
  OneSocket
  DialStartsDisconnected
  WaitersHaveDialer
  SubscribedHasPending
  AwaitingIsRegistered
PROPERTY
  WaitersAreAnswered
