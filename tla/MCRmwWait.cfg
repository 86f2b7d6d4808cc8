SPECIFICATION WaitLiveSpec
CONSTANTS
  s1 = s1
  s2 = s2
  s3 = s3
  Subs = {s1, s2, s3}
  WaitSets <- BothOrders
  Timeouts = {0, 1, 5}
  Ticks = 2
  MaxMessages = 2
  MaxClock = 3
  NoEntry = NoEntry
INVARIANT
  ReturnTrue
PROPERTIES
  EveryCallReturns
  EveryMessageHandled
