SPECIFICATION FairSpec
CONSTANTS
  Worker = {w1}
  Reader = {r1}
  Offer = {o1}
  Price = {1,2}
  Source = {s1}
  SourceOf <- OneSource
  MaxRetries = 1
  MaxRefreshes = 1
  OutOfRetries = {"raise", "park"}
  Faults = {"source","redis","crash","relist"}
  None = None
  NoEntry = NoEntry
PROPERTIES CacheSettles
CHECK_DEADLOCK FALSE
