SPECIFICATION FairSpec
CONSTANTS
  Worker = {w1,w2}
  Reader = {}
  Offer = {o1}
  Price = {1,2}
  Source = {s1}
  SourceOf <- OneSource
  MaxRetries = 1
  MaxRefreshes = 2
  OutOfRetries = {"raise", "park"}
  Faults = {"source","crash"}
  None = None
  NoEntry = NoEntry
INVARIANTS TypeOK MutualExclusion SnapshotFromHistory DelistedNotTrusted
PROPERTIES LockIsFreed BacklogDrains
CHECK_DEADLOCK FALSE
