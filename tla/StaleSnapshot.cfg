SPECIFICATION Spec
CONSTANTS
  Worker = {w1,w2}
  Reader = {}
  Offer = {o1}
  Price = {1,2}
  Source = {s1}
  SourceOf <- OneSource
  MaxRetries = 0
  MaxRefreshes = 3
  OutOfRetries = {"raise"}
  Faults = {}
  None = None
  NoEntry = NoEntry
INVARIANT SnapshotIsLatest
CHECK_DEADLOCK FALSE
