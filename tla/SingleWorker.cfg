SPECIFICATION Spec
CONSTANTS
  Worker = {w1}
  Reader = {}
  Offer = {o1}
  Price = {1,2}
  Source = {s1}
  SourceOf <- OneSource
  MaxRetries = 1
  MaxRefreshes = 2
  OutOfRetries = {"raise", "park"}
  Faults = {"source","throttle","redis","database","crash","slow","relist"}
  None = None
  NoEntry = NoEntry
INVARIANTS SnapshotIsLatest DropsAreGenuine
PROPERTY ImplementsPriceBook
CHECK_DEADLOCK FALSE
