SPECIFICATION Spec
CONSTANTS
  Worker = {w1}
  Reader = {}
  Offer = {o1}
  Price = {1}
  Source = {s1}
  SourceOf <- OneSource
  MaxRetries = 1
  MaxRefreshes = 1
  OutOfRetries = {"raise"}
  Faults = {"source"}
  None = None
  NoEntry = NoEntry
INVARIANT NoSilentFailure
CHECK_DEADLOCK FALSE
