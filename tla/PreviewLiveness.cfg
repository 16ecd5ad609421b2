SPECIFICATION FairSpec
CONSTANTS
  Product = {p1}
  None = None
  Request = {r1, r2}
  Worker = {w1, w2}
  Script = {s1}
  Cap = 2
  MaxRetries = 1
  OutOfRetries = {"raise", "park"}
  Faults = {"photo", "provider", "redis", "crash"}
PROPERTIES GenerationsEnd
CHECK_DEADLOCK FALSE
