SPECIFICATION Spec
CONSTANTS
  Product = {p1}
  None = None
  Request = {r1, r2, r3}
  Worker = {w1}
  Script = {}
  Cap = 2
  MaxRetries = 1
  OutOfRetries = {"raise", "park"}
  Faults = {"photo", "provider", "reply", "database", "redis", "crash"}
INVARIANTS TypeOK JobsBounded ServedTogether
CHECK_DEADLOCK FALSE
