SPECIFICATION Spec
CONSTANTS
  a1 = a1
  a2 = a2
  e1 = e1
  e2 = e2
  Price = {1, 2}
  None = None
  Targets = {None, 1}
  Deals = {None}
  Alert = {a1}
  RuleOf <- OneRule
  Event = {e1, e2}
  DropOf <- TwoDrops
  Worker = {w1, w2}
  Cooldown = 1
  MaxTime = 1
  MaxRetries = 1
  OutOfRetries = {"raise", "park"}
  Faults = {"smtp", "reply", "database", "redis", "crash"}
SYMMETRY Interchangeable
INVARIANTS TypeOK StampsAreBacked HandledMeansMailed
CHECK_DEADLOCK FALSE
