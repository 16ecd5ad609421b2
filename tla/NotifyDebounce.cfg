SPECIFICATION FairSpec
CONSTANTS
  a1 = a1
  a2 = a2
  e1 = e1
  e2 = e2
  Price = {1, 2}
  None = None
  Targets = {1}
  Deals = {1, 2}
  Alert = {a1, a2}
  RuleOf <- BothRules
  Event = {e1, e2}
  DropOf <- TwoDrops
  Worker = {w1}
  Cooldown = 1
  MaxTime = 1
  MaxRetries = 1
  OutOfRetries = {"raise", "park"}
  Faults = {"smtp"}
INVARIANTS DebounceHolds
PROPERTIES NotifyConcludes
CHECK_DEADLOCK FALSE
