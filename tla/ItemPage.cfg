SPECIFICATION FairSpec
CONSTANTS
  Offer = {o1}
  Worker = {w1, w2}
  Client = {c1}
  Price = {100, 104}
  Target = {100}
  None = None
  Window = 0
  LastDay = 1
  Changes = 2
  Faults = {"outage", "stream", "giveup", "crash"}
INVARIANTS TypeOK
PROPERTIES GradedAgainstItself CachedVerdictSettles PagesCatchUp
CHECK_DEADLOCK FALSE
