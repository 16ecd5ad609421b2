SPECIFICATION FairSpec
CONSTANTS
  e1 = e1
  e2 = e2
  t1 = t1
  t2 = t2
  k1 = k1
  Client = {c1, c2}
  Email = {e1, e2, e3}
  Item = {1, 2, 3}
  Key = {k1}
  Demo = {k1}
  Token = {t1, t2, t3}
  Edits <- FormAndPatch
  None = None
  Standing <- OneProduct
  TokenOf <- TokenEach
  Requests = 2
  Faults = {"broker", "abandon"}
INVARIANTS TypeOK NoOrphans TracksOnce
PROPERTIES OwnersOnly ActiveIsRefreshed
