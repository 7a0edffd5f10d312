CONSTANTS
  Threads = {t1, t2}
  Refs = {r1}
  Plain = Plain
  None = None
  CacheTTL = 2
  AgentBound = 0
  MaxQuery = 1
  MaxTime = 4
  MaxVersions = 2
  MaxWrites = 2
  MaxBack = 2
SYMMETRY Symmetry
SPECIFICATION Spec
INVARIANTS FreshEnough SupersededExpires CacheIsCurrent FailureExpires
