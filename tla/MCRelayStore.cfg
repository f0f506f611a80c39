SPECIFICATION FairSpec
CONSTANTS
  n1 = n1
  n2 = n2
  k = k
  c1 = c1
  c2 = c2
  Event = {n1, n2, k}
  Searchable = {n1, n2}
  Connection = {c1, c2}
  Importer = importer
  NoEvent = NoEvent
  Budget = 2
  MaxRuns = 2
INVARIANTS
  AckedIsStored
PROPERTIES
  DriftIsCounted
  ReindexReconciles
  RetryHeals
