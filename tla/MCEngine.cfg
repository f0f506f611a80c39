SPECIFICATION Spec
CONSTANTS
  Record = {"product", "metadata"}
  Kept = {"advisory"}
  Card = {"card"}
  Relation = {"record", "report", "crosslink"}
  Seeded = {"crosslink"}
  Ends <- MCEnds
  Dataset <- MCDataset
  Gone = Gone
  None = None
  MaxBuilds = 3
  MaxRelease = 2
  MaxMissed = 1
  Budget = 1
INVARIANTS RebuildIsNoOp PatchesApply LedgerIsRelay
CHECK_DEADLOCK FALSE
