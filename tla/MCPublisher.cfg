SPECIFICATION FairSpec
CONSTANTS
  r = r
  d = d
  p = p
  Event = {r, d, p}
  NoEvent = NoEvent
  Batch <- MCBatch
  ChainPoint <- MCChainPoint
  Lane = {l1, l2}
  MaxRetries = 1
  Budget = 2
INVARIANTS
  OkMeansStored
  AbandonedIsQueued
  RunAnswersForAll
  CleanRunSettles
PROPERTIES
  SettledIsLeftAlone
  RunEnds
CHECK_DEADLOCK FALSE
