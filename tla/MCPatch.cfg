SPECIFICATION Spec
CONSTANTS
  Size <- MCSize
  Ticks <- MCTicks
  Dashed <- MCDashed
  MaxHunks = 2
  MaxWork = 110
  CONTEXT_LINES = 1
  Content <- MCContent
  StartContext = {0, 1}
  None = None
INVARIANTS
  PublishedPatchesApply
  WideningIsExact
  CreateGivesUpOnHeadersOnly
CHECK_DEADLOCK FALSE
