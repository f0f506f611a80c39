SPECIFICATION FairSpec
CONSTANTS
  Event = {a, b}
  NoEvent = NoEvent
  MaxCalls = 2
  MaxSockets = 2
  MaxChallenges = 2
PROPERTIES
  ImplementsPublication
  RetriedInOrder
CHECK_DEADLOCK FALSE
