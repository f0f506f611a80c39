SPECIFICATION WalkSpec
CONSTANTS
  Times <- LaterTimes
  MaxEvents = 8
  PageSize = 2
  MaxPageSize = 4
INVARIANTS
  CompleteWhenDone
PROPERTIES
  Terminates
