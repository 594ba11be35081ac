SPECIFICATION Spec
CONSTANTS
  MaxTasks = 2
  MaxCommits = 1
  MaxAsks = 3
  MaxQueue = 2
  MaxTroubles = 0
CHECK_DEADLOCK FALSE
INVARIANTS EndedByItsOwn
