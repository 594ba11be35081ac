SPECIFICATION MachineSpec
CONSTANTS
  ada = ada
  bob = bob
  v1 = v1
  v2 = v2
  MaxTroubles = 1
  MaxTasks = 2
  MaxCommits = 1
  MaxAsks = 3
  MaxQueue = 2
  Names = {ada, bob}
  Versions <- OneChanges
  MaxPolls = 2
  MaxChanges = 2
  MaxRunners = 4
  Branches = {feat}
  Notes = {1, 2}
  Items = {1}
  Handlers = {h1, h2}
  MaxSays = 3
  MaxMoves = 1
CHECK_DEADLOCK FALSE
INVARIANTS OneAtATime RemovesOnlyDelivered
PROPERTIES MergedEnds InLine DoneIsEarned MergedIsDone
