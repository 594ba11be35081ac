SPECIFICATION LedgerSpec
CONSTANTS
  Branches = {feat}
  Notes = {1, 2}
  Items = {0}
  Handlers = {h1}
  MaxSays = 4
  MaxMoves = 0
CHECK_DEADLOCK FALSE
PROPERTY DoneIsEarned
