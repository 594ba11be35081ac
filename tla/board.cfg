SPECIFICATION BothSpec
CONSTANTS
  Tables = {items, tasks}
  People = {pat}
  BoardReads = {r1, r2}
  MaxWrites = 1
  MaxTroubles = 1
  ann = ann
  bob = bob
CHECK_DEADLOCK FALSE
PROPERTIES NeverBack ReachesEverybody NeighboursAreHeard
