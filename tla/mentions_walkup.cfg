SPECIFICATION FairSpec
CONSTANTS
  Agents = {ada, bob}
  Channels = {eng}
  MaxHops = 2
  Earshot = {ada, bob}
  Elsewhere = FALSE
  MaxLines = 2
  MaxLeaves = 1
CHECK_DEADLOCK FALSE
INVARIANTS FreshStart
