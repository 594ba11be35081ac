SPECIFICATION OfficeSpec
CONSTANTS
  Agents = {ada, bob}
  Seats = {north}
  Begins = {b1}
  MaxSessions = 2
  MaxFails = 1
  Rooms = {m1, m2}
  Ids = {1}
  Names = {"a"}
  PerAgent = 1
  Editors = {e1}
  Schedules <- CronAndOnce
  Horizon = 2
  MaxMishaps = 1
  Channels = {eng}
  MaxHops = 2
  Earshot = {}
  Elsewhere = FALSE
  MaxLines = 2
  MaxLeaves = 1
CHECK_DEADLOCK FALSE
INVARIANTS SpokenOnce
PROPERTIES PresentKeepsDesk DeskComes NoSlotSkipped MissedIsMadeUp ChainEnds
