SPECIFICATION FairReading
CONSTANTS
  Channels = {eng}
  Tabs = {d1, d2}
  MaxLines = 1
  MaxVisits = 1
  MaxCuts = 1
  MaxFails = 0
  MaxMishaps = 1
CHECK_DEADLOCK FALSE
INVARIANTS AllUnreadIsShown
PROPERTIES ReportsArrive
