SPECIFICATION FairReading
CONSTANTS
  Channels = {eng}
  Tabs = {d1, d2}
  MaxLines = 2
  MaxVisits = 2
  MaxCuts = 1
  MaxFails = 1
  MaxMishaps = 1
CHECK_DEADLOCK FALSE
INVARIANTS UnreadIsShown
PROPERTIES RowsComeDown
