SPECIFICATION FairReading
CONSTANTS
  Channels = {eng, ops}
  Tabs = {d1, d2}
  MaxLines = 2
  MaxVisits = 2
  MaxCuts = 0
  MaxFails = 0
  MaxMishaps = 0
CHECK_DEADLOCK FALSE
INVARIANTS SameSet
