SPECIFICATION AliveSpec
CONSTANTS
  MaxProcs = 6
  Limit <- LimitSafety
  Tabs = {d1}
  MaxOpens = 2
  MaxCuts = 1
  MaxFails = 1
  MaxWalks = 1
  MaxRestarts = 1
  MaxExpired = 1
INVARIANTS NoForgottenProcess RestartIsForACrash
PROPERTIES ReloadEnds EverybodyComesBack SeatsAreGivenUp
CHECK_DEADLOCK FALSE
