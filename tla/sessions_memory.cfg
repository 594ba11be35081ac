SPECIFICATION Spec
CONSTANTS
  a = a
  b = b
  Scopes = {a}
  Roots = {1, 2}
  MaxProcs = 3
  MaxSessions = 4
  MaxOpens = 3
  Limits <- LimitsMemory
INVARIANTS MemoryKnownEver
CHECK_DEADLOCK FALSE
