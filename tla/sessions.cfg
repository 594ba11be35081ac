SPECIFICATION BothSpec
CONSTANTS
  Notes = {1, 2}
  Writers = {s1, s2}
  Room = 2
  MaxEdits = 1
  MaxLost = 1
  a = a
  b = b
  Scopes = {a, b}
  Roots = {1, 2}
  MaxProcs = 3
  MaxSessions = 4
  MaxOpens = 3
  Limits <- CrashOrReload
INVARIANTS SessionsKnowTheMemory ReloadKeepsConversations DroppedStaysDropped
PROPERTIES NothingUnseenIsErased
CHECK_DEADLOCK FALSE
