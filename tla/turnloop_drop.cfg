SPECIFICATION Spec
CONSTANTS
  w1 = w1
  w2 = w2
  w3 = w3
  w4 = w4
  s1 = s1
  s2 = s2
  Scopes = {s1, s2}
  BanterScopes = {}
  Workers = {w1}
  NoTurn = NoTurn
  MaxLive = 1
  MaxBatch = 2
  MaxAttempts = 2
  MaxMsgs = 2
  Limit <- LimitDrop
CHECK_DEADLOCK FALSE
SYMMETRY WorkerSymmetry
INVARIANTS NeverSilentThroughDrops
